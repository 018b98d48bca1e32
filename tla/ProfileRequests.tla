--------------------------- MODULE ProfileRequests ---------------------------
(***************************************************************************)
(* Requests of the devices of one citizen about his profile, his data, his *)
(* preferences, his messages, IO Sign and FIMS, and those that search the  *)
(* services or read his CDC status.  Nothing is kept here: each handler    *)
(* reads what it needs and makes one call that matters, to a function app  *)
(* (external) that carries it out when it gets it - after the handler has  *)
(* given up, maybe, or never.  The profile lives at the function app, with *)
(* a version that an update has to name.                                   *)
(***************************************************************************)
EXTENDS Integers

CONSTANTS
    Requests,
    Devices,
    Emails,
    Traffic,     \* what they may be together, see Request
    Refusals,    \* the statuses the function apps refuse with
    MaxVersion   \* bound of the profile's versions

(* What the citizen asks for: to write, or to read ...                     *)
Writes == {"updateProfile", "startEmailValidationProcess", "upsertUserDataProcessing",
           "abortUserDataProcessing", "upsertServicePreferences", "createFilledDocument",
           "createSignature", "requestExport", "upsertMessageStatus"}
Reads == {"getProfile", "getUserDataProcessing", "getServicePreferences", "getAccessHistory",
          "getSignatureRequest", "getSignatureRequests", "getQtspClausesMetadata",
          "getMessagesByUser", "getMessage", "findInstitutions", "getServiceById",
          "getFeaturedServices", "getFeaturedInstitutions", "findInstutionServices", "cdcStatus"}
(* ... and which of them are about a signer, or want a validated email.    *)
ForSigner == {"createFilledDocument", "createSignature", "getSignatureRequest",
              "getSignatureRequests"}
ForValidatedEmail == {"createFilledDocument", "createSignature", "requestExport"}

(* What does not decode is answered 400, unless there is nothing to decode *)
(* or a 500 is answered instead.                                           *)
NothingToDecode == {"getFeaturedServices", "getFeaturedInstitutions"}
InternalErrorWhenInvalid == {"getServiceById", "findInstutionServices"}

(* email: the address of the update.                                       *)
Request == [op: Writes \union Reads, device: Devices, email: Emails]

ASSUME TrafficAssumption == Traffic \subseteq [Requests -> Request]
ASSUME VersionAssumption == MaxVersion \in Nat

Versions == 0..MaxVersion
Profile == [exists: BOOLEAN, version: Versions, email: Emails, validated: BOOLEAN]

Done == {"200", "201", "202"}
Refused == {"400", "401", "403", "404", "409", "412", "422", "429"}
ASSUME RefusalsAssumption == Refusals \subseteq Refused
Statuses == Done \union Refused \union {"500"}

VARIABLES
    profile,   \* at the function app
    author,    \* auxiliary: requests whose update made each version
    seen,      \* version of the profile each device knows
    pc,        \* next step of each request
    req,       \* the request
    base,      \* and the version of the profile it names
    valid,     \* auxiliary: emails that were valid while it is handled
    got,       \* the profile it has read
    call,      \* its call: none, sent, or answered and the answer not taken yet
    performed, \* auxiliary: requests whose call took effect
    used,      \* emails given to IO Sign and to FIMS, by request
    answer     \* HTTP status it was answered

handler == <<pc, req, base, got, answer>>
vars == <<profile, author, seen, pc, req, base, valid, got, call, performed, used, answer>>

TypeOK ==
    /\ profile \in Profile
    /\ author \in [Versions -> SUBSET Requests]
    /\ seen \in [Devices -> Versions]
    /\ pc \in [Requests -> {"idle", "signer", "profile", "call", "await", "done"}]
    /\ req \in [Requests -> Request]
    /\ base \in [Requests -> Versions]
    /\ valid \in [Requests -> SUBSET Emails]
    /\ got \in [Requests -> Profile]
    /\ call \in [Requests -> {"none", "sent"} \union Statuses]
    /\ performed \subseteq Requests
    /\ used \subseteq Requests \X Emails
    /\ answer \in [Requests -> {"none"} \union Statuses]

Init ==
    /\ profile \in [exists: {TRUE}, version: {0}, email: Emails, validated: BOOLEAN]
    /\ author = [v \in Versions |-> {}]
    /\ seen = [d \in Devices |-> 0]
    /\ pc = [r \in Requests |-> "idle"]
    /\ req \in Traffic
    /\ base = [r \in Requests |-> 0]
    /\ valid = [r \in Requests |-> {}]
    /\ got = [r \in Requests |-> profile]
    /\ call = [r \in Requests |-> "none"]
    /\ performed = {}
    /\ used = {}
    /\ answer = [r \in Requests |-> "none"]

Op(r) == req[r].op
Handled(r) == pc[r] \notin {"idle", "done"}
ValidEmails(p) == IF p.exists /\ p.validated THEN {p.email} ELSE {}

-----------------------------------------------------------------------------
(* The profile at the function app, external.                              *)

SetProfile(p) ==
    /\ profile' = p
    /\ valid' = [r \in Requests |-> IF Handled(r) THEN valid[r] \union ValidEmails(p) ELSE valid[r]]

\* The citizen follows the link he got by email.
EmailValidated ==
    /\ profile.exists /\ ~profile.validated /\ profile.version < MaxVersion
    /\ SetProfile([profile EXCEPT !.validated = TRUE, !.version = @ + 1])
    /\ UNCHANGED <<author, seen, handler, call, performed, used>>

\* The deletion he asked for is carried out.
ProfileDeleted ==
    /\ profile.exists
    /\ SetProfile([profile EXCEPT !.exists = FALSE])
    /\ UNCHANGED <<author, seen, handler, call, performed, used>>

-----------------------------------------------------------------------------
(* Handlers. *)

Goto(r, from, to) == pc[r] = from /\ pc' = [pc EXCEPT ![r] = to]
Finish(r, from, status) == Goto(r, from, "done") /\ answer' = [answer EXCEPT ![r] = status]

FirstStep(op) ==
    IF op \in ForSigner THEN "signer" ELSE IF op \in ForValidatedEmail THEN "profile" ELSE "call"

(* A device updates the profile it knows.  400 when the user, the body or  *)
(* the headers do not decode, 500 when the profile is not one of the       *)
(* function app's.                                                         *)
Arrive(r) ==
    /\ base' = [base EXCEPT ![r] = seen[req[r].device]]
    /\ valid' = [valid EXCEPT ![r] = ValidEmails(profile)]
    /\ \/ Goto(r, "idle", FirstStep(Op(r))) /\ UNCHANGED answer
       \/ Op(r) \notin NothingToDecode \union InternalErrorWhenInvalid /\ Finish(r, "idle", "400")
       \/ Op(r) \in InternalErrorWhenInvalid \union {"updateProfile"} /\ Finish(r, "idle", "500")
    /\ UNCHANGED <<profile, author, seen, req, got, call, performed, used>>

retrieveSignerId(r) ==
    /\ \/ Goto(r, "signer", IF Op(r) \in ForValidatedEmail THEN "profile" ELSE "call")
          /\ UNCHANGED answer
       \/ Finish(r, "signer", "500")
    /\ UNCHANGED <<profile, author, seen, req, base, valid, got, call, performed, used>>

(* Operators named Bug... are plausible mistakes, not part of the model:   *)
(* each shows that a property can tell the model from the mistake.         *)
BugAnyEmail(p) == TRUE

ProfileWithEmailValidated(p) == p.validated

profileWithEmailValidatedOrError(r) ==
    /\ \/ /\ profile.exists /\ ProfileWithEmailValidated(profile)
          /\ Goto(r, "profile", "call")
          /\ got' = [got EXCEPT ![r] = profile]
          /\ UNCHANGED answer
       \/ Finish(r, "profile", "500") /\ UNCHANGED got
    /\ UNCHANGED <<profile, author, seen, req, base, valid, call, performed, used>>

(* createSignature decodes the body only now.                              *)
SendCall(r) ==
    /\ \/ /\ Goto(r, "call", "await")
          /\ call' = [call EXCEPT ![r] = "sent"]
          /\ used' = used \union (IF Op(r) \in ForValidatedEmail THEN {<<r, got[r].email>>} ELSE {})
          /\ UNCHANGED answer
       \/ Op(r) = "createSignature" /\ Finish(r, "call", "400") /\ UNCHANGED <<call, used>>
    /\ UNCHANGED <<profile, author, seen, req, base, valid, got, performed>>

-----------------------------------------------------------------------------
(* The function apps, external: what they do when a call reaches them, and *)
(* the status they answer.  A 500 says nothing about what was done.        *)

SuccessOf(op) ==
    CASE op \in {"startEmailValidationProcess", "abortUserDataProcessing", "requestExport"} -> "202"
      [] op = "createFilledDocument" -> "201"
      [] OTHER -> "200"

\* Nobody takes the answer that comes too late.
CallAnswered(r, status) ==
    /\ call[r] = "sent"
    /\ call' = [call EXCEPT ![r] = IF pc[r] = "await" THEN status ELSE "none"]

BugLatestVersionSent(r) == profile.version
\* The version the backend names: the one in the body, as the device sent it.
VersionSent(r) == base[r]

updated(r) == [profile EXCEPT !.version = @ + 1, !.email = req[r].email,
                              !.validated = @ /\ profile.email = req[r].email]

PerformUpdate(r) ==
    /\ Op(r) = "updateProfile"
    /\ profile.exists /\ profile.version < MaxVersion /\ VersionSent(r) = profile.version
    /\ \E status \in {"200", "500"}: CallAnswered(r, status)
    /\ SetProfile(updated(r))
    /\ author' = [author EXCEPT ![profile.version + 1] = @ \union {r}]
    /\ got' = [got EXCEPT ![r] = updated(r)]
    /\ performed' = performed \union {r}
    /\ UNCHANGED <<seen, pc, req, base, used, answer>>

PerformWrite(r) ==
    /\ Op(r) \in Writes \ {"updateProfile"}
    /\ \E status \in {SuccessOf(Op(r)), "500"}: CallAnswered(r, status)
    /\ performed' = performed \union {r}
    /\ UNCHANGED <<profile, author, seen, handler, valid, used>>

PerformRead(r) ==
    /\ Op(r) \in Reads
    /\ Op(r) = "getProfile" => profile.exists
    /\ CallAnswered(r, SuccessOf(Op(r)))
    /\ got' = IF Op(r) = "getProfile" THEN [got EXCEPT ![r] = profile] ELSE got
    /\ UNCHANGED <<profile, author, seen, pc, req, base, valid, performed, used, answer>>

Refuse(r) ==
    /\ \E status \in Refusals \union {"500"}:
        /\ Op(r) = "updateProfile" /\ status = "404" => ~profile.exists
        /\ Op(r) = "updateProfile" /\ status = "409" =>
            profile.exists /\ VersionSent(r) # profile.version
        /\ CallAnswered(r, status)
    /\ UNCHANGED <<profile, author, seen, handler, valid, performed, used>>

-----------------------------------------------------------------------------
(* Answers: the statuses each service relays, any other becomes 500 (in    *)
(* the FIMS service 422 becomes 400).                                      *)

getProfile == {"200", "429"}
updateProfile == {"200", "404", "409", "412", "429"}
emailValidationProcess == {"202", "404", "429"}
upsertUserDataProcessing == {"200", "409", "429"}
getUserDataProcessing == {"200", "404", "429"}
abortUserDataProcessing == {"202", "404", "409", "429"}
servicePreferences == {"200", "400", "404", "409", "429"}
createFilledDocument == {"201", "400", "404"}
createSignature == {"200", "400", "403", "404"}
getSignatureRequest == {"200", "403", "404"}
getSignatureRequests == {"200", "403"}
getQtspClausesMetadata == {"200"}
getAccessHistory == {"200"}
requestExport == {"202", "409"}
getMessagesByUser == {"200", "404", "429"}
getMessage == {"200", "404", "429"}
upsertMessageStatus == {"200", "403", "404", "429"}
getServiceById == {"200", "404"}
findInstitutions == {"200"}
searchServices == {"200"}
cdcStatus == {"200", "404"}

Relayed(op) ==
    CASE op = "getProfile" -> getProfile
      [] op = "updateProfile" -> updateProfile
      [] op = "startEmailValidationProcess" -> emailValidationProcess
      [] op = "upsertUserDataProcessing" -> upsertUserDataProcessing
      [] op = "getUserDataProcessing" -> getUserDataProcessing
      [] op = "abortUserDataProcessing" -> abortUserDataProcessing
      [] op \in {"getServicePreferences", "upsertServicePreferences"} -> servicePreferences
      [] op = "createFilledDocument" -> createFilledDocument
      [] op = "createSignature" -> createSignature
      [] op = "getSignatureRequest" -> getSignatureRequest
      [] op = "getSignatureRequests" -> getSignatureRequests
      [] op = "getQtspClausesMetadata" -> getQtspClausesMetadata
      [] op = "getAccessHistory" -> getAccessHistory
      [] op = "requestExport" -> requestExport
      [] op = "getMessagesByUser" -> getMessagesByUser
      [] op = "getMessage" -> getMessage
      [] op = "upsertMessageStatus" -> upsertMessageStatus
      [] op = "getServiceById" -> getServiceById
      [] op = "cdcStatus" -> cdcStatus
      [] op = "findInstitutions" -> findInstitutions
      [] op \in {"getFeaturedServices", "getFeaturedInstitutions", "findInstutionServices"} -> searchServices

BugConflictIsDone(op, status) ==
    IF status = "409" /\ op \in Writes THEN SuccessOf(op)
    ELSE IF status \in Relayed(op) THEN status ELSE "500"

BugOtherRefusalsAreConflicts(op, status) ==
    IF op = "updateProfile" /\ status = "412" THEN "409"
    ELSE IF status \in Relayed(op) THEN status ELSE "500"

BugNoDefault(op, status) == IF status \in Relayed(op) THEN status ELSE "undefined"

responseOf(op, status) ==
    IF status \in Relayed(op) THEN status
    ELSE IF op \in {"getAccessHistory", "requestExport"} /\ status = "422" THEN "400"
    ELSE "500"

(* The device learns the version of the profile it is given, unless it has *)
(* stopped waiting.                                                        *)
Learn(r) ==
    /\ call[r] = "200" /\ Op(r) \in {"getProfile", "updateProfile"}
    /\ seen' = [seen EXCEPT ![req[r].device] = got[r].version]

Receive(r) ==
    /\ call[r] \in Statuses
    /\ Finish(r, "await", responseOf(Op(r), call[r]))
    /\ call' = [call EXCEPT ![r] = "none"]
    /\ Learn(r) \/ UNCHANGED seen
    /\ UNCHANGED <<profile, author, req, base, valid, got, performed, used>>

BugNoTimeout(r) ==
    /\ call[r] \in Statuses /\ Finish(r, "await", "500")
    /\ call' = [call EXCEPT ![r] = "none"]
    /\ UNCHANGED <<profile, author, seen, req, base, valid, got, performed, used>>

(* The client gives up after its timeout, or its answer does not decode.   *)
withCatchAsInternalError(r) ==
    /\ Finish(r, "await", "500")
    /\ call' = [call EXCEPT ![r] = IF @ = "sent" THEN @ ELSE "none"]
    /\ UNCHANGED <<profile, author, seen, req, base, valid, got, performed, used>>

-----------------------------------------------------------------------------
Handle(r) ==
    \/ retrieveSignerId(r)
    \/ profileWithEmailValidatedOrError(r)
    \/ SendCall(r)
    \/ Receive(r)
    \/ withCatchAsInternalError(r)

Perform(r) ==
    \/ PerformUpdate(r)
    \/ PerformWrite(r)
    \/ PerformRead(r)
    \/ Refuse(r)

Next ==
    \/ EmailValidated
    \/ ProfileDeleted
    \/ \E r \in Requests: Arrive(r) \/ Handle(r) \/ Perform(r)

(* A handler goes on: its clients have a timeout.  Nothing is assumed of   *)
(* the function apps.                                                      *)
GoesOn(r) == WF_vars(Handle(r))
Fairness == \A r \in Requests: GoesOn(r)

Safe == Init /\ [][Next]_vars
Spec == Safe /\ Fairness

-----------------------------------------------------------------------------
(* Properties. *)

(* No update is lost: an update replaces the very version its device had   *)
(* seen, whatever other devices do, and two updates never make the same    *)
(* version.  So a device that repeats an update it got no answer to never  *)
(* applies it twice.  The services relay the version and read none.        *)
NoLostUpdate ==
    /\ \A r \in performed: Op(r) = "updateProfile" => \E v \in Versions:
        v = base[r] + 1 /\ author[v] = {r}
    /\ \A v \in Versions: \A r, s \in author[v]: r = s

(* The answer tells what was done, and goes on being true: 2xx means that  *)
(* the function app did it, a refusal that it did not and will not.  Only  *)
(* 500 leaves the citizen in doubt.                                        *)
AnswerTellsEffect ==
    \A r \in Requests: Op(r) \in Writes =>
        /\ answer[r] \in Done => r \in performed
        /\ answer[r] \in Refused => r \notin performed /\ call[r] # "sent"

(* What an update was refused for is true: 409 when its version is not the *)
(* latest any more, 404 when there is no profile.                          *)
RefusalIsTrue ==
    \A r \in Requests: Op(r) = "updateProfile" =>
        /\ answer[r] = "409" => base[r] < profile.version
        /\ answer[r] = "404" => ~profile.exists

(* The email given to IO Sign and to FIMS was the citizen's validated one  *)
(* at some time while the request was handled.  It need not be any more:   *)
(* the profile is read before.                                             *)
EmailWasValidated == \A u \in used: u[2] \in valid[u[1]]

(* What the devices are promised, see ProfilePromise: told what, of which  *)
(* version.                                                                *)
isUpdate(r) == Op(r) = "updateProfile"

outcome(status) ==
    CASE status = "none" -> "nothing"
      [] status \in Done -> "done"
      [] status \in Refused -> "refused"
      [] OTHER -> "doubt"

updatesMade == {r \in performed: isUpdate(r)}
versionNamed == [r \in Requests |-> IF isUpdate(r) /\ pc[r] # "idle" THEN base[r] ELSE -1]
outcomeTold == [r \in Requests |-> IF isUpdate(r) THEN outcome(answer[r]) ELSE "nothing"]

Promise == INSTANCE ProfilePromise WITH
    Requests <- Requests,
    MaxVersion <- MaxVersion,
    version <- profile.version,
    exists <- profile.exists,
    made <- updatesMade,
    named <- versionNamed,
    told <- outcomeTold

(* The handlers and the function app together keep that promise: an update *)
(* replaces just the version its device knew, once, and not after a        *)
(* refusal.                                                                *)
PromiseKept == Promise!Safe

(* Every request is answered, even when its call is lost.                  *)
RequestsAnswered == \A r \in Requests: Handled(r) ~> answer[r] # "none"
=============================================================================
