--------------------------- MODULE SignedRequests ---------------------------
(***************************************************************************)
(* Requests of one citizen that may carry a lollipop signature, from their *)
(* authentication to the consumer of the signature: /first-lollipop/sign   *)
(* and the three endpoints of third-party messages.                        *)
(*                                                                         *)
(* On the legacy path a request is authenticated by its session token and  *)
(* the key of the citizen is read from Redis when it is needed; on the     *)
(* identity path both come from the x-user header, which the gateway       *)
(* filled from the session.  Meanwhile the citizen logs in and out, which  *)
(* the session manager (external) writes to Redis key by key.  Every login *)
(* has a lollipop key of its own, so a key also names its session.         *)
(***************************************************************************)
CONSTANTS
    Keys,      \* lollipop keys (assertion refs), one per login
    Requests,
    Traffic,   \* the requests that may come, see Request
    NoKey

Routes == {"sign", "precondition", "message", "attachment"}

(* What decides the handling of a message: who sent it, has it a           *)
(* configuration, and what it promises.  And of its configuration: is      *)
(* lollipop enabled, is it disabled for this citizen, is it that of PN.    *)
Message == [fromPN: BOOLEAN, configured: BOOLEAN, attachments: BOOLEAN, remote: BOOLEAN]
Configuration == [lollipop: BOOLEAN, disabledFor: BOOLEAN, pn: BOOLEAN]

(* token: the login whose session token it carries; keyid: the key named   *)
(* by its signature; xUser: it has an x-user header that decodes and, with *)
(* the flag of the legacy path, counts (the identity path wants the API    *)
(* key too); assertionRef: that user has one; headers, body: the lollipop  *)
(* headers, and the raw body with its digest, are there; message and       *)
(* configuration: those it asks for.                                       *)
Request == [route: Routes, path: {"legacy", "identity"}, token: Keys,
            keyid: Keys \union {NoKey}, xUser: BOOLEAN, assertionRef: BOOLEAN,
            headers: BOOLEAN, body: BOOLEAN,
            message: Message, configuration: Configuration]

ASSUME TrafficAssumption == Traffic \subseteq Request
ASSUME KeysAssumption == NoKey \notin Keys

Bodies == {"none", "static", "badMarkdown", "badSubject", "valid", "pdf", "other"}
Content == [attachments: BOOLEAN, body: Bodies]
NoContent == [attachments |-> FALSE, body |-> "none"]

VARIABLES
    login,       \* progress of each login: out, key, in, over
    replica,     \* SESSION keys on the replicas
    key,         \* KEYS-<fiscal code> on the primary
    replicaKey,  \* and on the replicas
    pc,          \* next step of each request
    req,         \* the request
    current,     \* auxiliary: the citizen's keys while it is handled
    ref,         \* assertion ref the lollipop parameters are asked for
    lc,          \* key of the parameters it has got
    forwarded,   \* calls to the consumers of signatures: request and key
    answer,      \* HTTP status it was answered
    served       \* content it was served

worldVars == <<login, replica, key, replicaKey>>
vars == <<worldVars, pc, req, current, ref, lc, forwarded, answer, served>>

Steps == {"idle", "auth", "message", "configuration", "headers", "reference",
          "lcParams", "consumer", "signing", "client", "thirdParty", "download", "done"}
Answers == {"none", "200", "400", "401", "403", "404", "415", "429", "500", "502", "503"}

Init ==
    /\ login = [k \in Keys |-> "out"]
    /\ replica = {}
    /\ key = NoKey
    /\ replicaKey = NoKey
    /\ pc = [r \in Requests |-> "idle"]
    /\ req \in [Requests -> Traffic]
    /\ current = [r \in Requests |-> {}]
    /\ ref = [r \in Requests |-> NoKey]
    /\ lc = [r \in Requests |-> NoKey]
    /\ forwarded = {}
    /\ answer = [r \in Requests |-> "none"]
    /\ served = [r \in Requests |-> NoContent]

-----------------------------------------------------------------------------
(* The session manager and the replication, external.                      *)

\* SESSION keys on the primary
sessions == {k \in Keys: login[k] = "in"}

SetKey(k) ==
    /\ key' = k
    /\ current' = [r \in Requests |->
                    IF pc[r] \in {"idle", "done"} THEN current[r] ELSE current[r] \union {k}]

KeepRequests == UNCHANGED <<pc, req, ref, lc, forwarded, answer, served>>

LoginWritesKey(k) ==
    /\ login[k] = "out"
    /\ login' = [login EXCEPT ![k] = "key"]
    /\ SetKey(k)
    /\ UNCHANGED <<replica, replicaKey>> /\ KeepRequests

LoginWritesSession(k) ==
    /\ login[k] = "key"
    /\ login' = [login EXCEPT ![k] = "in"]
    /\ UNCHANGED <<replica, key, replicaKey, current>> /\ KeepRequests

\* By a logout, by the next login or by their expiry.
SessionGone(k) ==
    /\ login[k] = "in"
    /\ login' = [login EXCEPT ![k] = "over"]
    /\ UNCHANGED <<replica, key, replicaKey, current>> /\ KeepRequests

KeyGone ==
    /\ key # NoKey
    /\ SetKey(NoKey)
    /\ UNCHANGED <<login, replica, replicaKey>> /\ KeepRequests

ReplicateSessions ==
    /\ replica' = sessions
    /\ UNCHANGED <<login, key, replicaKey, current>> /\ KeepRequests

ReplicateKey ==
    /\ replicaKey' = key
    /\ UNCHANGED <<login, replica, key, current>> /\ KeepRequests

-----------------------------------------------------------------------------
(* Requests.  A step that awaits an answer takes it when it comes; what    *)
(* was read before is kept, whatever the world has done meanwhile.         *)

Goto(r, from, to) == pc[r] = from /\ pc' = [pc EXCEPT ![r] = to]
Finish(r, from, a) == Goto(r, from, "done") /\ answer' = [answer EXCEPT ![r] = a]
FinishWith(r, from, as) == \E a \in as: Finish(r, from, a)
Path(r) == req[r].path
Route(r) == req[r].route

Arrive(r) ==
    /\ Goto(r, "idle", "auth")
    /\ current' = [current EXCEPT ![r] = {key}]
    /\ UNCHANGED <<worldVars, req, ref, lc, forwarded, answer, served>>

(* The user is known; 400 if he or the parameters do not decode. *)
Authenticated(r) ==
    \/ /\ Goto(r, "auth", IF Route(r) = "sign" THEN "headers" ELSE "message")
       /\ UNCHANGED answer
    \/ Finish(r, "auth", "400")

(* An eligible x-user header stands in for the session, which is read with *)
(* the FAST client. *)
bearerSessionTokenStrategy(r) ==
    /\ Path(r) = "legacy"
    /\ \/ req[r].xUser /\ Authenticated(r)
       \/ /\ ~req[r].xUser
          /\ \/ req[r].token \in sessions \union replica /\ Authenticated(r)
             \/ req[r].token \notin sessions \intersect replica /\ Finish(r, "auth", "401")
             \/ Finish(r, "auth", "500")
    /\ UNCHANGED <<worldVars, req, current, ref, lc, forwarded, served>>

xUserMiddleware(r) ==
    /\ Path(r) = "identity"
    /\ IF req[r].xUser THEN Authenticated(r) ELSE Finish(r, "auth", "401")
    /\ UNCHANGED <<worldVars, req, current, ref, lc, forwarded, served>>

-----------------------------------------------------------------------------
(* Which consumer: the message and the remote content configuration.       *)

getThirdPartyMessageFnApp(r) ==
    /\ \/ FinishWith(r, "message", {"400", "404", "429", "500"})
       \/ Goto(r, "message", "configuration") /\ UNCHANGED answer
    /\ UNCHANGED <<worldVars, req, current, ref, lc, forwarded, served>>

checkIfLollipopIsEnabled(c) == c.lollipop /\ ~c.disabledFor

getRCConfiguration(r) ==
    /\ \/ ~req[r].message.configured /\ Finish(r, "configuration", "500")
       \/ req[r].message.configured /\ FinishWith(r, "configuration", {"404", "429", "500"})
       \/ /\ req[r].message.configured
          /\ Goto(r, "configuration", IF checkIfLollipopIsEnabled(req[r].configuration)
                                      THEN "headers" ELSE "client")
          /\ UNCHANGED answer
    /\ UNCHANGED <<worldVars, req, current, ref, lc, forwarded, served>>

-----------------------------------------------------------------------------
(* The lollipop parameters. *)

(* The middleware answers an error as it is, the messages controllers turn *)
(* all of them into 500. *)
LollipopError(r, a) == IF Route(r) = "sign" THEN a ELSE "500"

(* Operators named Bug... are plausible mistakes, not part of the model:   *)
(* each shows that a property can tell the model from the mistake.         *)
BugNeitherAnswerNorNext(r) ==
    /\ req[r].headers /\ Goto(r, "headers", "reference")
    /\ UNCHANGED <<worldVars, req, current, ref, lc, forwarded, answer, served>>

LollipopRequiredHeaders(r) ==
    /\ \/ req[r].headers /\ Goto(r, "headers", "reference") /\ UNCHANGED answer
       \/ ~req[r].headers /\ Finish(r, "headers", LollipopError(r, "400"))
    /\ UNCHANGED <<worldVars, req, current, ref, lc, forwarded, served>>

AskLCParams(r, k) ==
    /\ Goto(r, "reference", "lcParams")
    /\ ref' = [ref EXCEPT ![r] = k]
    /\ UNCHANGED answer

BugKeyReadFast(r) ==
    /\ Path(r) = "legacy"
    /\ \E k \in {replicaKey, key} \ {NoKey}: AskLCParams(r, k)
    /\ UNCHANGED <<worldVars, req, current, lc, forwarded, served>>

(* The SAFE client reads the primary; a value that does not decode is a    *)
(* failed read. *)
getLollipopAssertionRefForUser(r) ==
    /\ Path(r) = "legacy"
    /\ \/ Finish(r, "reference", LollipopError(r, "500")) /\ UNCHANGED ref
       \/ key = NoKey /\ Finish(r, "reference", LollipopError(r, "403")) /\ UNCHANGED ref
       \/ key # NoKey /\ AskLCParams(r, key)
    /\ UNCHANGED <<worldVars, req, current, lc, forwarded, served>>

getKeyThumbprintFromSignature(r) == req[r].keyid

BugThumbprintNotCompared(r) ==
    /\ Path(r) = "identity"
    /\ req[r].keyid # NoKey /\ req[r].assertionRef
    /\ AskLCParams(r, req[r].token)
    /\ UNCHANGED <<worldVars, req, current, lc, forwarded, served>>

assertionRefOfIdentity(r) ==
    /\ Path(r) = "identity"
    /\ LET thumbprint == getKeyThumbprintFromSignature(r) IN
       \/ /\ thumbprint = NoKey
          /\ Finish(r, "reference", LollipopError(r, "500")) /\ UNCHANGED ref
       \/ /\ thumbprint # NoKey
          /\ ~req[r].assertionRef \/ req[r].token # thumbprint
          /\ Finish(r, "reference", LollipopError(r, "403")) /\ UNCHANGED ref
       \/ /\ thumbprint # NoKey /\ req[r].assertionRef /\ req[r].token = thumbprint
          /\ AskLCParams(r, req[r].token)
    /\ UNCHANGED <<worldVars, req, current, lc, forwarded, served>>

BugFailOpen(r) ==
    /\ Goto(r, "lcParams", IF Route(r) = "sign" THEN "consumer" ELSE "client")
    /\ \E k \in {NoKey, ref[r]}: lc' = [lc EXCEPT ![r] = k]
    /\ UNCHANGED <<worldVars, req, current, ref, forwarded, answer, served>>

(* The lollipop function refuses a key it does not know as valid. *)
generateLCParams(r) ==
    /\ \/ FinishWith(r, "lcParams", {LollipopError(r, "403"), LollipopError(r, "500")})
          /\ UNCHANGED lc
       \/ /\ Goto(r, "lcParams", IF Route(r) = "sign" THEN "consumer" ELSE "client")
          /\ lc' = [lc EXCEPT ![r] = ref[r]]
          /\ UNCHANGED answer
    /\ UNCHANGED <<worldVars, req, current, ref, forwarded, served>>

-----------------------------------------------------------------------------
(* The consumers. *)

Forward(r) == forwarded' = forwarded \union {[req |-> r, key |-> lc[r]]}

firstLollipopSign(r) ==
    /\ \/ ~req[r].body /\ Finish(r, "consumer", "400") /\ UNCHANGED forwarded
       \/ req[r].body /\ Goto(r, "consumer", "signing") /\ Forward(r) /\ UNCHANGED answer
    /\ UNCHANGED <<worldVars, req, current, ref, lc, served>>

signMessageAnswers(r) ==
    /\ FinishWith(r, "signing", {"200", "500"})
    /\ UNCHANGED <<worldVars, req, current, ref, lc, forwarded, served>>

getThirdPartyServiceClient(r) ==
    /\ Goto(r, "client", "thirdParty")
    /\ Forward(r)
    /\ UNCHANGED <<worldVars, req, current, ref, lc, answer, served>>

Statuses == {"200", "400", "401", "403", "404", "429", "500", "503", "other"}

(* The adapter of PN reports everything but a success as 500; "other"      *)
(* stands for any status out of the specification, a body that does not    *)
(* decode and a call that fails.                                           *)
redirectMessages(s) == IF s = "200" THEN s ELSE "500"
redirectPrecondition(s) == IF s = "200" THEN s ELSE "500"

pnFetch(r, s) ==
    IF ~req[r].configuration.pn THEN s
    ELSE IF Route(r) = "message" THEN redirectMessages(s) ELSE redirectPrecondition(s)

BugAnyStatus(r, s) == s

BugRelay401(r, s) == IF s \in {"400", "401", "403", "404", "429"} THEN s ELSE "500"

statusToResponse(r, s) ==
    CASE s \in {"400", "403", "404", "429"} -> s
      [] s = "503" /\ Route(r) = "attachment" -> "503"
      [] OTHER -> "500"

Replies(r) ==
    CASE Route(r) = "message" ->
            [attachments: BOOLEAN, body: {"none", "badMarkdown", "badSubject", "valid"}]
      [] Route(r) = "attachment" -> [attachments: {FALSE}, body: {"pdf", "other"}]
      [] OTHER -> {NoContent}

isValidResponse(m, c) ==
    \/ m.fromPN
    \/ (m.attachments => c.attachments) /\ (m.remote => c.body = "valid")

BugAttachmentsKept(m, c) ==
    IF m.fromPN THEN c
    ELSE [attachments |-> c.attachments, body |-> IF m.remote THEN c.body ELSE "static"]

validateThirdPartyMessageResponse(m, c) ==
    IF m.fromPN THEN c
    ELSE [attachments |-> m.attachments /\ c.attachments,
          body |-> IF m.remote THEN c.body ELSE "static"]

\* The calls that a third party, or PN, answers if it likes.
Outside == {"thirdParty", "download"}

Serve(r, c) ==
    /\ pc[r] \in Outside /\ Finish(r, pc[r], "200")
    /\ served' = [served EXCEPT ![r] = c]

Refuse(r, a) == pc[r] \in Outside /\ Finish(r, pc[r], a) /\ UNCHANGED served

getThirdPartyMessagePrecondition(r, c) == Route(r) = "precondition" /\ Serve(r, c)

getThirdPartyMessage(r, c) ==
    /\ Route(r) = "message"
    /\ IF isValidResponse(req[r].message, c)
       THEN Serve(r, validateThirdPartyMessageResponse(req[r].message, c))
       ELSE Refuse(r, "502")

getThirdPartyAttachment(r, c) ==
    /\ Route(r) = "attachment"
    /\ IF c.body = "pdf" THEN Serve(r, c) ELSE Refuse(r, "415")

TwoCalls(r) == Route(r) = "attachment" /\ req[r].configuration.pn

ThirdPartyAnswers(r) ==
    /\ pc[r] = "thirdParty" /\ ~TwoCalls(r)
    /\ \E s \in Statuses:
         \/ pnFetch(r, s) # "200" /\ Refuse(r, statusToResponse(r, pnFetch(r, s)))
         \/ /\ pnFetch(r, s) = "200"
            /\ \E c \in Replies(r):
                 \/ getThirdPartyMessagePrecondition(r, c)
                 \/ getThirdPartyMessage(r, c)
                 \/ getThirdPartyAttachment(r, c)
    /\ UNCHANGED <<worldVars, req, current, ref, lc, forwarded>>

(* An attachment of PN takes two calls: the first tells where it is, or    *)
(* when to retry, or nothing of use; the second, without the parameters,   *)
(* downloads it.  The url of the attachment may be that of neither a       *)
(* document nor a payment, and then there is no call at all.               *)
redirectAttachment(r) ==
    /\ pc[r] = "thirdParty" /\ TwoCalls(r)
    /\ \/ Goto(r, "thirdParty", "download") /\ UNCHANGED <<answer, served>>
       \/ \E s \in {"503", "500"}: Refuse(r, statusToResponse(r, s))
    /\ UNCHANGED <<worldVars, req, current, ref, lc, forwarded>>

downloadAnswers(r) ==
    /\ pc[r] = "download"
    /\ \/ \E c \in Replies(r): getThirdPartyAttachment(r, c)
       \/ Refuse(r, statusToResponse(r, "500"))
    /\ UNCHANGED <<worldVars, req, current, ref, lc, forwarded>>

-----------------------------------------------------------------------------

SessionManager ==
    \/ \E k \in Keys: LoginWritesKey(k) \/ LoginWritesSession(k) \/ SessionGone(k)
    \/ KeyGone

Replication == ReplicateSessions \/ ReplicateKey

Handle(r) ==
    \/ bearerSessionTokenStrategy(r) \/ xUserMiddleware(r)
    \/ getThirdPartyMessageFnApp(r) \/ getRCConfiguration(r)
    \/ LollipopRequiredHeaders(r)
    \/ getLollipopAssertionRefForUser(r) \/ assertionRefOfIdentity(r)
    \/ generateLCParams(r)
    \/ firstLollipopSign(r) \/ getThirdPartyServiceClient(r)

\* Answers that nobody is obliged to give.
Others(r) ==
    \/ signMessageAnswers(r)
    \/ ThirdPartyAnswers(r) \/ redirectAttachment(r) \/ downloadAnswers(r)

Next ==
    \/ SessionManager
    \/ Replication
    \/ \E r \in Requests: Arrive(r) \/ Handle(r) \/ Others(r)

(* The calls to Redis and to the services of the platform settle: their    *)
(* clients time out (config.ts:78-88).  Those of the first consumer, of a  *)
(* third party and of PN do not, so nothing obliges them to answer.        *)
GoesOn(r) == WF_vars(Handle(r))
Fairness == \A r \in Requests: GoesOn(r)

Safe == Init /\ [][Next]_vars
Spec == Safe /\ Fairness

-----------------------------------------------------------------------------

TypeOK ==
    /\ login \in [Keys -> {"out", "key", "in", "over"}]
    /\ replica \in SUBSET Keys
    /\ key \in Keys \union {NoKey}
    /\ replicaKey \in Keys \union {NoKey}
    /\ pc \in [Requests -> Steps]
    /\ req \in [Requests -> Traffic]
    /\ current \in [Requests -> SUBSET (Keys \union {NoKey})]
    /\ ref \in [Requests -> Keys \union {NoKey}]
    /\ lc \in [Requests -> Keys \union {NoKey}]
    /\ forwarded \in SUBSET [req: Requests, key: Keys \union {NoKey}]
    /\ answer \in [Requests -> Answers]
    /\ served \in [Requests -> Content]

(* What the legacy path vouches for was true: a consumer is given a key    *)
(* only if it was the citizen's key at some moment since the request came, *)
(* however replicas lag.  So nothing is signed for a request that comes    *)
(* after the logout, even when a replica still authenticates it.           *)
LegacyKeyWasCurrent ==
    \A f \in forwarded:
        (Path(f.req) = "legacy" /\ f.key # NoKey) => f.key \in current[f.req]

(* The identity path gives a consumer only the key the request names in    *)
(* its signature, whoever has logged in since the gateway saw the session. *)
IdentityKeySigned ==
    \A f \in forwarded:
        (Path(f.req) = "identity" /\ f.key # NoKey) => f.key = req[f.req].keyid

(* No consumer that needs the lollipop parameters is called without them,  *)
(* and no third party that must not have them gets them: of the many       *)
(* failures on the way none lets the request go on.                        *)
SignedIffRequired ==
    \A f \in forwarded:
        f.key # NoKey <=>
            Route(f.req) = "sign" \/ checkIfLollipopIsEnabled(req[f.req].configuration)

(* 401 makes the app drop its session.  It is answered for the session of  *)
(* the citizen and never because a service behind refused the backend.     *)
UnauthorizedIsOurs ==
    \A r \in Requests:
        answer[r] = "401" =>
            ~req[r].xUser /\ \A f \in forwarded: f.req # r

(* What a third party serves is what the message promised when it was      *)
(* sent: neither more nor less (PN has rules of its own).                  *)
ServedAsPromised ==
    \A r \in Requests:
        (Route(r) = "message" /\ answer[r] = "200" /\ ~req[r].message.fromPN) =>
            /\ served[r].attachments = req[r].message.attachments
            /\ served[r].body = IF req[r].message.remote THEN "valid" ELSE "static"

(* Every request is answered, or waits for a consumer of its signature.    *)
RequestsAnswered ==
    \A r \in Requests: pc[r] = "auth" ~> pc[r] \in {"done", "thirdParty", "signing"}

(* The OpenAPI document has an answer 504 for a third party that is too    *)
(* late.  The client of the third party has no timeout.                    *)
SilentThirdPartyAnswered == \A r \in Requests: pc[r] = "thirdParty" ~> pc[r] = "done"
=============================================================================
