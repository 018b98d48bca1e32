------------------------ MODULE ProfileRequests_proofs ------------------------
(***************************************************************************)
(* Proofs of the safety properties of ProfileRequests.  Each property has  *)
(* an invariant of its own that adds what it needs to be inductive: where  *)
(* a request is when its call is made, and what an answer not yet taken    *)
(* says.                                                                   *)
(***************************************************************************)
EXTENDS ProfileRequests, TLAPS

USE TrafficAssumption, VersionAssumption, RefusalsAssumption

-----------------------------------------------------------------------------
LEMMA ResponseIsStatus ==
    ASSUME NEW op, NEW status \in Statuses
    PROVE  responseOf(op, status) \in Statuses
BY DEF responseOf, Statuses, Done, Refused

LEMMA SuccessIsDone ==
    ASSUME NEW op
    PROVE  SuccessOf(op) \in Done /\ SuccessOf(op) \in Statuses
BY DEF SuccessOf, Statuses, Done

LEMMA NextVersion ==
    ASSUME NEW v \in Versions, v < MaxVersion
    PROVE  v + 1 \in Versions
BY DEF Versions

LEMMA ProfileExcept ==
    ASSUME NEW p \in Profile, NEW v \in Versions, NEW e \in Emails, NEW b \in BOOLEAN
    PROVE  /\ [p EXCEPT !.version = v, !.email = e, !.validated = b] \in Profile
           /\ [p EXCEPT !.validated = b, !.version = v] \in Profile
           /\ [p EXCEPT !.exists = b] \in Profile
BY Zenon DEF Profile

LEMMA UpdatedProfile ==
    ASSUME TypeOK, NEW r \in Requests, profile.version < MaxVersion
    PROVE  /\ updated(r) \in Profile
           /\ updated(r).version = profile.version + 1
           /\ updated(r).exists = profile.exists
<1>1. profile.version + 1 \in Versions /\ profile.validated \in BOOLEAN
  BY NextVersion DEF TypeOK, Profile
<1>2. req[r].email \in Emails
  BY DEF TypeOK, Request
<1>3. (profile.validated /\ profile.email = req[r].email) \in BOOLEAN
  OBVIOUS
<1>4. updated(r) \in Profile
  BY <1>1, <1>2, <1>3, ProfileExcept, Zenon DEF TypeOK, updated
<1>5. updated(r).version = profile.version + 1 /\ updated(r).exists = profile.exists
  BY DEF TypeOK, updated, Profile
<1> QED BY <1>4, <1>5

LEMMA InitType == Init => TypeOK
<1> SUFFICES ASSUME Init PROVE TypeOK OBVIOUS
<1>1. profile \in Profile
  <2>1. 0 \in Versions
    BY DEF Versions
  <2>2. \A p \in [exists: {TRUE}, version: {0}, email: Emails, validated: BOOLEAN]: p \in Profile
    BY <2>1 DEF Profile
  <2> QED BY <2>2 DEF Init
<1>2. req \in [Requests -> Request]
  BY DEF Init
<1>3. author \in [Versions -> SUBSET Requests] /\ seen \in [Devices -> Versions]
  BY DEF Init, Versions
<1>4. base \in [Requests -> Versions] /\ got \in [Requests -> Profile]
  BY <1>1 DEF Init, Versions
<1> QED BY <1>1, <1>2, <1>3, <1>4 DEF Init, TypeOK

LEMMA NextType == TypeOK /\ [Next]_vars => TypeOK'
<1> SUFFICES ASSUME TypeOK, [Next]_vars PROVE TypeOK' OBVIOUS
<1> USE DEF TypeOK
<1>1. CASE UNCHANGED vars
  BY <1>1 DEF vars
<1>2. CASE EmailValidated
  <2>1. profile' \in Profile
    <3>1. profile.version + 1 \in Versions
      BY <1>2, NextVersion DEF EmailValidated, Profile
    <3> QED BY <1>2, <3>1, ProfileExcept DEF EmailValidated, SetProfile, Profile
  <2>2. valid' \in [Requests -> SUBSET Emails]
    BY <1>2, <2>1 DEF EmailValidated, SetProfile, ValidEmails, Profile
  <2> QED BY <1>2, <2>1, <2>2 DEF EmailValidated, handler
<1>3. CASE ProfileDeleted
  <2>1. profile' \in Profile
    BY <1>3 DEF ProfileDeleted, SetProfile, Profile
  <2>2. valid' \in [Requests -> SUBSET Emails]
    BY <1>3, <2>1 DEF ProfileDeleted, SetProfile, ValidEmails, Profile
  <2> QED BY <1>3, <2>1, <2>2 DEF ProfileDeleted, handler
<1>4. ASSUME NEW r \in Requests, Arrive(r) PROVE TypeOK'
  <2>1. ValidEmails(profile) \subseteq Emails /\ FirstStep(Op(r)) \in {"signer", "profile", "call"}
    BY DEF ValidEmails, Profile, FirstStep
  <2>2. seen[req[r].device] \in Versions
    BY DEF Request
  <2> QED BY <1>4, <2>1, <2>2 DEF Arrive, Goto, Finish, Statuses, Refused
<1>5. ASSUME NEW r \in Requests, retrieveSignerId(r) PROVE TypeOK'
  BY <1>5 DEF retrieveSignerId, Goto, Finish, Statuses
<1>6. ASSUME NEW r \in Requests, profileWithEmailValidatedOrError(r) PROVE TypeOK'
  BY <1>6 DEF profileWithEmailValidatedOrError, Goto, Finish, Statuses
<1>7. ASSUME NEW r \in Requests, SendCall(r) PROVE TypeOK'
  <2>1. got[r].email \in Emails
    BY DEF Profile
  <2> QED BY <1>7, <2>1 DEF SendCall, Goto, Finish, Statuses, Refused
<1>8. ASSUME NEW r \in Requests, Receive(r) PROVE TypeOK'
  <2>1. responseOf(Op(r), call[r]) \in Statuses
    BY <1>8, ResponseIsStatus DEF Receive
  <2>2. seen' \in [Devices -> Versions]
    BY <1>8 DEF Receive, Learn, Profile
  <2> QED BY <1>8, <2>1, <2>2 DEF Receive, Goto, Finish
<1>9. ASSUME NEW r \in Requests, withCatchAsInternalError(r) PROVE TypeOK'
  BY <1>9 DEF withCatchAsInternalError, Goto, Finish, Statuses
<1>10. ASSUME NEW r \in Requests, PerformUpdate(r) PROVE TypeOK'
  <2>1. updated(r) \in Profile
    BY <1>10, UpdatedProfile DEF PerformUpdate
  <2>2. valid' \in [Requests -> SUBSET Emails]
    BY <1>10, <2>1 DEF PerformUpdate, SetProfile, ValidEmails, Profile
  <2>3. author' \in [Versions -> SUBSET Requests]
    BY <1>10 DEF PerformUpdate
  <2> QED BY <1>10, <2>1, <2>2, <2>3 DEF PerformUpdate, SetProfile, CallAnswered, Statuses, Done
<1>11. ASSUME NEW r \in Requests, PerformWrite(r) PROVE TypeOK'
  BY <1>11, SuccessIsDone DEF PerformWrite, CallAnswered, handler, Statuses
<1>12. ASSUME NEW r \in Requests, PerformRead(r) PROVE TypeOK'
  BY <1>12, SuccessIsDone DEF PerformRead, CallAnswered
<1>13. ASSUME NEW r \in Requests, Refuse(r) PROVE TypeOK'
  BY <1>13 DEF Refuse, CallAnswered, handler, Statuses
<1> QED BY <1>1, <1>2, <1>3, <1>4, <1>5, <1>6, <1>7, <1>8, <1>9, <1>10, <1>11, <1>12, <1>13
        DEF Next, Handle, Perform

(* The type invariant, for any requests, devices, addresses and bounds: no *)
(* status out of the specification is answered.                            *)
THEOREM TypeCorrect == Safe => []TypeOK
BY InitType, NextType, PTL DEF Safe

-----------------------------------------------------------------------------
(* When the call of a request is made, and what its answer says.           *)
Calls ==
    \A r \in Requests:
        /\ pc[r] \notin {"await", "done"} => call[r] = "none" /\ r \notin performed
        /\ pc[r] # "done" => answer[r] = "none"
        /\ call[r] = "sent" => r \notin performed
        /\ Op(r) \in Writes =>
            /\ call[r] \in Done => r \in performed
            /\ call[r] \in Refused => r \notin performed
        /\ pc[r] = "done" => call[r] \in {"none", "sent"}

LEMMA ResponseTells ==
    ASSUME NEW op, NEW status \in Statuses
    PROVE  /\ responseOf(op, status) \in Done => status \in Done
           /\ responseOf(op, status) \in Refused => status \in Refused
BY DEF responseOf, Statuses, Done, Refused

LEMMA CallsInvariant == Safe => [](Calls /\ AnswerTellsEffect)
<1> DEFINE I == Calls /\ AnswerTellsEffect
<1> USE DEF Calls, AnswerTellsEffect
<1>1. Init => I
  BY DEF Init, Done, Refused
<1>2. TypeOK /\ I /\ [Next]_vars => I'
  <2> SUFFICES ASSUME TypeOK, I, [Next]_vars PROVE I' OBVIOUS
  <2> USE DEF TypeOK, Op
  <2>1. CASE UNCHANGED vars
    BY <2>1 DEF vars
  <2>2. CASE EmailValidated
    BY <2>2 DEF EmailValidated, handler
  <2>3. CASE ProfileDeleted
    BY <2>3 DEF ProfileDeleted, handler
  <2>4. ASSUME NEW r \in Requests, Arrive(r) PROVE I'
    BY <2>4 DEF Arrive, Goto, Finish, Statuses, Done, Refused, FirstStep
  <2>5. ASSUME NEW r \in Requests, retrieveSignerId(r) PROVE I'
    BY <2>5 DEF retrieveSignerId, Goto, Finish, Done, Refused
  <2>6. ASSUME NEW r \in Requests, profileWithEmailValidatedOrError(r) PROVE I'
    BY <2>6 DEF profileWithEmailValidatedOrError, Goto, Finish, Done, Refused
  <2>7. ASSUME NEW r \in Requests, SendCall(r) PROVE I'
    BY <2>7 DEF SendCall, Goto, Finish, Done, Refused
  <2>8. ASSUME NEW r \in Requests, Receive(r) PROVE I'
    <3>1. call[r] \in Statuses /\ call[r] # "sent"
      BY <2>8 DEF Receive, Statuses, Done, Refused
    <3>2. /\ responseOf(Op(r), call[r]) \in Done => call[r] \in Done
          /\ responseOf(Op(r), call[r]) \in Refused => call[r] \in Refused
      BY <3>1, ResponseTells
    <3> QED BY <2>8, <3>1, <3>2 DEF Receive, Goto, Finish, Done, Refused
  <2>9. ASSUME NEW r \in Requests, withCatchAsInternalError(r) PROVE I'
    BY <2>9 DEF withCatchAsInternalError, Goto, Finish, Done, Refused, Statuses
  <2>10. ASSUME NEW r \in Requests, PerformUpdate(r) PROVE I'
    BY <2>10 DEF PerformUpdate, CallAnswered, Done, Refused
  <2>11. ASSUME NEW r \in Requests, PerformWrite(r) PROVE I'
    BY <2>11, SuccessIsDone DEF PerformWrite, CallAnswered, handler, Done, Refused
  <2>12. ASSUME NEW r \in Requests, PerformRead(r) PROVE I'
    <3>1. Op(r) \notin Writes
      BY <2>12 DEF PerformRead, Reads, Writes
    <3> QED BY <2>12, <3>1, SuccessIsDone DEF PerformRead, CallAnswered, Done, Refused
  <2>13. ASSUME NEW r \in Requests, Refuse(r) PROVE I'
    BY <2>13 DEF Refuse, CallAnswered, handler, Done, Refused
  <2> QED BY <2>1, <2>2, <2>3, <2>4, <2>5, <2>6, <2>7, <2>8, <2>9, <2>10, <2>11, <2>12, <2>13
          DEF Next, Handle, Perform
<1> QED BY <1>1, <1>2, TypeCorrect, PTL DEF Safe
(* A citizen who is told that something was done, or refused, was told the *)
(* truth, however late his calls are carried out.                          *)
THEOREM AnswersTell == Safe => []AnswerTellsEffect
BY CallsInvariant, PTL

-----------------------------------------------------------------------------
(* Versions are made one after the other, by requests that are performed.  *)
Authors ==
    \A v \in Versions:
        /\ v > profile.version => author[v] = {}
        /\ author[v] \subseteq performed

(* However many devices update the profile, and repeat what got no answer, *)
(* an update replaces the version its device knew and no other.            *)
THEOREM UpdatesAreKept == Safe => []NoLostUpdate
<1> DEFINE I == Authors /\ NoLostUpdate
<1> USE DEF Authors, NoLostUpdate
<1>1. Init => I
  BY DEF Init
<1>2. TypeOK /\ Calls /\ I /\ [Next]_vars => I'
  <2> SUFFICES ASSUME TypeOK, Calls, I, [Next]_vars PROVE I' OBVIOUS
  <2>0. profile.version \in Int /\ Versions \subseteq Int
    BY DEF TypeOK, Profile, Versions
  <2> USE DEF Op
  <2>1. CASE UNCHANGED vars
    BY <2>1 DEF vars
  <2>2. CASE EmailValidated
    <3>1. profile'.version = profile.version + 1
      BY <2>2 DEF EmailValidated, SetProfile, TypeOK, Profile
    <3> QED BY <2>0, <2>2, <3>1 DEF EmailValidated, handler
  <2>3. CASE ProfileDeleted
    <3>1. profile'.version = profile.version
      BY <2>3 DEF ProfileDeleted, SetProfile, TypeOK, Profile
    <3> QED BY <2>3, <3>1 DEF ProfileDeleted, handler
  <2>4. ASSUME NEW r \in Requests, Arrive(r) PROVE I'
    <3>1. r \notin performed
      BY <2>4 DEF Arrive, Goto, Finish, Calls
    <3>2. \A s \in performed: base'[s] = base[s]
      BY <2>4, <3>1 DEF Arrive, TypeOK
    <3> QED BY <2>4, <3>2 DEF Arrive
  <2>5. ASSUME NEW r \in Requests,
               \/ retrieveSignerId(r)
               \/ profileWithEmailValidatedOrError(r)
               \/ SendCall(r)
               \/ Receive(r)
               \/ withCatchAsInternalError(r)
               \/ PerformRead(r)
               \/ Refuse(r)
        PROVE I'
    <3>1. UNCHANGED <<profile, author, performed, req, base>>
      BY <2>5 DEF retrieveSignerId, profileWithEmailValidatedOrError, SendCall, Receive,
                  withCatchAsInternalError, PerformRead, Refuse, handler
    <3> QED BY <3>1
  <2>6. ASSUME NEW r \in Requests, PerformWrite(r) PROVE I'
    BY <2>6 DEF PerformWrite, handler
  <2>7. ASSUME NEW r \in Requests, PerformUpdate(r) PROVE I'
    <3> DEFINE new == profile.version + 1
    <3>0. profile.version \in Versions /\ profile.version < MaxVersion /\ profile' = updated(r)
      BY <2>7 DEF PerformUpdate, SetProfile, TypeOK, Profile
    <3>1. profile'.version = new /\ new \in Versions
      BY <3>0, UpdatedProfile, NextVersion
    <3>2. author[new] = {} /\ author' = [author EXCEPT ![new] = {r}]
      <4>1. new > profile.version
        BY <2>0
      <4>2. author[new] = {}
        BY <3>1, <4>1
      <4>3. author' = [author EXCEPT ![new] = author[new] \union {r}]
        BY <2>7 DEF PerformUpdate
      <4> QED BY <4>2, <4>3
    <3>3. r \notin performed /\ performed' = performed \union {r}
      BY <2>7 DEF PerformUpdate, CallAnswered, Calls
    <3>4. base[r] + 1 = new /\ UNCHANGED <<req, base>>
      BY <2>7 DEF PerformUpdate, VersionSent
    <3>5. Authors'
      <4> SUFFICES ASSUME NEW v \in Versions
                   PROVE  /\ v > profile'.version => author'[v] = {}
                          /\ author'[v] \subseteq performed'
        OBVIOUS
      <4>1. CASE v = new
        BY <2>0, <3>1, <3>2, <3>3, <4>1 DEF TypeOK
      <4>2. CASE v # new
        <5>1. author'[v] = author[v]
          BY <3>2, <4>2 DEF TypeOK
        <5> QED BY <2>0, <3>1, <3>3, <5>1
      <4> QED BY <4>1, <4>2
    <3>6. ASSUME NEW s \in performed', Op(s)' = "updateProfile"
          PROVE  \E v \in Versions: v = base'[s] + 1 /\ author'[v] = {s}
      <4>1. CASE s = r
        BY <3>1, <3>2, <3>4, <4>1 DEF TypeOK
      <4>2. CASE s # r
        <5>1. PICK v \in Versions: v = base[s] + 1 /\ author[v] = {s}
          BY <3>3, <3>4, <3>6, <4>2
        <5>2. v # new
          BY <3>2, <5>1
        <5> QED BY <3>2, <3>4, <5>1, <5>2 DEF TypeOK
      <4> QED BY <4>1, <4>2
    <3>7. \A v \in Versions: \A s, t \in author'[v]: s = t
      BY <3>1, <3>2 DEF TypeOK
    <3> QED BY <3>5, <3>6, <3>7
  <2> QED BY <2>1, <2>2, <2>3, <2>4, <2>5, <2>6, <2>7 DEF Next, Handle, Perform
<1> QED BY <1>1, <1>2, TypeCorrect, CallsInvariant, PTL DEF Safe

-----------------------------------------------------------------------------
(* No version is known before it is made, and a refusal not yet taken is   *)
(* true.                                                                   *)
Knowledge ==
    /\ \A d \in Devices: seen[d] <= profile.version
    /\ \A r \in Requests:
        /\ got[r].version <= profile.version
        /\ base[r] <= profile.version
        /\ Op(r) = "updateProfile" =>
            /\ call[r] = "409" => base[r] < profile.version
            /\ call[r] = "404" => ~profile.exists

LEMMA RefusalRelayed ==
    ASSUME NEW status \in Statuses
    PROVE  /\ responseOf("updateProfile", status) = "409" => status = "409"
           /\ responseOf("updateProfile", status) = "404" => status = "404"
BY DEF responseOf, Relayed, Statuses, Done, Refused

(* The profile only goes on: its versions grow, and it does not return.    *)
LEMMA ProfileGoesOn ==
    ASSUME TypeOK, [Next]_vars
    PROVE  profile'.version >= profile.version /\ (profile'.exists => profile.exists)
<1>0. profile.version \in Int
  BY DEF TypeOK, Profile, Versions
<1>1. CASE EmailValidated
  BY <1>0, <1>1 DEF EmailValidated, SetProfile, TypeOK, Profile
<1>2. CASE ProfileDeleted
  BY <1>0, <1>2 DEF ProfileDeleted, SetProfile, TypeOK, Profile
<1>3. ASSUME NEW r \in Requests, PerformUpdate(r)
      PROVE  profile'.version >= profile.version /\ (profile'.exists => profile.exists)
  <2>1. profile.version < MaxVersion /\ profile.exists /\ profile' = updated(r)
    BY <1>3 DEF PerformUpdate, SetProfile
  <2>2. updated(r).version = profile.version + 1
    BY <2>1, UpdatedProfile
  <2> QED BY <1>0, <2>1, <2>2
<1>4. CASE UNCHANGED profile
  BY <1>0, <1>4
<1>5. \/ EmailValidated \/ ProfileDeleted \/ UNCHANGED profile
      \/ \E r \in Requests: PerformUpdate(r)
  BY DEF Next, vars, Handle, Perform, Arrive, retrieveSignerId, profileWithEmailValidatedOrError,
         SendCall, Receive, withCatchAsInternalError, PerformWrite, PerformRead, Refuse
<1> QED BY <1>1, <1>2, <1>3, <1>4, <1>5

LEMMA KnowledgeInvariant == Safe => [](Knowledge /\ RefusalIsTrue)
<1> DEFINE I == Knowledge /\ RefusalIsTrue
<1> USE DEF Knowledge, RefusalIsTrue
<1>1. Init => I
  <2> SUFFICES ASSUME Init PROVE I OBVIOUS
  <2>1. profile.version = 0
    BY DEF Init
  <2> QED BY <2>1 DEF Init
<1>2. TypeOK /\ Calls /\ I /\ [Next]_vars => I'
  <2> SUFFICES ASSUME TypeOK, Calls, I, [Next]_vars PROVE I' OBVIOUS
  <2>0. /\ profile.version \in Int /\ \A d \in Devices: seen[d] \in Int
        /\ \A r \in Requests: base[r] \in Int /\ got[r].version \in Int
    BY DEF TypeOK, Profile, Versions
  <2>1. profile'.version >= profile.version /\ (profile'.exists => profile.exists)
    BY ProfileGoesOn
  <2>2. profile'.version \in Int
    BY NextType DEF TypeOK, Profile, Versions
  <2> USE <2>0, <2>1, <2>2 DEF Op
  <2>3. CASE UNCHANGED <<seen, req, base, got, call, answer>>
    BY <2>3
  <2>4. CASE EmailValidated \/ ProfileDeleted
    BY <2>3, <2>4 DEF EmailValidated, ProfileDeleted, handler
  <2>5. ASSUME NEW r \in Requests, Arrive(r) PROVE I'
    <3>1. call[r] = "none" /\ answer'[r] \in {"none", "400", "500"}
      BY <2>5 DEF Arrive, Goto, Finish, Calls, TypeOK
    <3>2. seen[req[r].device] <= profile.version
      BY DEF TypeOK, Request
    <3>3. UNCHANGED <<seen, req, got, call, profile>>
      BY <2>5 DEF Arrive
    <3>4. \A s \in Requests: s # r => base'[s] = base[s] /\ answer'[s] = answer[s]
      BY <2>5 DEF Arrive, Finish, TypeOK
    <3>5. base'[r] = seen[req[r].device]
      BY <2>5 DEF Arrive, TypeOK
    <3> QED BY <3>1, <3>2, <3>3, <3>4, <3>5
  <2>6. ASSUME NEW r \in Requests, retrieveSignerId(r) PROVE I'
    BY <2>6 DEF retrieveSignerId, Goto, Finish, TypeOK
  <2>7. ASSUME NEW r \in Requests, profileWithEmailValidatedOrError(r) PROVE I'
    BY <2>7 DEF profileWithEmailValidatedOrError, Goto, Finish, TypeOK
  <2>8. ASSUME NEW r \in Requests, SendCall(r) PROVE I'
    BY <2>8 DEF SendCall, Goto, Finish, TypeOK
  <2>9. ASSUME NEW r \in Requests, Receive(r) PROVE I'
    <3>1. call[r] \in Statuses /\ UNCHANGED <<profile, req, base, got>>
      BY <2>9 DEF Receive
    <3>2. \A d \in Devices: seen'[d] <= profile.version
      BY <2>9 DEF Receive, Learn, TypeOK
    <3>3. /\ answer' = [answer EXCEPT ![r] = responseOf(Op(r), call[r])]
          /\ call' = [call EXCEPT ![r] = "none"]
      BY <2>9 DEF Receive, Finish
    <3>4. Op(r) = "updateProfile" =>
            /\ responseOf(Op(r), call[r]) = "409" => call[r] = "409"
            /\ responseOf(Op(r), call[r]) = "404" => call[r] = "404"
      BY <3>1, RefusalRelayed
    <3> QED BY <3>1, <3>2, <3>3, <3>4 DEF TypeOK
  <2>10. ASSUME NEW r \in Requests, withCatchAsInternalError(r) PROVE I'
    BY <2>10 DEF withCatchAsInternalError, Goto, Finish, TypeOK
  <2>11. ASSUME NEW r \in Requests, PerformUpdate(r) PROVE I'
    <3>0. profile.version < MaxVersion /\ profile' = updated(r)
      BY <2>11 DEF PerformUpdate, SetProfile
    <3>1. updated(r).version = profile.version + 1 /\ profile' = updated(r)
      BY <3>0, UpdatedProfile
    <3>2. got' = [got EXCEPT ![r] = updated(r)] /\ UNCHANGED <<seen, req, base, answer>>
      BY <2>11 DEF PerformUpdate
    <3>3. \A s \in Requests: call'[s] # call[s] => call'[s] \in {"200", "500", "none"}
      BY <2>11 DEF PerformUpdate, CallAnswered, TypeOK
    <3>4. \A s \in Requests: got'[s].version <= profile'.version
      BY <3>1, <3>2 DEF TypeOK
    <3>5. \A s \in Requests: Op(s) = "updateProfile" =>
            /\ call'[s] = "409" => call[s] = "409"
            /\ call'[s] = "404" => call[s] = "404"
      BY <3>3
    <3> HIDE DEF RefusalIsTrue
    <3>6. Knowledge'
      BY <3>1, <3>2, <3>4, <3>5
    <3>7. RefusalIsTrue'
      BY <3>2 DEF RefusalIsTrue
    <3> QED BY <3>6, <3>7
  <2>12. ASSUME NEW r \in Requests, PerformWrite(r) PROVE I'
    <3>1. Op(r) # "updateProfile"
      BY <2>12 DEF PerformWrite
    <3> QED BY <2>12, <3>1 DEF PerformWrite, CallAnswered, handler, TypeOK
  <2>13. ASSUME NEW r \in Requests, PerformRead(r) PROVE I'
    <3>1. Op(r) # "updateProfile"
      BY <2>13 DEF PerformRead, Reads
    <3> QED BY <2>13, <3>1 DEF PerformRead, CallAnswered, TypeOK
  <2>14. ASSUME NEW r \in Requests, Refuse(r) PROVE I'
    <3>1. PICK status \in Refusals \union {"500"}:
            /\ Op(r) = "updateProfile" /\ status = "404" => ~profile.exists
            /\ Op(r) = "updateProfile" /\ status = "409" => base[r] # profile.version
            /\ CallAnswered(r, status)
      BY <2>14 DEF Refuse, VersionSent
    <3>2. UNCHANGED <<profile, seen, req, base, got, answer>>
      BY <2>14 DEF Refuse, handler
    <3>3. \A s \in Requests: s # r => call'[s] = call[s]
      BY <3>1 DEF CallAnswered, TypeOK
    <3>4. call'[r] \in {status, "none"}
      BY <3>1 DEF CallAnswered, TypeOK
    <3>5. Op(r) = "updateProfile" =>
            /\ call'[r] = "409" => base[r] < profile.version
            /\ call'[r] = "404" => ~profile.exists
      <4>1. base[r] <= profile.version /\ base[r] \in Int
        OBVIOUS
      <4>2. base[r] # profile.version => base[r] < profile.version
        BY <4>1
      <4> HIDE <2>0, <2>1, <2>2 DEF Knowledge, RefusalIsTrue
      <4> QED BY <3>1, <3>4, <4>2
    <3>6. \A s \in Requests: Op(s) = "updateProfile" =>
            /\ call'[s] = "409" => base[s] < profile.version
            /\ call'[s] = "404" => ~profile.exists
      BY <3>3, <3>5
    <3> QED BY <3>2, <3>6
  <2> QED BY <2>3, <2>4, <2>5, <2>6, <2>7, <2>8, <2>9, <2>10, <2>11, <2>12, <2>13, <2>14
          DEF Next, Handle, Perform, vars
<1> QED BY <1>1, <1>2, TypeCorrect, CallsInvariant, PTL DEF Safe

(* For any number of devices, an update is refused for what is the case.   *)
THEOREM RefusalsAreTrue == Safe => []RefusalIsTrue
BY KnowledgeInvariant, PTL

-----------------------------------------------------------------------------
(* The email of the profile is recorded while a request is handled, and so *)
(* is the one that it has read and not used yet.                           *)
Recorded ==
    \A r \in Requests:
        /\ Handled(r) => ValidEmails(profile) \subseteq valid[r]
        /\ pc[r] = "call" /\ Op(r) \in ForValidatedEmail => got[r].email \in valid[r]
        /\ \A e \in Emails: <<r, e>> \in used => pc[r] # "idle"

(* Nothing is signed for, or sent to, an address the citizen has not       *)
(* validated by the time of his request.                                   *)
THEOREM EmailsAreValidated == Safe => []EmailWasValidated
<1> DEFINE I == Recorded /\ EmailWasValidated
<1> USE DEF Recorded, EmailWasValidated
<1>1. Init => I
  BY DEF Init, Handled
<1>2. TypeOK /\ Calls /\ I /\ [Next]_vars => I'
  <2> SUFFICES ASSUME TypeOK, Calls, I, [Next]_vars PROVE I' OBVIOUS
  <2> USE DEF TypeOK, Op, Handled
  <2>1. CASE UNCHANGED vars
    BY <2>1 DEF vars, ValidEmails
  <2>2. ASSUME NEW p, SetProfile(p), UNCHANGED <<pc, req, used>>,
               \A r \in Requests: pc[r] = "call" => got'[r] = got[r]
        PROVE  I'
    <3>1. \A r \in Requests: valid[r] \subseteq valid'[r]
      BY <2>2 DEF SetProfile
    <3>2. \A r \in Requests: Handled(r)' => ValidEmails(profile)' \subseteq valid'[r]
      BY <2>2 DEF SetProfile, ValidEmails
    <3> QED BY <2>2, <3>1, <3>2
  <2>3. CASE EmailValidated
    BY <2>2, <2>3 DEF EmailValidated, handler
  <2>4. CASE ProfileDeleted
    BY <2>2, <2>4 DEF ProfileDeleted, handler
  <2>5. ASSUME NEW r \in Requests, PerformUpdate(r) PROVE I'
    <3>1. pc[r] # "call"
      BY <2>5 DEF PerformUpdate, CallAnswered, Calls
    <3>2. SetProfile(updated(r)) /\ UNCHANGED <<pc, req, used>>
      BY <2>5 DEF PerformUpdate
    <3>3. \A s \in Requests: pc[s] = "call" => got'[s] = got[s]
      BY <2>5, <3>1 DEF PerformUpdate
    <3> QED BY <2>2, <3>2, <3>3
  <2>6. ASSUME NEW r \in Requests, Arrive(r) PROVE I'
    <3>1. pc[r] = "idle" /\ UNCHANGED <<profile, got, req, used>>
      BY <2>6 DEF Arrive, Goto, Finish
    <3>2. pc'[r] # "idle" /\ \A s \in Requests: s # r => pc'[s] = pc[s] /\ valid'[s] = valid[s]
      BY <2>6 DEF Arrive, Goto, Finish, FirstStep
    <3>3. valid'[r] = ValidEmails(profile)
      BY <2>6 DEF Arrive
    <3>4. pc'[r] = "call" => Op(r) \notin ForValidatedEmail
      BY <2>6 DEF Arrive, Goto, Finish, FirstStep
    <3> QED BY <3>1, <3>2, <3>3, <3>4 DEF ValidEmails
  <2>7. ASSUME NEW r \in Requests, retrieveSignerId(r) PROVE I'
    BY <2>7 DEF retrieveSignerId, Goto, Finish, ValidEmails
  <2>8. ASSUME NEW r \in Requests, profileWithEmailValidatedOrError(r) PROVE I'
    <3>1. got'[r] # got[r] => got'[r].email \in ValidEmails(profile)
      BY <2>8 DEF profileWithEmailValidatedOrError, ProfileWithEmailValidated, ValidEmails
    <3>2. pc'[r] = "call" => got'[r].email \in ValidEmails(profile)
      BY <2>8 DEF profileWithEmailValidatedOrError, ProfileWithEmailValidated, ValidEmails,
                  Goto, Finish
    <3>3. pc[r] = "profile" /\ pc'[r] # "idle" /\ UNCHANGED <<profile, req, valid, used>>
      BY <2>8 DEF profileWithEmailValidatedOrError, Goto, Finish
    <3>4. \A s \in Requests: s # r => pc'[s] = pc[s] /\ got'[s] = got[s]
      BY <2>8 DEF profileWithEmailValidatedOrError, Goto, Finish
    <3> QED BY <3>2, <3>3, <3>4 DEF ValidEmails
  <2>9. ASSUME NEW r \in Requests, SendCall(r) PROVE I'
    <3>1. pc[r] = "call" /\ pc'[r] \in {"await", "done"}
          /\ UNCHANGED <<profile, req, valid, got>>
      BY <2>9 DEF SendCall, Goto, Finish
    <3>2. \A s \in Requests: s # r => pc'[s] = pc[s]
      BY <2>9 DEF SendCall, Goto, Finish
    <3>3. \A u \in used': u \in used \/ (u = <<r, got[r].email>> /\ Op(r) \in ForValidatedEmail)
      <4>1. CASE used' = used
        BY <4>1
      <4>2. CASE Op(r) \in ForValidatedEmail /\ used' = used \union {<<r, got[r].email>>}
        BY <4>2
      <4> QED BY <2>9, <4>1, <4>2 DEF SendCall
    <3>4. EmailWasValidated'
      BY <3>1, <3>3
    <3>5. \A s \in Requests: Handled(s)' => Handled(s)
      BY <3>1, <3>2
    <3>6. \A s \in Requests: \A e \in Emails: <<s, e>> \in used' => pc'[s] # "idle"
      BY <3>1, <3>2, <3>3
    <3> QED BY <3>1, <3>2, <3>4, <3>5, <3>6 DEF ValidEmails
  <2>10. ASSUME NEW r \in Requests, Receive(r) \/ withCatchAsInternalError(r) PROVE I'
    BY <2>10 DEF Receive, withCatchAsInternalError, Goto, Finish, ValidEmails
  <2>11. ASSUME NEW r \in Requests, PerformWrite(r) \/ Refuse(r) PROVE I'
    BY <2>11 DEF PerformWrite, Refuse, handler, ValidEmails
  <2>12. ASSUME NEW r \in Requests, PerformRead(r) PROVE I'
    <3>1. pc[r] # "call"
      BY <2>12 DEF PerformRead, CallAnswered, Calls
    <3> QED BY <2>12, <3>1 DEF PerformRead, ValidEmails
  <2> QED BY <2>1, <2>3, <2>4, <2>5, <2>6, <2>7, <2>8, <2>9, <2>10, <2>11, <2>12
          DEF Next, Handle, Perform
<1> QED BY <1>1, <1>2, TypeCorrect, CallsInvariant, PTL DEF Safe

-----------------------------------------------------------------------------
(* The refinement: every step is a step of the promise, or leaves it as it *)
(* is.                                                                     *)

LEMMA OutcomeOfStatus ==
    /\ outcome("none") = "nothing"
    /\ \A status \in Statuses:
        /\ outcome(status) \in Promise!Outcomes
        /\ outcome(status) = "done" => status \in Done
        /\ outcome(status) = "refused" => status \in Refused
<1>1. outcome("none") = "nothing"
  BY DEF outcome, Done, Refused
<1>2. ASSUME NEW status \in Statuses
      PROVE  /\ outcome(status) \in Promise!Outcomes
             /\ outcome(status) = "done" => status \in Done
             /\ outcome(status) = "refused" => status \in Refused
  BY DEF outcome, Statuses, Done, Refused, Promise!Outcomes
<1> QED BY <1>1, <1>2

LEMMA InitPromise == Init => Promise!Init
<1> SUFFICES ASSUME Init PROVE Promise!Init OBVIOUS
<1>1. profile.version = 0 /\ profile.exists = TRUE
  BY DEF Init
<1>2. updatesMade = {}
  BY DEF Init, updatesMade
<1>3. versionNamed = [r \in Requests |-> -1]
  BY DEF Init, versionNamed
<1>4. outcomeTold = [r \in Requests |-> "nothing"]
  BY OutcomeOfStatus DEF Init, outcomeTold
<1> QED BY <1>1, <1>2, <1>3, <1>4 DEF Promise!Init, Promise!NoVersion

(* A request that is answered.                                             *)
LEMMA AnswerPromise ==
    ASSUME TypeOK, Calls, AnswerTellsEffect', NEW r \in Requests, NEW from, NEW status \in Statuses,
           Finish(r, from, status), from # "idle", from # "done",
           UNCHANGED <<profile, performed, req, base>>
    PROVE  [Promise!Next]_(Promise!vars)
<1> DEFINE what == outcome(status)
<1>1. pc[r] = from /\ pc' = [pc EXCEPT ![r] = "done"] /\ answer' = [answer EXCEPT ![r] = status]
  BY DEF Finish, Goto
<1>2. updatesMade' = updatesMade /\ versionNamed' = versionNamed
  BY <1>1 DEF TypeOK, updatesMade, versionNamed, isUpdate, Op
<1>3. CASE isUpdate(r)
  <2>1. outcomeTold[r] = "nothing"
    BY <1>1, <1>3, OutcomeOfStatus DEF Calls, outcomeTold
  <2>2. outcomeTold' = [outcomeTold EXCEPT ![r] = what]
    BY <1>1, <1>3 DEF TypeOK, outcomeTold, isUpdate, Op
  <2>3. Op(r)' \in Writes /\ answer'[r] = status
    BY <1>1, <1>3 DEF isUpdate, Op, Writes, TypeOK
  <2>4. (what = "done" => r \in updatesMade) /\ (what = "refused" => r \notin updatesMade)
    BY <1>3, <2>3, OutcomeOfStatus DEF AnswerTellsEffect, updatesMade
  <2>5. versionNamed[r] # -1
    BY <1>1, <1>3 DEF TypeOK, versionNamed, Versions
  <2>6. Promise!Answer(r)
    BY <1>2, <2>1, <2>2, <2>4, <2>5, OutcomeOfStatus DEF Promise!Answer, Promise!Tell, Promise!NoVersion
  <2> QED BY <2>6 DEF Promise!Next
<1>4. CASE ~isUpdate(r)
  <2>1. outcomeTold' = outcomeTold
    BY <1>1, <1>4 DEF TypeOK, outcomeTold, isUpdate, Op
  <2> QED BY <1>2, <2>1 DEF Promise!vars
<1> QED BY <1>3, <1>4

(* A step that goes on within the handler, or at another function app.     *)
LEMMA Unnoticed ==
    ASSUME TypeOK, UNCHANGED <<profile, req, base, answer>>, updatesMade' = updatesMade,
           \A r \in Requests: pc'[r] = "idle" <=> pc[r] = "idle"
    PROVE  UNCHANGED Promise!vars
<1>1. versionNamed' = versionNamed
  BY DEF versionNamed, isUpdate, Op
<1>2. outcomeTold' = outcomeTold
  BY DEF outcomeTold, isUpdate, Op
<1> QED BY <1>1, <1>2 DEF Promise!vars

LEMMA NextPromise ==
    ASSUME TypeOK, TypeOK', Calls, AnswerTellsEffect, AnswerTellsEffect', Knowledge, [Next]_vars
    PROVE  [Promise!Next]_(Promise!vars)
<1> DEFINE Kept == [Promise!Next]_(Promise!vars)
<1>0. UNCHANGED <<req, performed>> => updatesMade' = updatesMade
  BY DEF updatesMade, isUpdate, Op
<1>1. CASE UNCHANGED vars
  BY <1>0, <1>1, Unnoticed DEF vars
<1>2. CASE EmailValidated
  <2>1. UNCHANGED <<updatesMade, versionNamed, outcomeTold>>
    BY <1>2 DEF EmailValidated, handler, updatesMade, versionNamed, outcomeTold, isUpdate, Op
  <2>2. profile'.version = profile.version + 1 /\ profile'.exists = profile.exists
    BY <1>2 DEF EmailValidated, SetProfile, TypeOK, Profile
  <2>3. Promise!Validate
    BY <1>2, <2>1, <2>2 DEF EmailValidated, Promise!Validate
  <2> QED BY <2>3 DEF Promise!Next
<1>3. CASE ProfileDeleted
  <2>1. UNCHANGED <<updatesMade, versionNamed, outcomeTold>>
    BY <1>3 DEF ProfileDeleted, handler, updatesMade, versionNamed, outcomeTold, isUpdate, Op
  <2>2. profile'.version = profile.version /\ profile'.exists = FALSE
    BY <1>3 DEF ProfileDeleted, SetProfile, TypeOK, Profile
  <2>3. Promise!Delete
    BY <1>3, <2>1, <2>2 DEF ProfileDeleted, Promise!Delete
  <2> QED BY <2>3 DEF Promise!Next
<1>4. ASSUME NEW r \in Requests, Arrive(r) PROVE Kept
  <2>1. /\ UNCHANGED <<profile, req, performed, updatesMade>>
        /\ base' = [base EXCEPT ![r] = seen[req[r].device]]
        /\ pc[r] = "idle" /\ answer[r] = "none" /\ r \notin performed
    BY <1>0, <1>4 DEF Arrive, Goto, Finish, Calls
  <2>2. PICK to \in {"signer", "profile", "call", "done"}: pc' = [pc EXCEPT ![r] = to]
    BY <1>4 DEF Arrive, Goto, Finish, FirstStep
  <2>3. answer' = answer \/ \E status \in {"400", "500"}: answer' = [answer EXCEPT ![r] = status]
    BY <1>4 DEF Arrive, Finish
  <2>4. CASE ~isUpdate(r)
    <3>1. versionNamed' = versionNamed
      BY <2>1, <2>2, <2>4 DEF TypeOK, versionNamed, isUpdate, Op
    <3>2. outcomeTold' = outcomeTold
      BY <2>1, <2>3, <2>4 DEF TypeOK, outcomeTold, isUpdate, Op
    <3> QED BY <2>1, <3>1, <3>2 DEF Promise!vars
  <2>5. CASE isUpdate(r)
    <3> DEFINE v == seen[req[r].device]
    <3>1. versionNamed' = [versionNamed EXCEPT ![r] = v] /\ versionNamed[r] = -1
      BY <2>1, <2>2, <2>5 DEF TypeOK, versionNamed, isUpdate, Op
    <3>2. v \in 0..profile.version
      <4>1. req[r].device \in Devices /\ profile.version \in Versions
        BY DEF TypeOK, Request, Profile
      <4>2. v \in Versions /\ v <= profile.version
        BY <4>1 DEF TypeOK, Knowledge
      <4> QED BY <4>1, <4>2 DEF Versions
    <3>3. Promise!Name(r)
      BY <2>1, <3>1, <3>2 DEF Promise!Name, Promise!NoVersion
    <3>4. outcomeTold[r] = "nothing"
      BY <2>1, <2>5, OutcomeOfStatus DEF outcomeTold
    <3>5. ASSUME answer' = answer PROVE UNCHANGED outcomeTold
      BY <2>1, <3>5 DEF outcomeTold, isUpdate, Op
    <3>6. ASSUME NEW status \in {"400", "500"}, answer' = [answer EXCEPT ![r] = status]
          PROVE  \E what \in Promise!Outcomes: Promise!Tell(r, what)
      <4>1. outcomeTold' = [outcomeTold EXCEPT ![r] = outcome(status)]
        BY <2>1, <2>5, <3>6 DEF TypeOK, outcomeTold, isUpdate, Op
      <4>2. outcome(status) \in {"refused", "doubt"}
        BY DEF outcome, Done, Refused
      <4>3. r \notin updatesMade
        BY <2>1 DEF updatesMade
      <4> QED BY <2>1, <3>4, <4>1, <4>2, <4>3 DEF Promise!Tell, Promise!Outcomes
    <3>7. UNCHANGED outcomeTold \/ \E what \in Promise!Outcomes: Promise!Tell(r, what)
      BY <2>3, <3>5, <3>6
    <3>8. Promise!Ask(r)
      BY <3>3, <3>7 DEF Promise!Ask
    <3> QED BY <3>8 DEF Promise!Next
  <2> QED BY <2>4, <2>5
<1>5. ASSUME NEW r \in Requests, retrieveSignerId(r) PROVE Kept
  <2>1. UNCHANGED <<profile, req, base, performed>>
    BY <1>5 DEF retrieveSignerId
  <2>2. CASE Finish(r, "signer", "500")
    BY <2>1, <2>2, AnswerPromise DEF Statuses
  <2>3. CASE UNCHANGED answer /\ \E to \in {"profile", "call"}: Goto(r, "signer", to)
    BY <1>0, <2>1, <2>3, Unnoticed DEF Goto, TypeOK
  <2> QED BY <1>5, <2>2, <2>3 DEF retrieveSignerId
<1>6. ASSUME NEW r \in Requests, profileWithEmailValidatedOrError(r) PROVE Kept
  <2>1. UNCHANGED <<profile, req, base, performed>>
    BY <1>6 DEF profileWithEmailValidatedOrError
  <2>2. CASE Finish(r, "profile", "500")
    BY <2>1, <2>2, AnswerPromise DEF Statuses
  <2>3. CASE UNCHANGED answer /\ Goto(r, "profile", "call")
    BY <1>0, <2>1, <2>3, Unnoticed DEF Goto, TypeOK
  <2> QED BY <1>6, <2>2, <2>3 DEF profileWithEmailValidatedOrError
<1>7. ASSUME NEW r \in Requests, SendCall(r) PROVE Kept
  <2>1. UNCHANGED <<profile, req, base, performed>>
    BY <1>7 DEF SendCall
  <2>2. CASE Finish(r, "call", "400")
    BY <2>1, <2>2, AnswerPromise DEF Statuses, Refused
  <2>3. CASE UNCHANGED answer /\ Goto(r, "call", "await")
    BY <1>0, <2>1, <2>3, Unnoticed DEF Goto, TypeOK
  <2> QED BY <1>7, <2>2, <2>3 DEF SendCall
<1>8. ASSUME NEW r \in Requests, Receive(r) PROVE Kept
  <2>1. responseOf(Op(r), call[r]) \in Statuses
    BY <1>8, ResponseIsStatus DEF Receive
  <2> QED BY <1>8, <2>1, AnswerPromise DEF Receive
<1>9. ASSUME NEW r \in Requests, withCatchAsInternalError(r) PROVE Kept
  BY <1>9, AnswerPromise DEF withCatchAsInternalError, Statuses
<1>10. ASSUME NEW r \in Requests, PerformUpdate(r) PROVE Kept
  <2>1. /\ profile.exists /\ profile.version < MaxVersion /\ base[r] = profile.version
        /\ isUpdate(r) /\ call[r] = "sent" /\ profile' = updated(r)
        /\ performed' = performed \union {r} /\ UNCHANGED <<pc, req, base, answer>>
    BY <1>10 DEF PerformUpdate, SetProfile, CallAnswered, VersionSent, isUpdate
  <2>2. profile'.version = profile.version + 1 /\ profile'.exists = profile.exists
    BY <2>1, UpdatedProfile
  <2>3. UNCHANGED <<versionNamed, outcomeTold>>
    BY <2>1 DEF versionNamed, outcomeTold, isUpdate, Op
  <2>4. updatesMade' = updatesMade \union {r}
    BY <2>1 DEF updatesMade, isUpdate, Op
  <2>5. r \notin updatesMade /\ versionNamed[r] = profile.version
    BY <2>1 DEF updatesMade, versionNamed, Calls
  <2>6. outcomeTold[r] # "refused"
    <3>1. answer[r] \notin Refused
      BY <2>1 DEF AnswerTellsEffect, isUpdate, Writes
    <3> QED BY <2>1, <3>1 DEF outcomeTold, outcome
  <2>7. Promise!Make(r)
    BY <2>1, <2>2, <2>3, <2>4, <2>5, <2>6 DEF Promise!Make
  <2> QED BY <2>7 DEF Promise!Next
<1>11. ASSUME NEW r \in Requests, PerformWrite(r) PROVE Kept
  <2>1. updatesMade' = updatesMade
    BY <1>11 DEF PerformWrite, handler, updatesMade, isUpdate, Op
  <2> QED BY <1>11, <2>1, Unnoticed DEF PerformWrite, handler
<1>12. ASSUME NEW r \in Requests, PerformRead(r) \/ Refuse(r) PROVE Kept
  BY <1>0, <1>12, Unnoticed DEF PerformRead, Refuse, handler
<1> QED BY <1>1, <1>2, <1>3, <1>4, <1>5, <1>6, <1>7, <1>8, <1>9, <1>10, <1>11, <1>12
        DEF Next, Handle, Perform

(* Whatever devices, handlers and the function app do, and in whatever     *)
(* order, they are a register of versions: each update replaces the one it *)
(* names, once, and what its device is told of it stays true.              *)
THEOREM ImplementsPromise == Safe => PromiseKept
<1>1. TypeOK /\ TypeOK' /\ Calls /\ AnswerTellsEffect /\ AnswerTellsEffect' /\ Knowledge
      /\ [Next]_vars => [Promise!Next]_(Promise!vars)
  BY NextPromise
<1> QED BY <1>1, InitPromise, TypeCorrect, CallsInvariant, KnowledgeInvariant, PTL
        DEF Safe, PromiseKept, Promise!Safe

(* Of the devices that update one version, or repeat that update, at most  *)
(* one is ever told that it was done.                                      *)
OneSuccessPerVersion ==
    \A r, s \in Requests:
        /\ isUpdate(r) /\ answer[r] \in Done
        /\ isUpdate(s) /\ answer[s] \in Done
        /\ base[r] = base[s]
        => r = s

(* What a device learns from 200 is that nobody else replaced the version  *)
(* it knew: an update that was lost is never confirmed.                    *)
THEOREM SuccessIsExclusive == Safe => []OneSuccessPerVersion
<1>1. NoLostUpdate /\ AnswerTellsEffect => OneSuccessPerVersion
  <2> SUFFICES ASSUME NoLostUpdate, AnswerTellsEffect, NEW r \in Requests, NEW s \in Requests,
                      isUpdate(r), isUpdate(s), base[r] = base[s],
                      answer[r] \in Done, answer[s] \in Done
               PROVE  r = s
    BY DEF OneSuccessPerVersion
  <2>1. r \in performed /\ s \in performed
    BY DEF AnswerTellsEffect, isUpdate, Writes
  <2>2. author[base[r] + 1] = {r} /\ author[base[r] + 1] = {s}
    BY <2>1 DEF NoLostUpdate, isUpdate
  <2> QED BY <2>2
<1> QED BY <1>1, UpdatesAreKept, AnswersTell, PTL

-----------------------------------------------------------------------------
(* Every request is answered.                                              *)

(* A request that is handled can always be: each of its calls may fail.    *)
(* The only fact about ENABLED the argument needs.                         *)
HandledIsEnabled == \A r \in Requests: Handled(r) => ENABLED <<Handle(r)>>_vars

Told(r) == answer[r] # "none"

\* A handler goes to a later call or answers, and leaves the others alone.
LEMMA HandleMoves ==
    ASSUME TypeOK, NEW r \in Requests, Handle(r)
    PROVE  /\ \/ pc[r] = "signer" /\ pc'[r] \in {"profile", "call"}
              \/ pc[r] = "profile" /\ pc'[r] = "call"
              \/ pc[r] = "call" /\ pc'[r] = "await"
              \/ Told(r)'
           /\ \A q \in Requests: q # r => pc'[q] = pc[q] /\ answer'[q] = answer[q]
<1> USE DEF Goto, Finish, TypeOK, Told
<1>1. CASE retrieveSignerId(r)
  BY <1>1 DEF retrieveSignerId
<1>2. CASE profileWithEmailValidatedOrError(r)
  BY <1>2 DEF profileWithEmailValidatedOrError
<1>3. CASE SendCall(r)
  BY <1>3 DEF SendCall
<1>4. CASE Receive(r)
  <2>1. responseOf(Op(r), call[r]) # "none"
    BY <1>4, ResponseIsStatus DEF Receive, Statuses, Done, Refused
  <2> QED BY <1>4, <2>1 DEF Receive
<1>5. CASE withCatchAsInternalError(r)
  BY <1>5 DEF withCatchAsInternalError
<1> QED BY <1>1, <1>2, <1>3, <1>4, <1>5 DEF Handle

\* Only its handler moves a request that is handled.
LEMMA HandledStays ==
    ASSUME TypeOK, [Next]_vars, NEW r \in Requests, Handled(r)
    PROVE  Handle(r) \/ (pc'[r] = pc[r] /\ answer'[r] = answer[r])
<1>1. CASE UNCHANGED vars
  BY <1>1 DEF vars
<1>2. CASE EmailValidated \/ ProfileDeleted
  BY <1>2 DEF EmailValidated, ProfileDeleted, handler
<1>3. ASSUME NEW q \in Requests, Arrive(q) PROVE pc'[r] = pc[r] /\ answer'[r] = answer[r]
  <2>1. q # r
    BY <1>3 DEF Arrive, Goto, Finish, Handled
  <2> QED BY <1>3, <2>1 DEF Arrive, Goto, Finish, TypeOK
<1>4. ASSUME NEW q \in Requests, Handle(q), q # r PROVE pc'[r] = pc[r] /\ answer'[r] = answer[r]
  BY <1>4, HandleMoves
<1>5. ASSUME NEW q \in Requests, Perform(q) PROVE pc'[r] = pc[r] /\ answer'[r] = answer[r]
  BY <1>5 DEF Perform, PerformUpdate, PerformWrite, PerformRead, Refuse, handler
<1> QED BY <1>1, <1>2, <1>3, <1>4, <1>5 DEF Next

(* Provided a request that is handled can be, fairness of the handlers     *)
(* alone has every request answered, through all the calls its operation   *)
(* makes: nothing is asked of the function apps.                           *)
THEOREM RequestsAreAnswered == Spec /\ []HandledIsEnabled => RequestsAnswered
<1> DEFINE Signer(r) == pc[r] = "signer"
           Reading(r) == pc[r] = "profile"
           Sending(r) == pc[r] = "call"
           Awaiting(r) == pc[r] = "await"
<1>1. ASSUME NEW r \in Requests
      PROVE  Spec /\ []HandledIsEnabled => (Handled(r) ~> Told(r))
  <2>0. /\ Signer(r) \/ Reading(r) \/ Sending(r) \/ Awaiting(r) => Handled(r)
        /\ TypeOK /\ Handled(r) => Signer(r) \/ Reading(r) \/ Sending(r) \/ Awaiting(r)
    BY DEF Handled, TypeOK
  <2>1. TypeOK /\ Signer(r) /\ <<Handle(r)>>_vars => Reading(r)' \/ Sending(r)' \/ Told(r)'
    BY HandleMoves
  <2>2. TypeOK /\ Reading(r) /\ <<Handle(r)>>_vars => Sending(r)' \/ Told(r)'
    BY HandleMoves
  <2>3. TypeOK /\ Sending(r) /\ <<Handle(r)>>_vars => Awaiting(r)' \/ Told(r)'
    BY HandleMoves
  <2>4. TypeOK /\ Awaiting(r) /\ <<Handle(r)>>_vars => Told(r)'
    BY HandleMoves
  <2>5. TypeOK /\ Signer(r) /\ [Next]_vars => Signer(r)' \/ Reading(r)' \/ Sending(r)' \/ Told(r)'
    BY <2>0, HandledStays, HandleMoves
  <2>6. TypeOK /\ Reading(r) /\ [Next]_vars => Reading(r)' \/ Sending(r)' \/ Told(r)'
    BY <2>0, HandledStays, HandleMoves
  <2>7. TypeOK /\ Sending(r) /\ [Next]_vars => Sending(r)' \/ Awaiting(r)' \/ Told(r)'
    BY <2>0, HandledStays, HandleMoves
  <2>8. TypeOK /\ Awaiting(r) /\ [Next]_vars => Awaiting(r)' \/ Told(r)'
    BY <2>0, HandledStays, HandleMoves
  <2>9. Spec => GoesOn(r)
    BY DEF Spec, Fairness
  <2>10. GoesOn(r) => []<>(~ENABLED <<Handle(r)>>_vars) \/ []<><<Handle(r)>>_vars
    BY PTL DEF GoesOn
  <2>11. HandledIsEnabled => (Handled(r) => ENABLED <<Handle(r)>>_vars)
    BY DEF HandledIsEnabled
  <2> HIDE DEF Signer, Reading, Sending, Awaiting
  <2> QED BY <2>0, <2>1, <2>2, <2>3, <2>4, <2>5, <2>6, <2>7, <2>8, <2>9, <2>10, <2>11,
             TypeCorrect, PTL DEF Spec, Safe
<1>2. Spec /\ []HandledIsEnabled => \A r \in Requests: (Handled(r) ~> Told(r))
  BY <1>1
<1> QED BY <1>2 DEF RequestsAnswered, Told
=============================================================================
