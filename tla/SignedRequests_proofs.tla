----------------------- MODULE SignedRequests_proofs -----------------------
(***************************************************************************)
(* Proofs about SignedRequests, for any keys, requests and traffic.        *)
(***************************************************************************)
EXTENDS SignedRequests, TLAPS

InFlight(r) == pc[r] \notin {"idle", "done"}
Needs(r) == Route(r) = "sign" \/ checkIfLollipopIsEnabled(req[r].configuration)

(* Whose key a request holds. *)
KeyInv(r) ==
    /\ InFlight(r) => key \in current[r]
    /\ ref[r] # NoKey =>
         IF Path(r) = "legacy" THEN ref[r] \in current[r] ELSE ref[r] = req[r].keyid
    /\ lc[r] # NoKey => lc[r] = ref[r]

(* How far it has come, and with what. *)
StepInv(r) ==
    /\ pc[r] \in {"idle", "auth", "message", "configuration", "headers", "reference"} =>
         ref[r] = NoKey /\ lc[r] = NoKey
    /\ pc[r] = "lcParams" => ref[r] # NoKey /\ lc[r] = NoKey
    /\ pc[r] \in {"message", "configuration", "client", "thirdParty", "download"} => Route(r) # "sign"
    /\ pc[r] \in {"consumer", "signing"} => Route(r) = "sign"
    /\ pc[r] \in {"headers", "reference", "lcParams"} => Needs(r)
    /\ pc[r] \in {"consumer", "signing", "client", "thirdParty", "download"} =>
         (lc[r] # NoKey <=> Needs(r))

(* What has left the backend for it: calls and the answer. *)
OutInv(r) ==
    /\ answer[r] # "none" => pc[r] = "done"
    /\ \A f \in forwarded: f.req = r =>
         /\ pc[r] \in {"signing", "thirdParty", "download", "done"}
         /\ f.key = lc[r]
         /\ f.key # NoKey <=> Needs(r)
    /\ answer[r] = "401" => ~req[r].xUser /\ \A f \in forwarded: f.req # r
    /\ (Route(r) = "message" /\ answer[r] = "200" /\ ~req[r].message.fromPN) =>
         /\ served[r].attachments = req[r].message.attachments
         /\ served[r].body = IF req[r].message.remote THEN "valid" ELSE "static"

IInv == TypeOK /\ \A r \in Requests: KeyInv(r) /\ StepInv(r) /\ OutInv(r)

-----------------------------------------------------------------------------
(* Typing. *)

LEMMA RequestType ==
    ASSUME TypeOK, NEW r \in Requests
    PROVE  /\ req[r] \in Request
           /\ req[r].token \in Keys
           /\ req[r].keyid \in Keys \union {NoKey}
           /\ req[r].message \in Message
           /\ Route(r) \in Routes
           /\ Path(r) \in {"legacy", "identity"}
  BY TrafficAssumption DEF TypeOK, Request, Route, Path

LEMMA InitType == Init => TypeOK
  BY DEF Init, TypeOK, NoContent, Content, Bodies, Answers, Steps

(* Every answer of a step has a known status. *)
LEMMA AnswerType ==
    ASSUME TypeOK, NEW r \in Requests, NEW from, NEW a \in Answers, Finish(r, from, a)
    PROVE  pc' \in [Requests -> Steps] /\ answer' \in [Requests -> Answers]
  BY DEF Finish, Goto, TypeOK, Steps

LEMMA StatusType ==
    ASSUME NEW r \in Requests, NEW s \in Statuses
    PROVE  /\ pnFetch(r, s) \in Statuses
           /\ statusToResponse(r, s) \in Answers \ {"none", "200", "401"}
  BY DEF pnFetch, redirectMessages, redirectPrecondition, statusToResponse, Statuses, Answers

LEMMA ContentType ==
    ASSUME TypeOK, NEW r \in Requests, NEW c \in Replies(r)
    PROVE  /\ c \in Content
           /\ validateThirdPartyMessageResponse(req[r].message, c) \in Content
  <1>1. c \in Content
    <2>1. CASE Route(r) = "message"
      BY <2>1 DEF Replies, Content, Bodies
    <2>2. CASE Route(r) = "attachment"
      BY <2>2 DEF Replies, Content, Bodies
    <2>3. CASE Route(r) \notin {"message", "attachment"}
      <3>1. Replies(r) = {NoContent}
        BY <2>3 DEF Replies
      <3>2. c = NoContent
        BY <3>1
      <3>3. NoContent \in Content
        BY DEF Content, Bodies, NoContent
      <3> QED
        BY <3>2, <3>3
    <2> QED
      BY <2>1, <2>2, <2>3
  <1> QED
    BY <1>1, RequestType DEF validateThirdPartyMessageResponse, Content, Bodies, Message

(* Asking for the parameters of a key of the citizen. *)
LEMMA AskType ==
    ASSUME TypeOK, NEW r \in Requests, NEW k \in Keys \union {NoKey}, AskLCParams(r, k)
    PROVE  /\ pc' \in [Requests -> Steps]
           /\ answer' \in [Requests -> Answers]
           /\ ref' \in [Requests -> Keys \union {NoKey}]
  BY DEF AskLCParams, Goto, TypeOK, Steps

LEMMA WorldType == TypeOK /\ (SessionManager \/ Replication) => TypeOK'
  <1> SUFFICES ASSUME TypeOK, SessionManager \/ Replication PROVE TypeOK'
    OBVIOUS
  <1> USE DEF TypeOK
  <1>1. CASE Replication
    BY <1>1 DEF Replication, ReplicateSessions, ReplicateKey, KeepRequests, sessions
  <1>2. ASSUME NEW k \in Keys, LoginWritesKey(k) PROVE TypeOK'
    BY <1>2 DEF LoginWritesKey, SetKey, KeepRequests
  <1>3. ASSUME NEW k \in Keys, LoginWritesSession(k) \/ SessionGone(k) PROVE TypeOK'
    BY <1>3 DEF LoginWritesSession, SessionGone, KeepRequests
  <1>4. CASE KeyGone
    BY <1>4 DEF KeyGone, SetKey, KeepRequests
  <1> QED
    BY <1>1, <1>2, <1>3, <1>4 DEF SessionManager

LEMMA AuthType ==
    ASSUME TypeOK, NEW r \in Requests,
           Arrive(r) \/ bearerSessionTokenStrategy(r) \/ xUserMiddleware(r)
    PROVE  TypeOK'
  <1> USE DEF TypeOK, worldVars
  <1>1. CASE Arrive(r)
    BY <1>1 DEF Arrive, Goto, Steps
  <1>2. ASSUME Authenticated(r)
        PROVE  pc' \in [Requests -> Steps] /\ answer' \in [Requests -> Answers]
    BY <1>2, AnswerType DEF Authenticated, Goto, Steps, Answers
  <1>3. ASSUME NEW a \in {"401", "500"}, Finish(r, "auth", a)
        PROVE  pc' \in [Requests -> Steps] /\ answer' \in [Requests -> Answers]
    BY <1>3, AnswerType DEF Answers
  <1> QED
    BY <1>1, <1>2, <1>3 DEF bearerSessionTokenStrategy, xUserMiddleware

LEMMA LollipopType ==
    ASSUME TypeOK, NEW r \in Requests,
           \/ getThirdPartyMessageFnApp(r) \/ getRCConfiguration(r)
           \/ LollipopRequiredHeaders(r)
           \/ getLollipopAssertionRefForUser(r) \/ assertionRefOfIdentity(r)
           \/ generateLCParams(r)
    PROVE  TypeOK'
  <1> USE DEF TypeOK, worldVars
  <1>1. \A a \in {"400", "403", "404", "429", "500"}:
          a \in Answers /\ LollipopError(r, a) \in Answers
    BY DEF LollipopError, Answers
  <1>2. CASE getThirdPartyMessageFnApp(r)
    BY <1>1, <1>2, AnswerType DEF getThirdPartyMessageFnApp, FinishWith, Goto, Steps
  <1>3. CASE getRCConfiguration(r)
    BY <1>1, <1>3, AnswerType DEF getRCConfiguration, FinishWith, Goto, Steps
  <1>4. CASE LollipopRequiredHeaders(r)
    BY <1>1, <1>4, AnswerType DEF LollipopRequiredHeaders, Goto, Steps
  <1>5. CASE getLollipopAssertionRefForUser(r)
    BY <1>1, <1>5, AnswerType, AskType DEF getLollipopAssertionRefForUser
  <1>6. CASE assertionRefOfIdentity(r)
    BY <1>1, <1>6, AnswerType, AskType, RequestType DEF assertionRefOfIdentity
  <1>7. CASE generateLCParams(r)
    BY <1>1, <1>7, AnswerType DEF generateLCParams, FinishWith, Goto, Steps
  <1> QED
    BY <1>2, <1>3, <1>4, <1>5, <1>6, <1>7

(* What those outside the platform may do. *)
LEMMA OthersAnswer ==
    ASSUME NEW r \in Requests, Others(r)
    PROVE  /\ UNCHANGED <<worldVars, req, current, ref, lc, forwarded>>
           /\ \/ signMessageAnswers(r)
              \/ \E a \in Answers \ {"none", "200", "401"}: Refuse(r, a)
              \/ \E c \in Replies(r):
                   \/ getThirdPartyMessagePrecondition(r, c)
                   \/ getThirdPartyMessage(r, c)
                   \/ getThirdPartyAttachment(r, c)
              \/ Goto(r, "thirdParty", "download") /\ UNCHANGED <<answer, served>>
  <1>1. UNCHANGED <<worldVars, req, current, ref, lc, forwarded>>
    BY DEF Others, signMessageAnswers, ThirdPartyAnswers, redirectAttachment, downloadAnswers
  <1>2. {"500", "503"} \subseteq Statuses
    BY DEF Statuses
  <1> QED
    BY <1>1, <1>2, StatusType DEF Others, ThirdPartyAnswers, redirectAttachment, downloadAnswers

LEMMA ConsumerType ==
    ASSUME TypeOK, NEW r \in Requests,
           firstLollipopSign(r) \/ getThirdPartyServiceClient(r) \/ Others(r)
    PROVE  TypeOK'
  <1> USE DEF TypeOK, worldVars
  <1>1. CASE firstLollipopSign(r)
    BY <1>1, AnswerType DEF firstLollipopSign, Goto, Forward, Answers, Steps
  <1>2. CASE getThirdPartyServiceClient(r)
    BY <1>2 DEF getThirdPartyServiceClient, Goto, Forward, Steps
  <1>3. CASE signMessageAnswers(r)
    BY <1>3, AnswerType DEF signMessageAnswers, FinishWith, Answers
  <1>4. ASSUME UNCHANGED <<worldVars, req, current, ref, lc, forwarded>>,
               \/ \E a \in Answers: Refuse(r, a)
               \/ \E c \in Replies(r):
                    \/ getThirdPartyMessagePrecondition(r, c)
                    \/ getThirdPartyMessage(r, c)
                    \/ getThirdPartyAttachment(r, c)
        PROVE  TypeOK'
    <2>1. /\ \E a \in Answers: Finish(r, pc[r], a)
          /\ \/ UNCHANGED served
             \/ \E c \in Content: served' = [served EXCEPT ![r] = c]
      BY <1>4, ContentType
         DEF getThirdPartyMessagePrecondition, getThirdPartyMessage,
             getThirdPartyAttachment, Serve, Refuse, Answers
    <2>2. pc' \in [Requests -> Steps] /\ answer' \in [Requests -> Answers]
      BY <2>1, AnswerType
    <2> QED
      BY <1>4, <2>1, <2>2
  <1>5. CASE Goto(r, "thirdParty", "download") /\ UNCHANGED <<answer, served>>
             /\ UNCHANGED <<worldVars, req, current, ref, lc, forwarded>>
    BY <1>5 DEF Goto, Steps
  <1> QED
    BY <1>1, <1>2, <1>3, <1>4, <1>5, OthersAnswer

LEMMA TypeStep == TypeOK /\ [Next]_vars => TypeOK'
  <1>1. TypeOK /\ UNCHANGED vars => TypeOK'
    BY DEF TypeOK, vars, worldVars
  <1> QED
    BY <1>1, WorldType, AuthType, LollipopType, ConsumerType DEF Next, Handle

-----------------------------------------------------------------------------
(* The session manager and the replication. *)

Vouched(r) == KeyInv(r) /\ StepInv(r) /\ OutInv(r)

LEMMA WorldStep ==
    ASSUME IInv, SessionManager \/ Replication, NEW r \in Requests
    PROVE  Vouched(r)'
  <1>1. UNCHANGED <<pc, req, ref, lc, forwarded, answer, served>>
    BY DEF SessionManager, Replication, LoginWritesKey, LoginWritesSession, SessionGone, KeyGone,
           ReplicateSessions, ReplicateKey, KeepRequests
  <1>2. StepInv(r)' /\ OutInv(r)'
    BY <1>1 DEF IInv, StepInv, OutInv, Needs, Route
  <1>3. (key' = key /\ current' = current) \/ \E k \in Keys \union {NoKey}: SetKey(k)
    BY DEF SessionManager, Replication, LoginWritesKey, LoginWritesSession, SessionGone, KeyGone,
           ReplicateSessions, ReplicateKey
  <1>4. InFlight(r) => key' \in current'[r]
    BY <1>3 DEF IInv, KeyInv, InFlight, SetKey
  <1>5. current[r] \subseteq current'[r]
    BY <1>3 DEF IInv, SetKey
  <1> QED
    BY <1>1, <1>2, <1>4, <1>5 DEF IInv, KeyInv, InFlight, Vouched, Path

-----------------------------------------------------------------------------
(* A step of a request leaves the others alone. *)

Step(r) == Arrive(r) \/ Handle(r) \/ Others(r)

LEMMA OnlyItself ==
    ASSUME TypeOK, NEW r \in Requests, Step(r)
    PROVE  /\ UNCHANGED <<worldVars, req>>
           /\ \A q \in Requests \ {r}:
                /\ pc'[q] = pc[q] /\ current'[q] = current[q]
                /\ ref'[q] = ref[q] /\ lc'[q] = lc[q]
                /\ answer'[q] = answer[q] /\ served'[q] = served[q]
           /\ \/ forwarded' = forwarded
              \/ /\ forwarded' = forwarded \union {[req |-> r, key |-> lc[r]]}
                 /\ pc[r] \in {"consumer", "client"}
  <1> USE DEF TypeOK, Goto, Finish, FinishWith
  <1>1. CASE Arrive(r)
    BY <1>1 DEF Arrive
  <1>2. CASE bearerSessionTokenStrategy(r) \/ xUserMiddleware(r)
    BY <1>2 DEF bearerSessionTokenStrategy, xUserMiddleware, Authenticated
  <1>3. CASE getThirdPartyMessageFnApp(r) \/ getRCConfiguration(r) \/ LollipopRequiredHeaders(r)
    BY <1>3 DEF getThirdPartyMessageFnApp, getRCConfiguration, LollipopRequiredHeaders
  <1>4. CASE getLollipopAssertionRefForUser(r) \/ assertionRefOfIdentity(r)
    BY <1>4 DEF getLollipopAssertionRefForUser, assertionRefOfIdentity, AskLCParams
  <1>5. CASE generateLCParams(r)
    BY <1>5 DEF generateLCParams
  <1>6. CASE firstLollipopSign(r) \/ getThirdPartyServiceClient(r)
    BY <1>6 DEF firstLollipopSign, getThirdPartyServiceClient, Forward
  <1>7. CASE Others(r)
    BY <1>7, OthersAnswer
       DEF signMessageAnswers, getThirdPartyMessagePrecondition, getThirdPartyMessage,
           getThirdPartyAttachment, Serve, Refuse
  <1> QED
    BY <1>1, <1>2, <1>3, <1>4, <1>5, <1>6, <1>7 DEF Step, Handle

LEMMA OthersKeep ==
    ASSUME IInv, NEW r \in Requests, Step(r), NEW q \in Requests \ {r}
    PROVE  Vouched(q)'
  <1>1. TypeOK
    BY DEF IInv
  <1>2. \A f \in forwarded': f.req = q => f \in forwarded
    BY <1>1, OnlyItself
  <1>3. KeyInv(q)'
    BY <1>1, OnlyItself DEF IInv, KeyInv, InFlight, Path, worldVars
  <1>4. StepInv(q)'
    BY <1>1, OnlyItself DEF IInv, StepInv, Needs, Route
  <1>5. OutInv(q)'
    BY <1>1, <1>2, OnlyItself DEF IInv, OutInv, Needs, Route
  <1> QED
    BY <1>3, <1>4, <1>5 DEF Vouched

-----------------------------------------------------------------------------
(* And vouches for itself. *)

(* A step that answers, sends nothing and serves nothing. *)
LEMMA AnswerKeeps ==
    ASSUME IInv, NEW r \in Requests, NEW from \in Steps \ {"idle", "done"},
           NEW a \in Answers \ {"none"}, Finish(r, from, a),
           a = "200" => Route(r) = "sign",
           a = "401" => ~req[r].xUser /\ from = "auth",
           UNCHANGED <<key, req, current, ref, lc, forwarded, served>>
    PROVE  Vouched(r)'
  <1> USE DEF TypeOK, Finish, Goto
  <1>1. pc[r] = from /\ pc'[r] = "done" /\ answer'[r] = a
    BY DEF IInv
  <1>2. KeyInv(r)'
    BY <1>1 DEF IInv, KeyInv, InFlight, Path
  <1>3. StepInv(r)'
    BY <1>1 DEF StepInv
  <1>4. OutInv(r)'
    BY <1>1 DEF IInv, OutInv, Needs, Route
  <1> QED
    BY <1>2, <1>3, <1>4 DEF Vouched

(* A step that goes on without a key having come. *)
LEMMA GotoKeeps ==
    ASSUME IInv, NEW r \in Requests, NEW from, NEW to, Goto(r, from, to),
           \/ /\ from = "auth"
              /\ to = IF Route(r) = "sign" THEN "headers" ELSE "message"
           \/ from = "message" /\ to = "configuration"
           \/ /\ from = "configuration"
              /\ to = IF checkIfLollipopIsEnabled(req[r].configuration)
                      THEN "headers" ELSE "client"
           \/ from = "headers" /\ to = "reference",
           UNCHANGED <<key, req, current, ref, lc, forwarded, answer, served>>
    PROVE  Vouched(r)'
  <1> USE DEF TypeOK, Goto
  <1>1. pc[r] = from /\ pc'[r] = to
    BY DEF IInv
  <1>2. KeyInv(r)'
    BY <1>1 DEF IInv, KeyInv, InFlight, Path
  <1>3. StepInv(r)'
    BY <1>1 DEF IInv, StepInv, Needs, Route
  <1>4. OutInv(r)'
    BY <1>1 DEF IInv, OutInv, Needs, Route
  <1> QED
    BY <1>2, <1>3, <1>4 DEF Vouched

LEMMA ArriveKeeps ==
    ASSUME IInv, NEW r \in Requests, Arrive(r)
    PROVE  Vouched(r)'
  <1> USE DEF TypeOK, Goto, Arrive, worldVars
  <1>1. pc[r] = "idle" /\ pc'[r] = "auth" /\ current'[r] = {key}
    BY DEF IInv
  <1>2. KeyInv(r)' /\ StepInv(r)'
    BY <1>1 DEF IInv, KeyInv, StepInv, InFlight, Path
  <1>3. OutInv(r)'
    BY <1>1 DEF IInv, OutInv, Needs, Route
  <1> QED
    BY <1>2, <1>3 DEF Vouched

LEMMA AuthKeeps ==
    ASSUME IInv, NEW r \in Requests, bearerSessionTokenStrategy(r) \/ xUserMiddleware(r)
    PROVE  Vouched(r)'
  <1>1. UNCHANGED <<key, req, current, ref, lc, forwarded, served>>
    BY DEF bearerSessionTokenStrategy, xUserMiddleware, worldVars
  <1>2. \/ \E a \in {"400", "500"}: Finish(r, "auth", a)
        \/ Finish(r, "auth", "401") /\ ~req[r].xUser
        \/ /\ Goto(r, "auth", IF Route(r) = "sign" THEN "headers" ELSE "message")
           /\ UNCHANGED answer
    BY DEF bearerSessionTokenStrategy, xUserMiddleware, Authenticated
  <1> QED
    BY <1>1, <1>2, AnswerKeeps, GotoKeeps DEF Answers, Steps

LEMMA LollipopKeeps ==
    ASSUME IInv, NEW r \in Requests,
           \/ getThirdPartyMessageFnApp(r) \/ getRCConfiguration(r)
           \/ LollipopRequiredHeaders(r)
    PROVE  Vouched(r)'
  <1>1. UNCHANGED <<key, req, current, ref, lc, forwarded, served>>
    BY DEF getThirdPartyMessageFnApp, getRCConfiguration, LollipopRequiredHeaders, worldVars
  <1>2. \/ \E a \in {"400", "404", "429", "500"}, from \in {"message", "configuration", "headers"}:
            Finish(r, from, a)
        \/ /\ UNCHANGED answer
           /\ \/ Goto(r, "message", "configuration")
              \/ Goto(r, "configuration",
                      IF checkIfLollipopIsEnabled(req[r].configuration)
                      THEN "headers" ELSE "client")
              \/ Goto(r, "headers", "reference")
    BY DEF getThirdPartyMessageFnApp, getRCConfiguration, LollipopRequiredHeaders, FinishWith,
           LollipopError
  <1> QED
    BY <1>1, <1>2, AnswerKeeps, GotoKeeps DEF Answers, Steps

LEMMA ReferenceKeeps ==
    ASSUME IInv, NEW r \in Requests,
           getLollipopAssertionRefForUser(r) \/ assertionRefOfIdentity(r)
    PROVE  Vouched(r)'
  <1>1. UNCHANGED <<key, req, current, lc, forwarded, served>>
    BY DEF getLollipopAssertionRefForUser, assertionRefOfIdentity, worldVars
  <1>2. CASE \E a \in {"403", "500"}: Finish(r, "reference", a) /\ UNCHANGED ref
    BY <1>1, <1>2, AnswerKeeps DEF Answers, Steps
  <1>3. ASSUME NEW k \in Keys, AskLCParams(r, k),
               IF Path(r) = "legacy" THEN k = key ELSE k = req[r].keyid
        PROVE  Vouched(r)'
    <2>1. /\ pc[r] = "reference" /\ pc'[r] = "lcParams" /\ ref'[r] = k
          /\ UNCHANGED answer
      BY <1>3 DEF AskLCParams, Goto, IInv, TypeOK
    <2>2. KeyInv(r)'
      BY <1>1, <1>3, <2>1 DEF IInv, KeyInv, StepInv, InFlight, Path
    <2>3. StepInv(r)'
      BY <1>1, <2>1, KeysAssumption DEF IInv, StepInv, Needs, Route
    <2>4. OutInv(r)'
      BY <1>1, <2>1 DEF IInv, OutInv, Needs, Route
    <2> QED
      BY <2>2, <2>3, <2>4 DEF Vouched
  <1>4. \/ \E a \in {"403", "500"}: Finish(r, "reference", a) /\ UNCHANGED ref
        \/ \E k \in Keys: /\ AskLCParams(r, k)
                         /\ IF Path(r) = "legacy" THEN k = key ELSE k = req[r].keyid
    <2>1. key \in Keys \union {NoKey} /\ req[r].token \in Keys
      BY RequestType DEF IInv, TypeOK
    <2>2. LollipopError(r, "403") \in {"403", "500"} /\ LollipopError(r, "500") = "500"
      BY DEF LollipopError
    <2> QED
      BY <2>1, <2>2 DEF getLollipopAssertionRefForUser, assertionRefOfIdentity,
                        getKeyThumbprintFromSignature
  <1> QED
    BY <1>2, <1>3, <1>4

LEMMA ParametersKeep ==
    ASSUME IInv, NEW r \in Requests, generateLCParams(r)
    PROVE  Vouched(r)'
  <1>1. UNCHANGED <<key, req, current, ref, forwarded, served>>
    BY DEF generateLCParams, worldVars
  <1>2. CASE \E a \in {"403", "500"}: Finish(r, "lcParams", a) /\ UNCHANGED lc
    BY <1>1, <1>2, AnswerKeeps DEF Answers, Steps
  <1>3. CASE /\ Goto(r, "lcParams", IF Route(r) = "sign" THEN "consumer" ELSE "client")
             /\ lc' = [lc EXCEPT ![r] = ref[r]]
             /\ UNCHANGED answer
    <2>1. /\ pc[r] = "lcParams" /\ lc'[r] = ref[r]
          /\ pc'[r] = IF Route(r) = "sign" THEN "consumer" ELSE "client"
      BY <1>3 DEF Goto, IInv, TypeOK
    <2>2. KeyInv(r)'
      BY <1>1, <2>1 DEF IInv, KeyInv, InFlight, Path
    <2>3. StepInv(r)'
      BY <1>1, <2>1 DEF IInv, StepInv, Needs, Route
    <2>4. OutInv(r)'
      BY <1>1, <1>3, <2>1 DEF IInv, OutInv, Needs, Route
    <2> QED
      BY <2>2, <2>3, <2>4 DEF Vouched
  <1> QED
    BY <1>2, <1>3 DEF generateLCParams, FinishWith, LollipopError

(* Calling a consumer hands over what the request holds, once. *)
LEMMA ForwardKeeps ==
    ASSUME IInv, NEW r \in Requests, Forward(r),
           pc[r] \in {"consumer", "client"},
           pc'[r] = IF pc[r] = "consumer" THEN "signing" ELSE "thirdParty",
           UNCHANGED <<key, req, current, ref, lc, answer, served>>
    PROVE  Vouched(r)'
  <1>1. KeyInv(r)'
    BY DEF IInv, KeyInv, InFlight, Path
  <1>2. StepInv(r)'
    BY DEF IInv, StepInv, Needs, Route
  <1>3. \A f \in forwarded': f.req = r => f.key = lc[r] /\ (f.key # NoKey <=> Needs(r))
    <2>1. lc[r] # NoKey <=> Needs(r)
      BY DEF IInv, StepInv
    <2> QED
      BY <2>1 DEF IInv, OutInv, Forward
  <1>4. answer[r] = "none"
    BY DEF IInv, OutInv, TypeOK
  <1>5. OutInv(r)'
    BY <1>3, <1>4 DEF OutInv, Needs, Route
  <1> QED
    BY <1>1, <1>2, <1>5 DEF Vouched

LEMMA ConsumerKeeps ==
    ASSUME IInv, NEW r \in Requests, firstLollipopSign(r) \/ getThirdPartyServiceClient(r)
    PROVE  Vouched(r)'
  <1>1. UNCHANGED <<key, req, current, ref, lc, served>>
    BY DEF firstLollipopSign, getThirdPartyServiceClient, worldVars
  <1>2. CASE Finish(r, "consumer", "400") /\ UNCHANGED forwarded
    BY <1>1, <1>2, AnswerKeeps DEF Answers, Steps
  <1>3. CASE Goto(r, "consumer", "signing") /\ Forward(r) /\ UNCHANGED answer
    BY <1>1, <1>3, ForwardKeeps DEF Goto, IInv, TypeOK
  <1>4. CASE Goto(r, "client", "thirdParty") /\ Forward(r) /\ UNCHANGED answer
    BY <1>1, <1>4, ForwardKeeps DEF Goto, IInv, TypeOK
  <1> QED
    BY <1>2, <1>3, <1>4 DEF firstLollipopSign, getThirdPartyServiceClient

(* What a valid response becomes is what the message promised. *)
LEMMA ValidIsPromised ==
    ASSUME TypeOK, NEW r \in Requests, Route(r) = "message", NEW c \in Replies(r),
           isValidResponse(req[r].message, c), ~req[r].message.fromPN
    PROVE  LET v == validateThirdPartyMessageResponse(req[r].message, c)
               m == req[r].message
           IN  /\ v.attachments = m.attachments
               /\ v.body = IF m.remote THEN "valid" ELSE "static"
  <1>1. req[r].message \in Message
    BY RequestType
  <1>2. c \in Content
    BY ContentType
  <1> QED
    BY <1>1, <1>2 DEF isValidResponse, validateThirdPartyMessageResponse, Message, Content

LEMMA ServeKeeps ==
    ASSUME IInv, NEW r \in Requests, NEW c \in Content, Serve(r, c),
           (Route(r) = "message" /\ ~req[r].message.fromPN) =>
               /\ c.attachments = req[r].message.attachments
               /\ c.body = IF req[r].message.remote THEN "valid" ELSE "static",
           UNCHANGED <<key, req, current, ref, lc, forwarded>>
    PROVE  Vouched(r)'
  <1>1. /\ pc[r] \in {"thirdParty", "download"} /\ pc'[r] = "done"
        /\ answer'[r] = "200" /\ served'[r] = c
    BY DEF Serve, Outside, Finish, Goto, IInv, TypeOK
  <1>2. KeyInv(r)'
    BY <1>1 DEF IInv, KeyInv, InFlight, Path
  <1>3. StepInv(r)'
    BY <1>1 DEF StepInv
  <1>4. OutInv(r)'
    BY <1>1 DEF IInv, OutInv, Needs, Route
  <1> QED
    BY <1>2, <1>3, <1>4 DEF Vouched

LEMMA ThirdPartyKeeps ==
    ASSUME IInv, NEW r \in Requests, Others(r)
    PROVE  Vouched(r)'
  <1>1. UNCHANGED <<key, req, current, ref, lc, forwarded>>
    BY OthersAnswer DEF worldVars
  <1>2. TypeOK
    BY DEF IInv
  <1>3. ASSUME NEW a \in Answers \ {"none", "200", "401"}, Refuse(r, a) PROVE Vouched(r)'
    BY <1>1, <1>3, AnswerKeeps DEF Refuse, Outside, Steps
  <1>5. CASE signMessageAnswers(r)
    <2>1. PICK a \in {"200", "500"}: Finish(r, "signing", a)
      BY <1>5 DEF signMessageAnswers, FinishWith
    <2>2. Route(r) = "sign" /\ UNCHANGED served
      BY <1>5, <2>1 DEF Finish, Goto, IInv, StepInv, signMessageAnswers
    <2> QED
      BY <1>1, <2>1, <2>2, AnswerKeeps DEF Answers, Steps
  <1>6. CASE Goto(r, "thirdParty", "download") /\ UNCHANGED <<answer, served>>
    <2>1. pc[r] = "thirdParty" /\ pc'[r] = "download"
      BY <1>6 DEF Goto, IInv, TypeOK
    <2>2. KeyInv(r)' /\ StepInv(r)'
      BY <1>1, <2>1 DEF IInv, KeyInv, StepInv, InFlight, Path, Needs, Route
    <2>3. OutInv(r)'
      BY <1>1, <1>6, <2>1 DEF IInv, OutInv, Needs, Route
    <2> QED
      BY <2>2, <2>3 DEF Vouched
  <1>4. ASSUME NEW c \in Replies(r),
               \/ getThirdPartyMessagePrecondition(r, c)
               \/ getThirdPartyMessage(r, c)
               \/ getThirdPartyAttachment(r, c)
        PROVE  Vouched(r)'
    <2>1. CASE Refuse(r, "502") \/ Refuse(r, "415")
      BY <1>3, <2>1 DEF Answers
    <2>2. CASE Route(r) # "message" /\ Serve(r, c)
      BY <1>1, <1>2, <2>2, ContentType, ServeKeeps
    <2>3. CASE /\ Route(r) = "message" /\ isValidResponse(req[r].message, c)
               /\ Serve(r, validateThirdPartyMessageResponse(req[r].message, c))
      BY <1>1, <1>2, <2>3, ContentType, ValidIsPromised, ServeKeeps
    <2> QED
      BY <1>4, <2>1, <2>2, <2>3
         DEF getThirdPartyMessagePrecondition, getThirdPartyMessage, getThirdPartyAttachment
  <1> QED
    BY <1>3, <1>4, <1>5, <1>6, OthersAnswer

-----------------------------------------------------------------------------
(* The inductive invariant and the theorems. *)

LEMMA InitIInv == Init => IInv
  <1> SUFFICES ASSUME Init, NEW r \in Requests PROVE KeyInv(r) /\ StepInv(r) /\ OutInv(r)
    BY InitType DEF IInv
  <1> QED
    BY DEF Init, KeyInv, StepInv, OutInv, InFlight

LEMMA Invariance == Safe => []IInv
  <1>1. ASSUME IInv, [Next]_vars PROVE IInv'
    <2>1. TypeOK'
      BY <1>1, TypeStep DEF IInv
    <2>2. ASSUME NEW r \in Requests PROVE Vouched(r)'
      <3>1. CASE SessionManager \/ Replication
        BY <1>1, <3>1, WorldStep
      <3>2. CASE Step(r)
        BY <1>1, <3>2, ArriveKeeps, AuthKeeps, LollipopKeeps, ReferenceKeeps, ParametersKeep,
           ConsumerKeeps, ThirdPartyKeeps DEF Step, Handle
      <3>3. ASSUME NEW q \in Requests \ {r}, Step(q) PROVE Vouched(r)'
        BY <1>1, <3>3, OthersKeep
      <3>4. CASE UNCHANGED vars
        BY <1>1, <3>4
           DEF vars, worldVars, IInv, Vouched, KeyInv, StepInv, OutInv, InFlight, Needs, Route, Path
      <3> QED
        BY <1>1, <3>1, <3>2, <3>3, <3>4 DEF Next, Step
    <2> QED
      BY <2>1, <2>2 DEF IInv, Vouched
  <1> QED
    BY InitIInv, <1>1, PTL DEF Safe

(* The requests and all they hold are well typed; no answer out of the     *)
(* specification of the API is given.                                      *)
THEOREM TypeCorrect == Safe => []TypeOK
  <1>1. IInv => TypeOK
    BY DEF IInv
  <1> QED
    BY <1>1, Invariance, PTL

(* For any number of logins and requests, a legacy request hands over only *)
(* a key that was the citizen's while it was handled.                      *)
THEOREM LegacyKey == Safe => []LegacyKeyWasCurrent
  <1>1. IInv => LegacyKeyWasCurrent
    BY DEF IInv, TypeOK, KeyInv, OutInv, LegacyKeyWasCurrent
  <1> QED
    BY <1>1, Invariance, PTL

(* A request of the identity path hands over only the key it names. *)
THEOREM IdentityKey == Safe => []IdentityKeySigned
  <1>1. IInv => IdentityKeySigned
    BY DEF IInv, TypeOK, KeyInv, OutInv, IdentityKeySigned, Path
  <1> QED
    BY <1>1, Invariance, PTL

(* Consumers are called with the lollipop parameters exactly when they     *)
(* require them.                                                           *)
THEOREM SignedWhenRequired == Safe => []SignedIffRequired
  <1>1. IInv => SignedIffRequired
    BY DEF IInv, TypeOK, OutInv, Needs, SignedIffRequired
  <1> QED
    BY <1>1, Invariance, PTL

(* No refusal of a service behind the backend reaches the app as 401. *)
THEOREM OwnUnauthorized == Safe => []UnauthorizedIsOurs
  <1>1. IInv => UnauthorizedIsOurs
    BY DEF IInv, OutInv, UnauthorizedIsOurs
  <1> QED
    BY <1>1, Invariance, PTL

(* Whatever a third party serves, the app gets what the message promised. *)
THEOREM PromisedIsServed == Safe => []ServedAsPromised
  <1>1. IInv => ServedAsPromised
    BY DEF IInv, OutInv, ServedAsPromised
  <1> QED
    BY <1>1, Invariance, PTL

-----------------------------------------------------------------------------
(* Handing over to a consumer. *)

Handed(r) == \E f \in forwarded: f.req = r

(* No consumer is called twice for a request: neither a new login while it *)
(* is handled nor any failure has the signature handed over again.         *)
OneHandover == \A f, g \in forwarded: f.req = g.req => f = g

(* Every handover carries the parameters its request holds, so two agree.  *)
THEOREM HandedOverOnce == Safe => []OneHandover
  <1>1. IInv => OneHandover
    <2> SUFFICES ASSUME IInv, NEW f \in forwarded, NEW g \in forwarded, f.req = g.req
                 PROVE  f = g
      BY DEF OneHandover
    <2>1. forwarded \subseteq [req: Requests, key: Keys \union {NoKey}]
      BY DEF IInv, TypeOK
    <2>2. f.key = lc[f.req] /\ g.key = lc[g.req]
      BY <2>1 DEF IInv, OutInv
    <2> QED
      BY <2>1, <2>2
  <1> QED
    BY <1>1, Invariance, PTL

(* The answers that the backend gives of its own, and those of a consumer. *)
EarlyAnswers == {"400", "401", "403", "404", "429", "500"}
ConsumerAnswers == {"200", "415", "502", "503"}

HandoverInv(r) ==
    /\ pc[r] \in {"signing", "thirdParty", "download"} => Handed(r)
    /\ answer[r] \in ConsumerAnswers => Handed(r)
    /\ (Route(r) = "sign" /\ Handed(r)) => answer[r] \in {"none", "200", "500"}

AllHandedOver == \A r \in Requests: HandoverInv(r)

\* A handler answers early, or hands over and says nothing yet.
LEMMA HandlersAnswerEarly ==
    ASSUME TypeOK, NEW r \in Requests, Arrive(r) \/ Handle(r)
    PROVE  /\ pc[r] \notin {"signing", "thirdParty", "download", "done"}
           /\ \/ /\ forwarded' = forwarded
                 /\ answer'[r] = answer[r] \/ answer'[r] \in EarlyAnswers
                 /\ pc'[r] \notin {"signing", "thirdParty", "download"}
              \/ answer' = answer /\ Handed(r)'
  <1> USE DEF TypeOK, Goto, Finish, FinishWith, LollipopError, EarlyAnswers
  <1>1. CASE Arrive(r)
    BY <1>1 DEF Arrive
  <1>2. CASE bearerSessionTokenStrategy(r) \/ xUserMiddleware(r)
    BY <1>2 DEF bearerSessionTokenStrategy, xUserMiddleware, Authenticated
  <1>3. CASE getThirdPartyMessageFnApp(r) \/ getRCConfiguration(r) \/ LollipopRequiredHeaders(r)
    BY <1>3 DEF getThirdPartyMessageFnApp, getRCConfiguration, LollipopRequiredHeaders
  <1>4. CASE getLollipopAssertionRefForUser(r) \/ assertionRefOfIdentity(r)
    BY <1>4 DEF getLollipopAssertionRefForUser, assertionRefOfIdentity, AskLCParams
  <1>5. CASE generateLCParams(r)
    BY <1>5 DEF generateLCParams
  <1>6. CASE firstLollipopSign(r) \/ getThirdPartyServiceClient(r)
    <2>0. pc[r] \in {"consumer", "client"}
      BY <1>6 DEF firstLollipopSign, getThirdPartyServiceClient
    <2>1. ASSUME Forward(r) PROVE Handed(r)'
      <3> DEFINE f == [req |-> r, key |-> lc[r]]
      <3>1. f \in forwarded' /\ f.req = r
        BY <2>1 DEF Forward
      <3> QED
        BY <3>1 DEF Handed
    <2>2. CASE Forward(r) /\ answer' = answer
      BY <2>0, <2>1, <2>2
    <2>3. CASE Finish(r, "consumer", "400") /\ forwarded' = forwarded
      BY <2>0, <2>3
    <2> QED
      BY <1>6, <2>2, <2>3 DEF firstLollipopSign, getThirdPartyServiceClient
  <1> QED
    BY <1>1, <1>2, <1>3, <1>4, <1>5, <1>6 DEF Handle

\* Others answer what was handed over to them.
LEMMA OthersAnswerLate ==
    ASSUME TypeOK, NEW r \in Requests, Others(r)
    PROVE  /\ pc[r] \in {"signing", "thirdParty", "download"} /\ forwarded' = forwarded
           /\ pc[r] = "signing" => answer'[r] \in {"200", "500"}
  <1> USE DEF TypeOK, Goto, Finish, FinishWith
  <1>1. forwarded' = forwarded
    BY OthersAnswer
  <1>2. CASE signMessageAnswers(r)
    BY <1>1, <1>2 DEF signMessageAnswers
  <1>3. CASE ThirdPartyAnswers(r) \/ redirectAttachment(r) \/ downloadAnswers(r)
    BY <1>1, <1>3 DEF ThirdPartyAnswers, redirectAttachment, downloadAnswers
  <1> QED
    BY <1>2, <1>3 DEF Others

LEMMA HandoverStep == IInv /\ AllHandedOver /\ [Next]_vars => AllHandedOver'
  <1> SUFFICES ASSUME IInv, AllHandedOver, [Next]_vars, NEW r \in Requests
               PROVE  HandoverInv(r)'
    BY DEF AllHandedOver
  <1>0. TypeOK /\ StepInv(r) /\ OutInv(r) /\ HandoverInv(r)
    BY DEF IInv, AllHandedOver
  <1>1. ASSUME pc'[r] = pc[r], answer'[r] = answer[r], req' = req, Handed(r)' <=> Handed(r)
        PROVE  HandoverInv(r)'
    BY <1>0, <1>1 DEF HandoverInv, Route
  <1>2. CASE UNCHANGED vars
    BY <1>1, <1>2 DEF vars, Handed
  <1>3. CASE SessionManager \/ Replication
    <2>1. UNCHANGED <<pc, req, answer, forwarded>>
      BY <1>3 DEF SessionManager, Replication, LoginWritesKey, LoginWritesSession, SessionGone,
                  KeyGone, ReplicateSessions, ReplicateKey, KeepRequests
    <2> QED
      BY <1>1, <2>1 DEF Handed
  <1>4. ASSUME NEW q \in Requests, Step(q), q # r PROVE HandoverInv(r)'
    <2>1. req' = req /\ pc'[r] = pc[r] /\ answer'[r] = answer[r]
      BY <1>0, <1>4, OnlyItself
    <2>2. Handed(r)' <=> Handed(r)
      BY <1>0, <1>4, OnlyItself DEF Handed
    <2> QED
      BY <1>1, <2>1, <2>2
  <1>5. ASSUME Step(r) PROVE req' = req /\ (Handed(r) => Handed(r)')
    BY <1>0, <1>5, OnlyItself DEF Handed
  <1>6. CASE Arrive(r) \/ Handle(r)
    <2>1. ~Handed(r)
      BY <1>0, <1>6, HandlersAnswerEarly DEF OutInv, Handed
    <2>2. answer[r] = "none"
      BY <1>0, <1>6, HandlersAnswerEarly DEF OutInv
    <2>3. CASE /\ forwarded' = forwarded
               /\ answer'[r] = answer[r] \/ answer'[r] \in EarlyAnswers
               /\ pc'[r] \notin {"signing", "thirdParty", "download"}
      <3>1. ~Handed(r)'
        BY <2>1, <2>3 DEF Handed
      <3> QED
        BY <2>2, <2>3, <3>1 DEF HandoverInv, EarlyAnswers, ConsumerAnswers
    <2>4. CASE answer' = answer /\ Handed(r)'
      BY <2>2, <2>4 DEF HandoverInv, ConsumerAnswers
    <2> QED
      BY <1>0, <1>6, <2>3, <2>4, HandlersAnswerEarly
  <1>7. CASE Others(r)
    <2>1. Handed(r) /\ Handed(r)'
      BY <1>0, <1>5, <1>7, OthersAnswerLate DEF HandoverInv, Step
    <2>2. Route(r)' = "sign" => answer'[r] \in {"200", "500"}
      BY <1>0, <1>5, <1>7, OthersAnswerLate DEF StepInv, Route, Step
    <2> QED
      BY <2>1, <2>2 DEF HandoverInv
  <1> QED
    BY <1>2, <1>3, <1>4, <1>6, <1>7 DEF Next, Step

(* A success, and every error that speaks of what a consumer answered, is  *)
(* told only for a request that was handed over; and a signature that was  *)
(* handed over is answered by success or by 500, never by an error that    *)
(* says the request was refused.                                           *)
AnswersTellHandover ==
    \A r \in Requests:
        /\ answer[r] \in ConsumerAnswers => Handed(r)
        /\ (Route(r) = "sign" /\ Handed(r)) => answer[r] \in {"none", "200", "500"}

(* Whatever fails, on whichever route, before the handover or after it.    *)
THEOREM HandoverIsTold == Safe => []AnswersTellHandover
  <1>1. Init => AllHandedOver
    BY DEF Init, AllHandedOver, HandoverInv, Handed, ConsumerAnswers
  <1>2. AllHandedOver => AnswersTellHandover
    BY DEF AllHandedOver, HandoverInv, AnswersTellHandover
  <1> QED
    BY <1>1, <1>2, HandoverStep, Invariance, PTL DEF Safe

-----------------------------------------------------------------------------
(* Every request is answered. *)

(* The steps that wait for Redis or for the platform, whose clients time   *)
(* out.                                                                    *)
HandlerSteps == {"auth", "message", "configuration", "headers", "reference",
                 "lcParams", "consumer", "client"}
Handled(r) == pc[r] \in HandlerSteps

(* Each of them has a way out, whatever is read: the only fact about       *)
(* ENABLED the argument needs.                                             *)
HandledIsEnabled == \A r \in Requests: Handled(r) => ENABLED <<Handle(r)>>_vars

\* Where a handler goes from each step: forward, or out.
LEMMA HandleMoves ==
    ASSUME TypeOK, NEW r \in Requests, Handle(r)
    PROVE  \/ pc'[r] = "done"
           \/ pc[r] = "auth" /\ pc'[r] \in {"message", "headers"}
           \/ pc[r] = "message" /\ pc'[r] = "configuration"
           \/ pc[r] = "configuration" /\ pc'[r] \in {"headers", "client"}
           \/ pc[r] = "headers" /\ pc'[r] = "reference"
           \/ pc[r] = "reference" /\ pc'[r] = "lcParams"
           \/ pc[r] = "lcParams" /\ pc'[r] \in {"consumer", "client"}
           \/ pc[r] = "consumer" /\ pc'[r] = "signing"
           \/ pc[r] = "client" /\ pc'[r] = "thirdParty"
  <1> USE DEF TypeOK, Goto, Finish, FinishWith
  <1>1. CASE bearerSessionTokenStrategy(r) \/ xUserMiddleware(r)
    BY <1>1 DEF bearerSessionTokenStrategy, xUserMiddleware, Authenticated
  <1>2. CASE getThirdPartyMessageFnApp(r) \/ getRCConfiguration(r) \/ LollipopRequiredHeaders(r)
    BY <1>2 DEF getThirdPartyMessageFnApp, getRCConfiguration, LollipopRequiredHeaders
  <1>3. CASE getLollipopAssertionRefForUser(r) \/ assertionRefOfIdentity(r)
    BY <1>3 DEF getLollipopAssertionRefForUser, assertionRefOfIdentity, AskLCParams
  <1>4. CASE generateLCParams(r)
    BY <1>4 DEF generateLCParams
  <1>5. CASE firstLollipopSign(r) \/ getThirdPartyServiceClient(r)
    BY <1>5 DEF firstLollipopSign, getThirdPartyServiceClient
  <1> QED
    BY <1>1, <1>2, <1>3, <1>4, <1>5 DEF Handle

\* Only its handler moves a request from one of these steps.
LEMMA HandledStays ==
    ASSUME TypeOK, [Next]_vars, NEW r \in Requests, Handled(r)
    PROVE  Handle(r) \/ pc'[r] = pc[r]
  <1>1. CASE UNCHANGED vars
    BY <1>1 DEF vars
  <1>2. CASE SessionManager \/ Replication
    BY <1>2 DEF SessionManager, Replication, LoginWritesKey, LoginWritesSession, SessionGone,
                KeyGone, ReplicateSessions, ReplicateKey, KeepRequests
  <1>3. ASSUME NEW q \in Requests, Step(q), q # r PROVE pc'[r] = pc[r]
    BY <1>3, OnlyItself
  <1>4. ~Arrive(r)
    BY DEF Arrive, Goto, Handled, HandlerSteps
  <1>5. ~Others(r)
    <2>1. pc[r] \notin Outside \union {"signing"}
      BY DEF Handled, HandlerSteps, Outside
    <2> QED BY <2>1 DEF Others, signMessageAnswers, FinishWith, Finish, Goto, ThirdPartyAnswers,
                        redirectAttachment, downloadAnswers, Outside
  <1> QED
    BY <1>1, <1>2, <1>3, <1>4, <1>5 DEF Next, Step

At(r, step) == pc[r] = step
Leaves(r) == pc[r] \in {"done", "thirdParty", "signing"}

(* Provided each step of the handlers has a way out, fairness of the       *)
(* handlers alone has every request answered, or handed to a consumer:     *)
(* sessions, keys and replicas may come and go as they like meanwhile.     *)
THEOREM RequestsAreAnswered == Spec /\ []HandledIsEnabled => RequestsAnswered
<1>1. ASSUME NEW r \in Requests
      PROVE  Spec /\ []HandledIsEnabled => (At(r, "auth") ~> Leaves(r))
  <2>1. TypeOK /\ At(r, "auth") /\ <<Handle(r)>>_vars => At(r, "message")' \/ At(r, "headers")' \/ Leaves(r)'
    BY HandleMoves DEF At, Leaves
  <2>2. TypeOK /\ At(r, "message") /\ <<Handle(r)>>_vars => At(r, "configuration")' \/ Leaves(r)'
    BY HandleMoves DEF At, Leaves
  <2>3. TypeOK /\ At(r, "configuration") /\ <<Handle(r)>>_vars => At(r, "headers")' \/ At(r, "client")' \/ Leaves(r)'
    BY HandleMoves DEF At, Leaves
  <2>4. TypeOK /\ At(r, "headers") /\ <<Handle(r)>>_vars => At(r, "reference")' \/ Leaves(r)'
    BY HandleMoves DEF At, Leaves
  <2>5. TypeOK /\ At(r, "reference") /\ <<Handle(r)>>_vars => At(r, "lcParams")' \/ Leaves(r)'
    BY HandleMoves DEF At, Leaves
  <2>6. TypeOK /\ At(r, "lcParams") /\ <<Handle(r)>>_vars => At(r, "consumer")' \/ At(r, "client")' \/ Leaves(r)'
    BY HandleMoves DEF At, Leaves
  <2>7. TypeOK /\ At(r, "consumer") /\ <<Handle(r)>>_vars => Leaves(r)'
    BY HandleMoves DEF At, Leaves
  <2>8. TypeOK /\ At(r, "client") /\ <<Handle(r)>>_vars => Leaves(r)'
    BY HandleMoves DEF At, Leaves
  <2>9. TypeOK /\ At(r, "auth") /\ [Next]_vars => At(r, "auth")' \/ At(r, "message")' \/ At(r, "headers")' \/ Leaves(r)'
    BY HandledStays, HandleMoves DEF At, Leaves, Handled, HandlerSteps
  <2>10. TypeOK /\ At(r, "message") /\ [Next]_vars => At(r, "message")' \/ At(r, "configuration")' \/ Leaves(r)'
    BY HandledStays, HandleMoves DEF At, Leaves, Handled, HandlerSteps
  <2>11. TypeOK /\ At(r, "configuration") /\ [Next]_vars => At(r, "configuration")' \/ At(r, "headers")' \/ At(r, "client")' \/ Leaves(r)'
    BY HandledStays, HandleMoves DEF At, Leaves, Handled, HandlerSteps
  <2>12. TypeOK /\ At(r, "headers") /\ [Next]_vars => At(r, "headers")' \/ At(r, "reference")' \/ Leaves(r)'
    BY HandledStays, HandleMoves DEF At, Leaves, Handled, HandlerSteps
  <2>13. TypeOK /\ At(r, "reference") /\ [Next]_vars => At(r, "reference")' \/ At(r, "lcParams")' \/ Leaves(r)'
    BY HandledStays, HandleMoves DEF At, Leaves, Handled, HandlerSteps
  <2>14. TypeOK /\ At(r, "lcParams") /\ [Next]_vars => At(r, "lcParams")' \/ At(r, "consumer")' \/ At(r, "client")' \/ Leaves(r)'
    BY HandledStays, HandleMoves DEF At, Leaves, Handled, HandlerSteps
  <2>15. TypeOK /\ At(r, "consumer") /\ [Next]_vars => At(r, "consumer")' \/ Leaves(r)'
    BY HandledStays, HandleMoves DEF At, Leaves, Handled, HandlerSteps
  <2>16. TypeOK /\ At(r, "client") /\ [Next]_vars => At(r, "client")' \/ Leaves(r)'
    BY HandledStays, HandleMoves DEF At, Leaves, Handled, HandlerSteps
  <2>17. HandledIsEnabled /\ (At(r, "auth") \/ At(r, "message") \/ At(r, "configuration") \/ At(r, "headers")
           \/ At(r, "reference") \/ At(r, "lcParams") \/ At(r, "consumer") \/ At(r, "client"))
         => ENABLED <<Handle(r)>>_vars
    BY DEF HandledIsEnabled, Handled, HandlerSteps, At
  <2>18. Spec => GoesOn(r)
    BY DEF Spec, Fairness
  <2>19. GoesOn(r) => []<>(~ENABLED <<Handle(r)>>_vars) \/ []<><<Handle(r)>>_vars
    BY PTL DEF GoesOn
  <2>20. Spec /\ []HandledIsEnabled => (At(r, "consumer") \/ At(r, "client") ~> Leaves(r))
    BY <2>7, <2>8, <2>15, <2>16, <2>17, <2>18, <2>19, TypeCorrect, PTL DEF Spec, Safe
  <2>21. Spec /\ []HandledIsEnabled => (At(r, "lcParams") ~> Leaves(r))
    BY <2>6, <2>14, <2>17, <2>18, <2>19, <2>20, TypeCorrect, PTL DEF Spec, Safe
  <2>22. Spec /\ []HandledIsEnabled => (At(r, "headers") ~> Leaves(r))
    BY <2>4, <2>5, <2>12, <2>13, <2>17, <2>18, <2>19, <2>21, TypeCorrect, PTL DEF Spec, Safe
  <2>23. Spec /\ []HandledIsEnabled => (At(r, "message") ~> Leaves(r))
    BY <2>2, <2>3, <2>10, <2>11, <2>17, <2>18, <2>19, <2>20, <2>22, TypeCorrect, PTL DEF Spec, Safe
  <2> QED BY <2>1, <2>9, <2>17, <2>18, <2>19, <2>22, <2>23, TypeCorrect, PTL DEF Spec, Safe
<1>2. Spec /\ []HandledIsEnabled => \A r \in Requests: (At(r, "auth") ~> Leaves(r))
  BY <1>1
<1> QED BY <1>2 DEF RequestsAnswered, At, Leaves
=============================================================================
