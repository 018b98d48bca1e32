----------------------- MODULE SessionStorage_proofs -----------------------
(***************************************************************************)
(* Proofs about SessionStorage, for any tokens, calls and workloads.       *)
(***************************************************************************)
EXTENDS SessionStorage, FiniteSetTheorems, TLAPS

(* The auxiliary variables mean what they say, at any moment of a call. *)
AuxInv ==
    /\ ~ work.lag => replica = primary
    /\ \A c \in Calls:
         /\ \A t \in settled[c]: Settled(t)
         /\ \A t \in dead[c]: Dead(t)

(* A session that stays live is among the members a call read, and every   *)
(* answer about it says so or is an error; one that stays dead is never    *)
(* answered for.                                                           *)
AskInv(c) ==
    /\ pc[c] = "infos" =>
         \A t \in settled[c]: t \in asked[c] /\ got[c][t] # "absent"
    /\ pc[c] = "sessions" =>
         /\ \A t \in settled[c] \ Malformed: t \in asked[c] /\ got[c][t] # "absent"
         /\ \A t \in dead[c]: got[c][t] # "present"

(* What the caller of userHasActiveSessions may conclude from its result. *)
ResultInv(c) ==
    work.op[c] = "userHasActiveSessions" =>
        /\ pc[c] # "lollipop"
        /\ result[c] = "false" => settled[c] \subseteq Malformed
        /\ result[c] = "true" => dead[c] # Tokens
        /\ pc[c] = "idle" => result[c] = "none"

(* A cleanup is about to remove a live session only after a failed check. *)
CleanInv(c) ==
    /\ pc[c] = "exists" => \A t \in settled[c]: got[c][t] # "absent"
    /\ pc[c] = "removals" =>
         \A t \in asked[c] \intersect settled[c]: got[c][t] = "error"

CallInv(c) == AskInv(c) /\ ResultInv(c) /\ CleanInv(c)

IInv == TypeOK /\ AuxInv /\ \A c \in Calls: CallInv(c)

-----------------------------------------------------------------------------
(* Typing. *)

LEMMA InitType == Init => TypeOK
  <1> SUFFICES ASSUME Init PROVE TypeOK
    OBVIOUS
  <1> USE DEF Init
  <1>1. NoAnswer \in [Tokens -> Answers]
    BY DEF NoAnswer, Answers
  <1> QED
    BY <1>1 DEF TypeOK, Results, Steps

LEMMA StoreType ==
    ASSUME TypeOK, NEW k \in Kinds, NEW T \in SUBSET Tokens, Store(k, T)
    PROVE  primary' \in [Kinds -> SUBSET Tokens] /\ replica' \in [Kinds -> SUBSET Tokens]
  BY DEF Store, TypeOK

(* Giving out questions, collecting answers and returning keep the types. *)
LEMMA AskType ==
    ASSUME TypeOK, NEW c \in Calls, NEW T \in SUBSET Tokens, Ask(c, T)
    PROVE  asked' \in [Calls -> SUBSET Tokens] /\ got' \in [Calls -> [Tokens -> Answers]]
  <1>1. NoAnswer \in [Tokens -> Answers]
    BY DEF NoAnswer, Answers
  <1> QED
    BY <1>1 DEF Ask, TypeOK

LEMMA AnswerType ==
    ASSUME TypeOK, NEW c \in Calls, NEW t \in Tokens, NEW a \in Answers, Answer(c, t, a)
    PROVE  got' \in [Calls -> [Tokens -> Answers]]
  <1>1. [got[c] EXCEPT ![t] = a] \in [Tokens -> Answers]
    BY DEF TypeOK
  <1> QED
    BY <1>1 DEF Answer, TypeOK

LEMMA ReturnType ==
    ASSUME TypeOK, NEW c \in Calls, NEW from, NEW r \in Results, Return(c, from, r)
    PROVE  /\ pc' \in [Calls -> Steps]
           /\ result' \in [Calls -> Results]
  BY DEF Return, Goto, TypeOK, Steps

LEMMA TypeStep == TypeOK /\ [Next]_vars => TypeOK'
  <1> SUFFICES ASSUME TypeOK, [Next]_vars PROVE TypeOK'
    OBVIOUS
  <1> USE WorkloadsAssumption, TokensAssumption
  <1> USE DEF TypeOK, keys, external, callVars, auxVars
  <1>1. CASE Replication
    BY <1>1 DEF Replication, ReplicateKey, ReplicateIndex, Replicate, Kinds
  <1>2. CASE LollipopGone
    BY <1>2 DEF LollipopGone
  <1>3. ASSUME NEW t \in Tokens, NEW v \in work.types, WriteLollipop(t, v) PROVE TypeOK'
    <2>1. v \in LoginTypes
      BY DEF Workload
    <2> QED
      BY <1>3, <2>1 DEF WriteLollipop
  <1>4. ASSUME NEW t \in Tokens,
               WriteSession(t) \/ WriteInfo(t) \/ WriteIndex(t)
        PROVE  TypeOK'
    <2>1. \E k \in Kinds: Store(k, primary[k] \union {t})
      BY <1>4 DEF WriteSession, WriteInfo, WriteIndex, Kinds
    <2>2. primary' \in [Kinds -> SUBSET Tokens] /\ replica' \in [Kinds -> SUBSET Tokens]
      BY <2>1, StoreType
    <2>3. dead' \in [Calls -> SUBSET Tokens]
      BY <1>4 DEF WriteSession, WriteInfo, WriteIndex
    <2> QED
      BY <1>4, <2>2, <2>3 DEF WriteSession, WriteInfo, WriteIndex
  <1>5. ASSUME NEW t \in Tokens, SessionGone(t) \/ InfoGone(t)
        PROVE  TypeOK'
    BY <1>5 DEF SessionGone, InfoGone, Store, Kinds, Unsettle
  <1>6. ASSUME NEW c \in Calls, Call(c) PROVE TypeOK'
    BY <1>6 DEF Call, Goto, Steps
  <1>7. ASSUME NEW c \in Calls,
               getLollipopDataForUser(c) \/ userHasActiveSessions(c)
                 \/ clearExpiredSetValues(c) \/ setBlockedUser(c) \/ unsetBlockedUser(c)
        PROVE  TypeOK'
    <2>1. PICK from \in Steps, r \in Results:
            Return(c, from, r) \/ (Goto(c, from, "members") /\ UNCHANGED result)
      BY <1>7 DEF getLollipopDataForUser, userHasActiveSessions, clearExpiredSetValues,
                  setBlockedUser, unsetBlockedUser, Results, Steps
    <2>2. pc' \in [Calls -> Steps] /\ result' \in [Calls -> Results]
      BY <2>1, ReturnType DEF Goto, Steps
    <2> QED
      BY <1>7, <2>2 DEF getLollipopDataForUser, userHasActiveSessions,
                  clearExpiredSetValues, setBlockedUser, unsetBlockedUser
  <1>8. ASSUME NEW c \in Calls,
               readSessionInfoKeys(c) \/ readSetMembers(c) \/ parseUserSessionList(c)
        PROVE  TypeOK'
    <2>1. /\ \/ UNCHANGED <<asked, got>>
             \/ \E T \in SUBSET Tokens: Ask(c, T)
          /\ \/ \E from \in Steps, r \in Results: Return(c, from, r)
             \/ (\E from \in Steps: Goto(c, from, "infos") \/ Goto(c, from, "sessions")
                                     \/ Goto(c, from, "exists")) /\ UNCHANGED result
          /\ UNCHANGED <<keys, external, blocked, auxVars>>
      BY <1>8 DEF readSessionInfoKeys, readSetMembers, parseUserSessionList, FastMembers,
                  GotFrom, Results, Kinds, Steps
    <2>2. asked' \in [Calls -> SUBSET Tokens] /\ got' \in [Calls -> [Tokens -> Answers]]
      BY <2>1, AskType
    <2>3. pc' \in [Calls -> Steps] /\ result' \in [Calls -> Results]
      BY <2>1, ReturnType DEF Goto, Steps
    <2> QED
      BY <2>1, <2>2, <2>3
  <1>10. ASSUME NEW c \in Calls, NEW t \in Tokens,
                mGetInfo(c, t) \/ mGetSession(c, t) \/ existsReply(c, t)
         PROVE  TypeOK'
    <2>1. /\ \E a \in Answers: Answer(c, t, a)
          /\ UNCHANGED <<keys, external, blocked, pc, asked, result, auxVars>>
      BY <1>10 DEF mGetInfo, mGetSession, mGetReply, existsReply, FastRead, Existence,
                   Answers
    <2> QED
      BY <2>1, AnswerType
  <1>11. ASSUME NEW c \in Calls, NEW t \in Tokens, RemoveMember(c, t) PROVE TypeOK'
    BY <1>11 DEF RemoveMember, Store, Kinds, Unsettle
  <1>12. ASSUME NEW c \in Calls, filterExpired(c) PROVE TypeOK'
    BY <1>12 DEF filterExpired, toRemove, GotFrom, Goto, Steps
  <1>13. CASE UNCHANGED vars
    BY <1>13 DEF vars
  <1> QED
    BY <1>1, <1>2, <1>3, <1>4, <1>5, <1>6, <1>7, <1>8, <1>10, <1>11, <1>12, <1>13
       DEF Next, SessionManager, Reply

-----------------------------------------------------------------------------
(* The auxiliary variables. *)

(* A step that begins no call only takes sessions out of settled and dead. *)
Shrinks ==
    \A d \in Calls: settled'[d] \subseteq settled[d] /\ dead'[d] \subseteq dead[d]

LEMMA KeepsAux ==
    ASSUME AuxInv, Shrinks, UNCHANGED <<work, primary, replica>>
    PROVE  AuxInv'
  BY DEF AuxInv, Shrinks, Settled, Dead

LEMMA AuxStep == TypeOK /\ AuxInv /\ [Next]_vars => AuxInv'
  <1> SUFFICES ASSUME TypeOK, AuxInv, [Next]_vars PROVE AuxInv'
    OBVIOUS
  <1> USE DEF keys, external, callVars, auxVars
  <1>1. ASSUME NEW k \in Kinds, NEW T \in SUBSET Tokens, Replicate(k, T),
               primary[k] \intersect replica[k] \subseteq T,
               T \subseteq primary[k] \union replica[k]
        PROVE  AuxInv'
    BY <1>1 DEF Replicate, AuxInv, TypeOK, Settled, Dead, Kinds
  <1>2. CASE Replication
    <2>1. ASSUME NEW k \in Kinds, NEW t \in Tokens, ReplicateKey(k, t) PROVE AuxInv'
      <3> DEFINE T == IF t \in primary[k] THEN replica[k] \union {t} ELSE replica[k] \ {t}
      <3>1. T \in SUBSET Tokens
        BY DEF TypeOK
      <3>2. primary[k] \intersect replica[k] \subseteq T
        OBVIOUS
      <3>3. T \subseteq primary[k] \union replica[k]
        OBVIOUS
      <3> HIDE DEF T
      <3>4. Replicate(k, T)
        BY <2>1 DEF ReplicateKey, T
      <3> QED
        BY <1>1, <3>1, <3>2, <3>3, <3>4
    <2>2. CASE ReplicateIndex
      <3>1. "USERSESSIONS" \in Kinds /\ primary["USERSESSIONS"] \in SUBSET Tokens
        BY DEF Kinds, TypeOK
      <3> QED
        BY <1>1, <2>2, <3>1 DEF ReplicateIndex
    <2> QED
      BY <1>2, <2>1, <2>2 DEF Replication
  <1>3. ASSUME NEW t \in Tokens, NEW v, WriteLollipop(t, v) PROVE AuxInv'
    BY <1>3, KeepsAux DEF WriteLollipop, Shrinks
  <1>4. CASE LollipopGone
    BY <1>4, KeepsAux DEF LollipopGone, Shrinks
  <1>5. ASSUME NEW t \in Tokens, WriteSession(t) PROVE AuxInv'
    BY <1>5 DEF WriteSession, Store, AuxInv, TypeOK, Settled, Dead, Kinds
  <1>6. ASSUME NEW t \in Tokens, WriteInfo(t) PROVE AuxInv'
    BY <1>6 DEF WriteInfo, Store, AuxInv, TypeOK, Settled, Dead, Kinds
  <1>7. ASSUME NEW t \in Tokens, WriteIndex(t) PROVE AuxInv'
    BY <1>7 DEF WriteIndex, Store, AuxInv, TypeOK, Settled, Dead, Kinds
  <1>8. ASSUME NEW t \in Tokens, SessionGone(t) PROVE AuxInv'
    BY <1>8 DEF SessionGone, Unsettle, Store, AuxInv, TypeOK, Settled, Dead, Kinds
  <1>9. ASSUME NEW t \in Tokens, InfoGone(t) PROVE AuxInv'
    BY <1>9 DEF InfoGone, Unsettle, Store, AuxInv, TypeOK, Settled, Dead, Kinds
  <1>10. ASSUME NEW c \in Calls, NEW t \in Tokens, RemoveMember(c, t) PROVE AuxInv'
    <2>1. CASE UNCHANGED <<primary, replica, settled>>
      BY <1>10, <2>1, KeepsAux DEF RemoveMember, Shrinks
    <2>2. CASE Store("USERSESSIONS", primary["USERSESSIONS"] \ {t}) /\ Unsettle(t)
      BY <1>10, <2>2 DEF RemoveMember, Unsettle, Store, AuxInv, TypeOK, Settled, Dead, Kinds
    <2> QED
      BY <1>10, <2>1, <2>2 DEF RemoveMember
  <1>11. ASSUME NEW c \in Calls, Call(c) PROVE AuxInv'
    BY <1>11 DEF Call, AuxInv, TypeOK, Settled, Dead
  <1>12. ASSUME NEW c \in Calls, Reply(c), \A t \in Tokens: ~ RemoveMember(c, t)
         PROVE  AuxInv'
    <2>1. UNCHANGED <<work, primary, replica, settled, dead>>
      BY <1>12 DEF Reply, getLollipopDataForUser, readSessionInfoKeys, mGetInfo, mGetSession,
                   mGetReply, parseUserSessionList, userHasActiveSessions, readSetMembers,
                   existsReply, filterExpired, clearExpiredSetValues, setBlockedUser,
                   unsetBlockedUser
    <2> QED
      BY <2>1, KeepsAux DEF Shrinks
  <1>13. CASE UNCHANGED vars
    BY <1>13, KeepsAux DEF vars, Shrinks
  <1> QED
    BY <1>2, <1>3, <1>4, <1>5, <1>6, <1>7, <1>8, <1>9, <1>10, <1>11, <1>12, <1>13
       DEF Next, SessionManager

-----------------------------------------------------------------------------
(* The calls. *)

(* What others do leaves a call's invariant alone. *)
LEMMA Frame ==
    ASSUME TypeOK, NEW d \in Calls, CallInv(d), work' = work,
           pc'[d] = pc[d], asked'[d] = asked[d], got'[d] = got[d], result'[d] = result[d],
           settled'[d] \subseteq settled[d], dead'[d] \subseteq dead[d]
    PROVE  CallInv(d)'
  <1>1. AskInv(d)'
    BY DEF CallInv, AskInv
  <1>2. ResultInv(d)'
    <2>1. dead[d] # Tokens => dead'[d] # Tokens
      BY DEF TypeOK
    <2> QED
      BY <2>1 DEF CallInv, ResultInv
  <1>3. CleanInv(d)'
    BY DEF CallInv, CleanInv
  <1> QED
    BY <1>1, <1>2, <1>3 DEF CallInv

(* A reply to a call leaves the others alone. *)
LEMMA OnlyItself ==
    ASSUME TypeOK, NEW c \in Calls, Reply(c)
    PROVE  /\ work' = work /\ Shrinks
           /\ \A d \in Calls \ {c}:
                /\ pc'[d] = pc[d] /\ asked'[d] = asked[d]
                /\ got'[d] = got[d] /\ result'[d] = result[d]
  <1> USE DEF keys, external, callVars, auxVars
  <1>1. /\ work' = work /\ dead' = dead
        /\ settled' = settled \/ \E t \in Tokens: Unsettle(t)
        /\ pc' = pc \/ \E k: pc' = [pc EXCEPT ![c] = k]
        /\ asked' = asked \/ \E T: asked' = [asked EXCEPT ![c] = T]
        /\ got' = got \/ (\E g: got' = [got EXCEPT ![c] = g])
                      \/ (\E t, a: got' = [got EXCEPT ![c][t] = a])
        /\ result' = result \/ \E r: result' = [result EXCEPT ![c] = r]
    <2> USE DEF Return, Goto, Ask, Answer
    <2>1. CASE getLollipopDataForUser(c) \/ readSessionInfoKeys(c)
      BY <2>1 DEF getLollipopDataForUser, readSessionInfoKeys
    <2>2. CASE \E t \in Tokens: mGetInfo(c, t) \/ mGetSession(c, t) \/ existsReply(c, t)
      BY <2>2 DEF mGetInfo, mGetSession, mGetReply, existsReply
    <2>3. CASE parseUserSessionList(c) \/ userHasActiveSessions(c) \/ readSetMembers(c)
      BY <2>3 DEF parseUserSessionList, userHasActiveSessions, readSetMembers
    <2>4. CASE filterExpired(c) \/ \E t \in Tokens: RemoveMember(c, t)
      BY <2>4 DEF filterExpired, RemoveMember
    <2>5. CASE clearExpiredSetValues(c) \/ setBlockedUser(c) \/ unsetBlockedUser(c)
      BY <2>5 DEF clearExpiredSetValues, setBlockedUser, unsetBlockedUser
    <2> QED
      BY <2>1, <2>2, <2>3, <2>4, <2>5 DEF Reply
  <1>2. Shrinks
    BY <1>1 DEF Unsettle, Shrinks
  <1> QED
    BY <1>1, <1>2 DEF TypeOK

LEMMA CallStep == IInv /\ [Next]_vars => \A c \in Calls: CallInv(c)'
  <1> SUFFICES ASSUME IInv, [Next]_vars PROVE \A c \in Calls: CallInv(c)'
    OBVIOUS
  <1> USE DEF keys, external, callVars, auxVars
  <1>0. TypeOK /\ AuxInv /\ \A c \in Calls: CallInv(c)
    BY DEF IInv
  <1>1. ASSUME UNCHANGED <<work, callVars>>, Shrinks PROVE \A c \in Calls: CallInv(c)'
    BY <1>0, <1>1, Frame DEF Shrinks
  <1>2. CASE Replication \/ SessionManager \/ UNCHANGED vars
    <2>1. UNCHANGED <<work, callVars>>
      BY <1>2 DEF Replication, ReplicateKey, ReplicateIndex, Replicate, SessionManager,
                  WriteLollipop, WriteSession, WriteInfo, WriteIndex, SessionGone, InfoGone,
                  LollipopGone, vars
    <2>2. /\ settled' = settled \/ \E t \in Tokens: Unsettle(t)
          /\ dead' = dead \/ \E t \in Tokens: dead' = [c \in Calls |-> dead[c] \ {t}]
      BY <1>2 DEF Replication, ReplicateKey, ReplicateIndex, Replicate, SessionManager,
                  WriteLollipop, WriteSession, WriteInfo, WriteIndex, SessionGone, InfoGone,
                  LollipopGone, vars
    <2>3. Shrinks
      BY <2>2 DEF Unsettle, Shrinks
    <2> QED
      BY <1>1, <2>1, <2>3
  <1>3. ASSUME NEW c \in Calls, Call(c), NEW d \in Calls PROVE CallInv(d)'
    <2>1. CASE d = c
      <3>1. pc'[c] \in {"lollipop", "block", "members"} /\ result'[c] = result[c]
             /\ work' = work /\ pc[c] = "idle"
             /\ (work.op[c] = "userHasActiveSessions" => pc'[c] # "lollipop")
        BY <1>3, <1>0 DEF Call, Goto, TypeOK
      <3> QED
        BY <2>1, <3>1, <1>0 DEF CallInv, AskInv, ResultInv, CleanInv
    <2>2. CASE d # c
      BY <1>3, <2>2, <1>0, Frame DEF Call, Goto, TypeOK
    <2> QED
      BY <2>1, <2>2
  <1>4. ASSUME NEW c \in Calls, Reply(c), NEW d \in Calls, d # c PROVE CallInv(d)'
    <2>1. Shrinks
      BY <1>0, <1>4, OnlyItself
    <2>2. /\ work' = work /\ pc'[d] = pc[d] /\ asked'[d] = asked[d]
          /\ got'[d] = got[d] /\ result'[d] = result[d]
      BY <1>0, <1>4, OnlyItself
    <2> QED
      BY <2>1, <2>2, <1>0, Frame DEF Shrinks
  <1>5. ASSUME NEW c \in Calls, getLollipopDataForUser(c) PROVE CallInv(c)'
    BY <1>5, <1>0 DEF getLollipopDataForUser, Return, Goto, TypeOK, CallInv, AskInv,
                      ResultInv, CleanInv
  <1>6. ASSUME NEW c \in Calls, readSessionInfoKeys(c) PROVE CallInv(c)'
    <2>1. \A T \in FastMembers: settled[c] \subseteq T
      BY <1>0 DEF AuxInv, Settled, FastMembers, Kinds
    <2>2. \A t \in Tokens: NoAnswer[t] = "pending"
      BY DEF NoAnswer
    <2>3. settled[c] \subseteq Tokens
      BY <1>0 DEF TypeOK
    <2> QED
      BY <1>6, <1>0, <2>1, <2>2, <2>3 DEF readSessionInfoKeys, Return, Goto, Ask, TypeOK,
                      CallInv, AskInv, ResultInv, CleanInv
  <1>7. ASSUME NEW c \in Calls, NEW t \in Tokens, mGetInfo(c, t) PROVE CallInv(c)'
    BY <1>7, <1>0 DEF mGetInfo, mGetReply, Answer, FastRead, Existence, TypeOK, AuxInv,
                      Settled, Kinds, CallInv, AskInv, ResultInv, CleanInv
  <1>8. ASSUME NEW c \in Calls, NEW t \in Tokens, mGetSession(c, t) PROVE CallInv(c)'
    BY <1>8, <1>0 DEF mGetSession, mGetReply, Answer, FastRead, Existence, TypeOK, AuxInv,
                      Settled, Dead, Kinds, CallInv, AskInv, ResultInv, CleanInv
  <1>9. ASSUME NEW c \in Calls, parseUserSessionList(c) PROVE CallInv(c)'
    <2>1. \A t \in settled[c]: t \in GotFrom(c, "present") \/ t \in GotFrom(c, "error")
      BY <1>9, <1>0 DEF parseUserSessionList, AllAnswered, GotFrom, CallInv, AskInv, TypeOK,
                        Answers
    <2>2. \A t \in Tokens: NoAnswer[t] = "pending"
      BY DEF NoAnswer
    <2>3. settled[c] \subseteq Tokens /\ dead[c] \subseteq Tokens
      BY <1>0 DEF TypeOK
    <2> QED
      BY <1>9, <1>0, <2>1, <2>2, <2>3 DEF parseUserSessionList, Return, Goto, Ask, TypeOK,
                        CallInv, AskInv, ResultInv, CleanInv
  <1>10. ASSUME NEW c \in Calls, userHasActiveSessions(c) PROVE CallInv(c)'
    <2>1. \A t \in settled[c] \ Malformed:
             t \in GotFrom(c, "present") \/ t \in GotFrom(c, "error")
      BY <1>10, <1>0 DEF userHasActiveSessions, AllAnswered, GotFrom, CallInv, AskInv,
                         TypeOK, Answers
    <2>2. GotFrom(c, "present") \intersect dead[c] = {} /\ GotFrom(c, "present") \subseteq Tokens
      BY <1>10, <1>0 DEF userHasActiveSessions, GotFrom, CallInv, AskInv, TypeOK
    <2> QED
      BY <1>10, <1>0, <2>1, <2>2 DEF userHasActiveSessions, Return, Goto, TypeOK, CallInv,
                         AskInv, ResultInv, CleanInv
  <1>11. ASSUME NEW c \in Calls, readSetMembers(c) PROVE CallInv(c)'
    <2>2. \A t \in Tokens: NoAnswer[t] = "pending"
      BY DEF NoAnswer
    <2> QED
      BY <1>11, <1>0, <2>2 DEF readSetMembers, Goto, Ask, TypeOK, CallInv, AskInv, ResultInv,
                         CleanInv
  <1>12. ASSUME NEW c \in Calls, NEW t \in Tokens, existsReply(c, t) PROVE CallInv(c)'
    BY <1>12, <1>0 DEF existsReply, Answer, FastRead, Existence, TypeOK, AuxInv, Settled,
                       Kinds, CallInv, AskInv, ResultInv, CleanInv
  <1>13. ASSUME NEW c \in Calls, filterExpired(c) PROVE CallInv(c)'
    BY <1>13, <1>0 DEF filterExpired, toRemove, GotFrom, Goto, TypeOK, CallInv, AskInv,
                       ResultInv, CleanInv
  <1>14. ASSUME NEW c \in Calls, NEW t \in Tokens, RemoveMember(c, t) PROVE CallInv(c)'
    BY <1>14, <1>0 DEF RemoveMember, Unsettle, TypeOK, CallInv, AskInv, ResultInv, CleanInv
  <1>15. ASSUME NEW c \in Calls,
                clearExpiredSetValues(c) \/ setBlockedUser(c) \/ unsetBlockedUser(c)
         PROVE  CallInv(c)'
    <2>1. /\ work' = work /\ pc'[c] = "done" /\ settled' = settled /\ dead' = dead
          /\ \/ work.op[c] # "userHasActiveSessions"
             \/ result'[c] = "removals"
      BY <1>15, <1>0 DEF clearExpiredSetValues, setBlockedUser, unsetBlockedUser, Return,
                         Goto, TypeOK
    <2> QED
      BY <2>1 DEF CallInv, AskInv, ResultInv, CleanInv
  <1>16. ASSUME NEW c \in Calls, Reply(c) PROVE CallInv(c)'
    BY <1>16, <1>5, <1>6, <1>7, <1>8, <1>9, <1>10, <1>11, <1>12, <1>13, <1>14, <1>15
       DEF Reply
  <1> QED
    BY <1>2, <1>3, <1>4, <1>16 DEF Next

LEMMA InitIInv == Init => IInv
  BY InitType DEF Init, IInv, AuxInv, CallInv, AskInv, ResultInv, CleanInv

LEMMA Invariance == Safe => []IInv
  <1>1. IInv /\ [Next]_vars => IInv'
    BY TypeStep, AuxStep, CallStep DEF IInv
  <1> QED
    BY InitIInv, <1>1, PTL DEF Safe

-----------------------------------------------------------------------------

(* The states of the storage and of its calls are well typed. *)
THEOREM TypeCorrect == Safe => []TypeOK
  <1>1. IInv => TypeOK
    BY DEF IInv
  <1> QED
    BY <1>1, Invariance, PTL

(* userHasActiveSessions never misses a session that lives on every node   *)
(* for the whole of the call, however many other calls look, clean and     *)
(* fail meanwhile.                                                         *)
THEOREM SessionSeen == Safe => []LiveSessionIsSeen
  <1>1. IInv => LiveSessionIsSeen
    BY DEF IInv, CallInv, ResultInv, LiveSessionIsSeen
  <1> QED
    BY <1>1, Invariance, PTL

(* It never reports a session to a user who had none during the call. *)
THEOREM NoGhostSession == Safe => []DeadSessionsAreNotSeen
  <1>1. IInv => DeadSessionsAreNotSeen
    BY DEF IInv, CallInv, ResultInv, DeadSessionsAreNotSeen
  <1> QED
    BY <1>1, Invariance, PTL

(* clearExpiredSetValues removes a session that is live on every node only *)
(* after a failed exists, even on lagging replicas.                        *)
THEOREM CleanupSpares == Safe => []LiveSessionSurvivesCleanup
  <1>1. IInv => LiveSessionSurvivesCleanup
    BY DEF IInv, CallInv, CleanInv, LiveSessionSurvivesCleanup
  <1> QED
    BY <1>1, Invariance, PTL

-----------------------------------------------------------------------------
(* The list of blocked users. *)

Blocks == {c \in Calls: work.op[c] = "setBlockedUser" /\ pc[c] = "done"}
Unblocks == {c \in Calls: work.op[c] = "unsetBlockedUser" /\ result[c] = "true"}

(* A call that blocks or unblocks is one command, and has no result before *)
(* it is done.                                                             *)
BlockInv ==
    \A c \in Calls:
        work.op[c] \in {"setBlockedUser", "unsetBlockedUser"} =>
            /\ pc[c] \in {"idle", "block", "done"}
            /\ result[c] = "true" => pc[c] = "done"

(* Every true unset has used up a set of its own, and so has the mark that *)
(* is still there.                                                         *)
Balance ==
    Cardinality(Unblocks) + (IF blocked THEN 1 ELSE 0) <= Cardinality(Blocks)

UnblockInv == TypeOK /\ BlockInv /\ Balance

LEMMA Counted ==
    ASSUME NEW S \in SUBSET Calls
    PROVE  /\ IsFiniteSet(S) /\ Cardinality(S) \in Nat
           /\ \A c \in Calls \ S: Cardinality(S \union {c}) = Cardinality(S) + 1
  <1>1. IsFiniteSet(S)
    BY CallsAssumption, FS_Subset
  <1> QED
    BY <1>1, FS_CardinalityType, FS_AddElement

(* Every other step leaves these calls and the list as they are. *)
LEMMA Elsewhere ==
    ASSUME TypeOK, BlockInv, Balance, UNCHANGED <<work, blocked>>,
           \A c \in Calls: work.op[c] \in {"setBlockedUser", "unsetBlockedUser"} =>
               /\ result'[c] = result[c]
               /\ pc'[c] = pc[c] \/ (pc[c] = "idle" /\ pc'[c] = "block")
    PROVE  BlockInv' /\ Balance'
  <1>1. BlockInv'
    BY DEF BlockInv
  <1>2. Blocks' = Blocks
    BY DEF Blocks
  <1>3. Unblocks' = Unblocks
    BY DEF Unblocks
  <1> QED
    BY <1>1, <1>2, <1>3 DEF Balance

LEMMA BlockStep ==
    ASSUME TypeOK, BlockInv, Balance, NEW c \in Calls, setBlockedUser(c)
    PROVE  BlockInv' /\ Balance'
  <1> USE DEF keys, external, auxVars, Return, Goto, TypeOK
  <1>1. /\ work' = work /\ pc[c] = "block" /\ pc' = [pc EXCEPT ![c] = "done"]
        /\ work.op[c] = "setBlockedUser"
        /\ \E r \in {"true", "error"}: result' = [result EXCEPT ![c] = r]
    BY DEF setBlockedUser
  <1>2. BlockInv'
    BY <1>1 DEF BlockInv
  <1>3. Blocks' = Blocks \union {c} /\ c \notin Blocks
    BY <1>1 DEF Blocks
  <1>4. Unblocks' = Unblocks
    BY <1>1 DEF Unblocks
  <1>5. Blocks \in SUBSET Calls /\ Unblocks \in SUBSET Calls
    BY DEF Blocks, Unblocks
  <1>6. Cardinality(Blocks') = Cardinality(Blocks) + 1 /\ Cardinality(Blocks) \in Nat
        /\ Cardinality(Unblocks) \in Nat
    BY <1>3, <1>5, Counted
  <1> HIDE DEF TypeOK
  <1>7. Balance'
    BY <1>4, <1>6 DEF Balance
  <1> QED
    BY <1>2, <1>7

LEMMA UnblockStep ==
    ASSUME TypeOK, BlockInv, Balance, NEW c \in Calls, unsetBlockedUser(c)
    PROVE  BlockInv' /\ Balance'
  <1> USE DEF keys, external, auxVars, Return, Goto, TypeOK
  <1>1. /\ work' = work /\ pc[c] = "block" /\ pc' = [pc EXCEPT ![c] = "done"]
        /\ work.op[c] = "unsetBlockedUser"
        /\ \E r \in {"true", "error"}: result' = [result EXCEPT ![c] = r]
    BY DEF unsetBlockedUser
  <1>0. result'[c] = "true" => (blocked /\ ~ blocked')
    BY DEF unsetBlockedUser
  <1>2. BlockInv'
    BY <1>1 DEF BlockInv
  <1>3. Blocks' = Blocks
    BY <1>1 DEF Blocks
  <1>4. c \notin Unblocks
    BY <1>1 DEF Unblocks, BlockInv
  <1>5. Unblocks' = Unblocks \/ (Unblocks' = Unblocks \union {c} /\ blocked /\ ~ blocked')
    <2>1. \A d \in Calls \ {c}: result'[d] = result[d]
      BY <1>1
    <2>2. CASE result'[c] = "true"
      BY <1>1, <1>0, <2>1, <2>2 DEF Unblocks
    <2>3. CASE result'[c] # "true"
      BY <1>1, <1>4, <2>1, <2>3 DEF Unblocks
    <2> QED
      BY <2>2, <2>3
  <1>6. Blocks \in SUBSET Calls /\ Unblocks \in SUBSET Calls
    BY DEF Blocks, Unblocks
  <1>7. /\ Cardinality(Unblocks \union {c}) = Cardinality(Unblocks) + 1
        /\ Cardinality(Blocks) \in Nat /\ Cardinality(Unblocks) \in Nat
    BY <1>4, <1>6, Counted
  <1>8. blocked' => blocked
    BY DEF unsetBlockedUser
  <1> HIDE DEF TypeOK
  <1>9. CASE Unblocks' = Unblocks
    BY <1>2, <1>3, <1>7, <1>8, <1>9 DEF Balance
  <1>10. CASE Unblocks' = Unblocks \union {c} /\ blocked /\ ~ blocked'
    BY <1>2, <1>3, <1>7, <1>10 DEF Balance
  <1> QED
    BY <1>2, <1>5, <1>9, <1>10

LEMMA UnblockInvStep == UnblockInv /\ [Next]_vars => UnblockInv'
  <1> SUFFICES ASSUME UnblockInv, [Next]_vars PROVE UnblockInv'
    OBVIOUS
  <1> USE DEF keys, external, callVars, auxVars
  <1>0. TypeOK /\ BlockInv /\ Balance
    BY DEF UnblockInv
  <1>1. TypeOK'
    BY <1>0, TypeStep
  <1>2. CASE Replication \/ SessionManager \/ UNCHANGED vars
    <2>1. UNCHANGED <<work, blocked, pc, result>>
      BY <1>2 DEF Replication, ReplicateKey, ReplicateIndex, Replicate, SessionManager,
                  WriteLollipop, WriteSession, WriteInfo, WriteIndex, SessionGone, InfoGone,
                  LollipopGone, vars
    <2> QED
      BY <1>0, <1>1, <2>1, Elsewhere DEF UnblockInv
  <1>3. ASSUME NEW c \in Calls, Call(c) PROVE UnblockInv'
    <2>1. /\ UNCHANGED <<work, blocked, result>>
          /\ \E k \in Steps: pc[c] = "idle" /\ pc' = [pc EXCEPT ![c] = k]
               /\ (work.op[c] \in {"setBlockedUser", "unsetBlockedUser"} => k = "block")
      BY <1>3 DEF Call, Goto, Steps
    <2>2. \A d \in Calls: work.op[d] \in {"setBlockedUser", "unsetBlockedUser"} =>
            /\ result'[d] = result[d]
            /\ pc'[d] = pc[d] \/ (pc[d] = "idle" /\ pc'[d] = "block")
      BY <1>0, <2>1 DEF TypeOK
    <2> QED
      BY <1>0, <1>1, <2>1, <2>2, Elsewhere DEF UnblockInv
  <1>4. ASSUME NEW c \in Calls, setBlockedUser(c) \/ unsetBlockedUser(c) PROVE UnblockInv'
    BY <1>0, <1>1, <1>4, BlockStep, UnblockStep DEF UnblockInv
  <1>5. ASSUME NEW c \in Calls, Reply(c), ~ setBlockedUser(c), ~ unsetBlockedUser(c)
        PROVE  UnblockInv'
    <2>1. /\ UNCHANGED <<work, blocked>>
          /\ pc[c] \in {"lollipop", "members", "infos", "sessions", "exists", "removals"}
          /\ pc' = pc \/ \E k: pc' = [pc EXCEPT ![c] = k]
          /\ result' = result \/ \E r: result' = [result EXCEPT ![c] = r]
      <3> USE DEF Return, Goto, Answer
      <3>1. CASE getLollipopDataForUser(c) \/ readSessionInfoKeys(c)
        BY <3>1 DEF getLollipopDataForUser, readSessionInfoKeys
      <3>2. CASE \E t \in Tokens: mGetInfo(c, t) \/ mGetSession(c, t) \/ existsReply(c, t)
        BY <3>2 DEF mGetInfo, mGetSession, mGetReply, existsReply
      <3>3. CASE parseUserSessionList(c) \/ userHasActiveSessions(c) \/ readSetMembers(c)
        BY <3>3 DEF parseUserSessionList, userHasActiveSessions, readSetMembers
      <3>4. CASE filterExpired(c) \/ clearExpiredSetValues(c) \/ \E t \in Tokens: RemoveMember(c, t)
        BY <3>4 DEF filterExpired, clearExpiredSetValues, RemoveMember
      <3> QED
        BY <1>5, <3>1, <3>2, <3>3, <3>4 DEF Reply
    <2>2. work.op[c] \notin {"setBlockedUser", "unsetBlockedUser"}
      BY <1>0, <2>1 DEF BlockInv
    <2>3. \A d \in Calls: work.op[d] \in {"setBlockedUser", "unsetBlockedUser"} =>
            result'[d] = result[d] /\ pc'[d] = pc[d]
      BY <1>0, <2>1, <2>2 DEF TypeOK
    <2> QED
      BY <1>0, <1>1, <2>1, <2>3, Elsewhere DEF UnblockInv
  <1> QED
    BY <1>2, <1>3, <1>4, <1>5 DEF Next

(* A user is unblocked at most once for every time he was blocked: the    *)
(* calls of unsetBlockedUser that return true are no more than the calls   *)
(* of setBlockedUser that ended, whichever replies are lost.               *)
THEOREM UnblocksAreCounted == Safe => []UnblockOnce
  <1>1. Init => UnblockInv
    <2>1. ASSUME Init PROVE BlockInv /\ Unblocks = {} /\ Blocks = {} /\ blocked = FALSE
      BY <2>1 DEF Init, BlockInv, Unblocks, Blocks
    <2>2. Cardinality({}) = 0
      BY FS_EmptySet
    <2> QED
      BY <2>1, <2>2, InitType DEF UnblockInv, Balance
  <1>2. UnblockInv => UnblockOnce
    <2>1. ASSUME UnblockInv PROVE Cardinality(Unblocks) <= Cardinality(Blocks)
      <3>1. Blocks \in SUBSET Calls /\ Unblocks \in SUBSET Calls
        BY DEF Blocks, Unblocks
      <3>2. Cardinality(Blocks) \in Nat /\ Cardinality(Unblocks) \in Nat
        BY <3>1, Counted
      <3> QED
        BY <2>1, <3>2 DEF UnblockInv, Balance
    <2> QED
      BY <2>1 DEF UnblockOnce, Unblocks, Blocks
  <1> QED
    BY <1>1, <1>2, UnblockInvStep, PTL DEF Safe

-----------------------------------------------------------------------------
(* What a cleanup takes out of the index. *)

(* Only sessions that are written for good are in the index, and of those  *)
(* whose removal a cleanup prepares, the ones answered absent have no info *)
(* unless a replica lags.                                                  *)
Prepared(c) ==
    pc[c] \in {"exists", "removals"} =>
        \A t \in asked[c]:
            /\ login[t] = "in"
            /\ (got[c][t] = "absent" /\ ~ work.lag) => t \notin primary["SESSIONINFO"]
            /\ pc[c] = "removals" => got[c][t] \in {"absent", "error"}

IndexInv ==
    /\ \A t \in primary["USERSESSIONS"] \union replica["USERSESSIONS"]: login[t] = "in"
    /\ \A c \in Calls: Prepared(c)

(* Logins go on, and a session that is written for good never gets its     *)
(* info back.                                                              *)
LEMMA PreparedStays ==
    ASSUME TypeOK, NEW c \in Calls, Prepared(c), work' = work,
           pc'[c] = pc[c], asked'[c] = asked[c], got'[c] = got[c],
           \A t \in Tokens: login[t] = "in" => login'[t] = "in",
           \A t \in primary'["SESSIONINFO"] \ primary["SESSIONINFO"]: login[t] # "in"
    PROVE  Prepared(c)'
  BY DEF Prepared, TypeOK

LEMMA IndexStep == TypeOK /\ AuxInv /\ IndexInv /\ [Next]_vars => IndexInv'
  <1> SUFFICES ASSUME TypeOK, AuxInv, IndexInv, [Next]_vars PROVE IndexInv'
    OBVIOUS
  <1> USE DEF keys, external, callVars, auxVars
  <1> DEFINE Indexed == primary["USERSESSIONS"] \union replica["USERSESSIONS"]
             Written == \A t \in Indexed: login[t] = "in"
             LoginsGoOn == \A t \in Tokens: login[t] = "in" => login'[t] = "in"
             NoInfoBack == \A t \in primary'["SESSIONINFO"] \ primary["SESSIONINFO"]:
                             login[t] # "in"
  <1>0. Written /\ \A c \in Calls: Prepared(c)
    BY DEF IndexInv
  <1>1. ASSUME UNCHANGED <<work, callVars>>, LoginsGoOn, NoInfoBack,
               \A t \in Indexed': login'[t] = "in"
        PROVE  IndexInv'
    BY <1>0, <1>1, PreparedStays DEF IndexInv
  <1>2. CASE Replication \/ LollipopGone \/ UNCHANGED vars
    <2>1. /\ UNCHANGED <<work, callVars, login, primary>>
          /\ Indexed' \subseteq Indexed
      BY <1>2 DEF Replication, ReplicateKey, ReplicateIndex, Replicate, LollipopGone, vars,
                  TypeOK, Kinds
    <2> QED
      BY <1>0, <1>1, <2>1
  <1>3. ASSUME NEW t \in Tokens,
               (\E v \in work.types: WriteLollipop(t, v)) \/ WriteSession(t) \/ WriteInfo(t)
                 \/ WriteIndex(t) \/ SessionGone(t) \/ InfoGone(t)
        PROVE  IndexInv'
    <2>1. UNCHANGED <<work, callVars>>
      BY <1>3 DEF WriteLollipop, WriteSession, WriteInfo, WriteIndex, SessionGone, InfoGone
    <2>2. LoginsGoOn
      BY <1>3 DEF WriteLollipop, WriteSession, WriteInfo, WriteIndex, SessionGone, InfoGone,
                  TypeOK
    <2>3. NoInfoBack
      BY <1>3 DEF WriteLollipop, WriteSession, WriteInfo, WriteIndex, SessionGone, InfoGone,
                  Store, TypeOK, Kinds
    <2>4. \A u \in Indexed': login'[u] = "in"
      BY <1>0, <1>3, <2>2
         DEF WriteLollipop, WriteSession, WriteInfo, WriteIndex, SessionGone, InfoGone,
             Store, TypeOK, Kinds
    <2> QED
      BY <1>1, <2>1, <2>2, <2>3, <2>4
  <1>4. ASSUME NEW c \in Calls, Call(c) \/ Reply(c) PROVE Written'
    <2>1. login' = login
      BY <1>4 DEF Call, Reply, getLollipopDataForUser, readSessionInfoKeys, mGetInfo,
                  mGetSession, mGetReply, parseUserSessionList, userHasActiveSessions,
                  readSetMembers, existsReply, filterExpired, RemoveMember,
                  clearExpiredSetValues, setBlockedUser, unsetBlockedUser
    <2>2. UNCHANGED <<primary, replica>> \/ \E t \in Tokens: RemoveMember(c, t)
      BY <1>4 DEF Call, Reply, getLollipopDataForUser, readSessionInfoKeys, mGetInfo,
                  mGetSession, mGetReply, parseUserSessionList, userHasActiveSessions,
                  readSetMembers, existsReply, filterExpired, clearExpiredSetValues,
                  setBlockedUser, unsetBlockedUser
    <2>3. ASSUME NEW t \in Tokens, RemoveMember(c, t) PROVE Indexed' \subseteq Indexed
      BY <2>3 DEF RemoveMember, Store, TypeOK, Kinds
    <2>4. Indexed' \subseteq Indexed
      BY <2>2, <2>3
    <2> QED
      BY <1>0, <2>1, <2>4
  <1>5. ASSUME NEW c \in Calls, Call(c) \/ Reply(c)
        PROVE  /\ UNCHANGED <<work, login>>
               /\ primary'["SESSIONINFO"] = primary["SESSIONINFO"]
               /\ \A d \in Calls \ {c}:
                    pc'[d] = pc[d] /\ asked'[d] = asked[d] /\ got'[d] = got[d]
    <2>1. UNCHANGED <<work, login>> /\ primary'["SESSIONINFO"] = primary["SESSIONINFO"]
      BY <1>5 DEF Call, Reply, getLollipopDataForUser, readSessionInfoKeys, mGetInfo,
                  mGetSession, mGetReply, parseUserSessionList, userHasActiveSessions,
                  readSetMembers, existsReply, filterExpired, RemoveMember, Store,
                  clearExpiredSetValues, setBlockedUser, unsetBlockedUser, TypeOK, Kinds
    <2> QED
      BY <1>5, <2>1, OnlyItself DEF Call, Goto, TypeOK
  <1>6. ASSUME NEW c \in Calls, Call(c) \/ Reply(c) PROVE Prepared(c)'
    <2> DEFINE Preparing == pc[c] \in {"exists", "removals"}
    <2>1. CASE Call(c)
      BY <2>1 DEF Call, Goto, TypeOK, Prepared
    <2>2. CASE getLollipopDataForUser(c) \/ readSessionInfoKeys(c) \/ parseUserSessionList(c)
                 \/ userHasActiveSessions(c) \/ setBlockedUser(c) \/ unsetBlockedUser(c)
                 \/ clearExpiredSetValues(c)
      <3>1. pc'[c] \in {"members", "infos", "sessions", "done"}
        BY <2>2 DEF getLollipopDataForUser, readSessionInfoKeys, parseUserSessionList,
                    userHasActiveSessions, setBlockedUser, unsetBlockedUser,
                    clearExpiredSetValues, Return, Goto, TypeOK
      <3> QED
        BY <3>1 DEF Prepared
    <2>3. ASSUME NEW t \in Tokens, mGetInfo(c, t) \/ mGetSession(c, t) PROVE Prepared(c)'
      BY <2>3 DEF mGetInfo, mGetSession, mGetReply, Prepared
    <2>4. CASE readSetMembers(c)
      <3>1. \A t \in Tokens: NoAnswer[t] = "pending"
        BY DEF NoAnswer
      <3>2. /\ pc'[c] = "exists" /\ got'[c] = NoAnswer /\ login' = login
            /\ asked'[c] \subseteq Indexed /\ asked'[c] \subseteq Tokens
        BY <2>4 DEF readSetMembers, Goto, Ask, FastMembers, TypeOK, Kinds
      <3> QED
        BY <1>0, <3>1, <3>2 DEF Prepared
    <2>5. ASSUME NEW t \in Tokens, existsReply(c, t) PROVE Prepared(c)'
      <3>1. PICK a \in {"absent", "present", "error"}:
               /\ t \in asked[c]
               /\ got' = [got EXCEPT ![c][t] = a]
               /\ (a = "absent" /\ replica = primary) => t \notin primary["SESSIONINFO"]
        BY <2>5 DEF existsReply, Answer, FastRead, Existence
      <3>2. got'[c][t] = a /\ \A u \in Tokens \ {t}: got'[c][u] = got[c][u]
        BY <3>1 DEF TypeOK
      <3>3. pc[c] = "exists" /\ UNCHANGED <<work, pc, asked, login, primary>>
        BY <2>5 DEF existsReply
      <3> QED
        BY <1>0, <3>1, <3>2, <3>3 DEF Prepared, TypeOK, AuxInv
    <2>6. CASE filterExpired(c)
      BY <1>0, <2>6 DEF filterExpired, Goto, toRemove, GotFrom, Prepared, TypeOK
    <2>7. ASSUME NEW t \in Tokens, RemoveMember(c, t) PROVE Prepared(c)'
      <3>1. UNCHANGED <<pc, got>> /\ asked'[c] \subseteq asked[c]
        BY <2>7 DEF RemoveMember, TypeOK
      <3>2. UNCHANGED <<work, login>> /\ primary'["SESSIONINFO"] = primary["SESSIONINFO"]
        BY <1>5, <2>7 DEF Reply
      <3> QED
        BY <1>0, <3>1, <3>2 DEF Prepared
    <2> QED
      BY <1>6, <2>1, <2>2, <2>3, <2>4, <2>5, <2>6, <2>7 DEF Reply
  <1>7. ASSUME NEW c \in Calls, Call(c) \/ Reply(c) PROVE IndexInv'
    <2>1. \A d \in Calls \ {c}: Prepared(d)'
      BY <1>0, <1>5, <1>7, PreparedStays
    <2> QED
      BY <1>4, <1>6, <1>7, <2>1 DEF IndexInv
  <1> QED
    BY <1>2, <1>3, <1>7 DEF Next, SessionManager

(* The form in which the promise of clearExpiredSetValues holds: a session *)
(* that leaves the index while its info exists was taken out by a cleanup  *)
(* whose check of it failed, or some replica lags.                         *)
CheckFailed(t) ==
    \E c \in Calls: pc[c] = "removals" /\ t \in asked[c] /\ got[c][t] = "error"

OnlyExpiredOrFailed ==
    [][\A t \in primary["USERSESSIONS"] \ primary'["USERSESSIONS"]:
          t \in primary["SESSIONINFO"] => work.lag \/ CheckFailed(t)]_vars

(* Without lag, the failed exists is the only way a cleanup removes a      *)
(* session whose info exists.                                              *)
THEOREM CleanupRemovesExpired == Safe => OnlyExpiredOrFailed
  <1> DEFINE Removals == \A t \in primary["USERSESSIONS"] \ primary'["USERSESSIONS"]:
                           t \in primary["SESSIONINFO"] => work.lag \/ CheckFailed(t)
  <1>1. Init => IndexInv
    BY DEF Init, IndexInv, Prepared, Kinds
  <1>2. TypeOK /\ IndexInv /\ [Next]_vars => [Removals]_vars
    <2> SUFFICES ASSUME TypeOK, IndexInv, Next PROVE Removals
      OBVIOUS
    <2> USE DEF keys, external, callVars, auxVars
    <2>1. ASSUME NEW c \in Calls, NEW t \in Tokens, RemoveMember(c, t) PROVE Removals
      <3>1. primary["USERSESSIONS"] \ primary'["USERSESSIONS"] \subseteq {t}
        BY <2>1 DEF RemoveMember, Store, TypeOK, Kinds
      <3>2. t \in primary["SESSIONINFO"] => work.lag \/ CheckFailed(t)
        BY <2>1 DEF RemoveMember, IndexInv, Prepared, CheckFailed
      <3> QED
        BY <3>1, <3>2
    <2>2. CASE primary["USERSESSIONS"] \subseteq primary'["USERSESSIONS"]
      BY <2>2
    <2>3. CASE Replication \/ SessionManager
      <3>1. primary["USERSESSIONS"] \subseteq primary'["USERSESSIONS"]
        BY <2>3 DEF Replication, ReplicateKey, ReplicateIndex, Replicate, SessionManager,
                    WriteLollipop, WriteSession, WriteInfo, WriteIndex, SessionGone,
                    InfoGone, LollipopGone, Store, TypeOK, Kinds
      <3> QED
        BY <2>2, <3>1
    <2>4. ASSUME NEW c \in Calls, Call(c) \/ Reply(c), \A t \in Tokens: ~ RemoveMember(c, t)
          PROVE  Removals
      <3>1. primary' = primary
        BY <2>4 DEF Call, Reply, getLollipopDataForUser, readSessionInfoKeys, mGetInfo,
                    mGetSession, mGetReply, parseUserSessionList, userHasActiveSessions,
                    readSetMembers, existsReply, filterExpired, clearExpiredSetValues,
                    setBlockedUser, unsetBlockedUser
      <3> QED
        BY <3>1
    <2> QED
      BY <2>1, <2>3, <2>4 DEF Next
  <1>3. IInv => TypeOK /\ AuxInv
    BY DEF IInv
  <1>4. Safe => [][Removals]_vars
    <2> HIDE DEF Removals
    <2> QED
      BY <1>1, <1>2, <1>3, IndexStep, Invariance, PTL DEF Safe
  <1> QED
    BY <1>4 DEF OnlyExpiredOrFailed

-----------------------------------------------------------------------------
(* How a call comes to its end. *)

UnderWay(c) == pc[c] \notin {"idle", "done"}

(* The commands a call still waits for, and how far it is from returning:  *)
(* its step counts for more than all the answers of one step.              *)
Left(c) ==
    {t \in asked[c]:
        \/ pc[c] \in {"infos", "sessions", "exists"} /\ got[c][t] = "pending"
        \/ pc[c] = "removals"}

Weight == [idle |-> 6, lollipop |-> 5, members |-> 4, infos |-> 3, exists |-> 3,
           sessions |-> 2, removals |-> 2, block |-> 1, done |-> 0]

Distance(c) == Weight[pc[c]] * (Cardinality(Tokens) + 1) + Cardinality(Left(c))

LEMMA WeightIs ==
    /\ Weight["idle"] = 6 /\ Weight["lollipop"] = 5 /\ Weight["members"] = 4
    /\ Weight["infos"] = 3 /\ Weight["exists"] = 3 /\ Weight["sessions"] = 2
    /\ Weight["removals"] = 2 /\ Weight["block"] = 1 /\ Weight["done"] = 0
    /\ \A k \in Steps: Weight[k] \in 0..6
  BY DEF Weight, Steps

LEMMA FewLeft ==
    ASSUME IsFiniteSet(Tokens), NEW S \in SUBSET Tokens
    PROVE  /\ IsFiniteSet(S) /\ Cardinality(Tokens) \in Nat
           /\ Cardinality(S) \in 0..Cardinality(Tokens)
  <1>1. IsFiniteSet(S) /\ Cardinality(S) <= Cardinality(Tokens)
    BY FS_Subset
  <1> QED
    BY <1>1, FS_CardinalityType

LEMMA StepOutweighs ==
    ASSUME NEW N \in Nat, NEW v \in 0..6, NEW w \in 0..6, v < w,
           NEW k \in 0..N, NEW l \in 0..N
    PROVE  v * (N + 1) + k < w * (N + 1) + l
  <1>1. PICK d \in 1..6: w = v + d
    <2>1. w - v \in 1..6 /\ w = v + (w - v)
      OBVIOUS
    <2> QED
      BY <2>1
  <1>2. v * (N + 1) \in Nat
    OBVIOUS
  <1>3. w * (N + 1) = v * (N + 1) + d * (N + 1)
    BY <1>1
  <1>4. d * (N + 1) >= N + 1 /\ d * (N + 1) \in Nat
    <2>1. d \in {1, 2, 3, 4, 5, 6}
      OBVIOUS
    <2> QED
      BY <2>1
  <1> DEFINE V == v * (N + 1)
             D == d * (N + 1)
  <1>5. V \in Nat /\ D \in Nat /\ D >= N + 1 /\ w * (N + 1) = V + D
    BY <1>2, <1>3, <1>4
  <1> HIDE DEF V, D
  <1>6. V + k < V + D + l
    BY <1>5
  <1> QED
    BY <1>5, <1>6 DEF V

(* The next step of a call is nearer to its end whatever it asks. *)
LEMMA StepIsNearer ==
    ASSUME IsFiniteSet(Tokens), TypeOK, TypeOK', NEW c \in Calls,
           Weight[pc'[c]] < Weight[pc[c]]
    PROVE  Distance(c)' < Distance(c)
  <1> DEFINE k == Cardinality(Left(c))
             l == Cardinality(Left(c)')
             N == Cardinality(Tokens)
  <1>1. N \in Nat /\ k \in 0..N /\ l \in 0..N
    <2>1. Left(c) \in SUBSET Tokens /\ Left(c)' \in SUBSET Tokens
      BY DEF Left, TypeOK
    <2> QED
      BY <2>1, FewLeft
  <1>2. Weight[pc[c]] \in 0..6 /\ Weight[pc'[c]] \in 0..6
    BY WeightIs DEF TypeOK
  <1>3. Distance(c) = Weight[pc[c]] * (N + 1) + k
    BY DEF Distance
  <1>4. Distance(c)' = Weight[pc'[c]] * (N + 1) + l
    BY DEF Distance, Weight
  <1> HIDE DEF k, l, N
  <1> QED
    BY <1>1, <1>2, <1>3, <1>4, StepOutweighs

(* So is one command fewer to wait for. *)
LEMMA AnswerIsNearer ==
    ASSUME IsFiniteSet(Tokens), TypeOK, NEW c \in Calls, pc'[c] = pc[c],
           NEW t \in Left(c), Left(c)' = Left(c) \ {t}
    PROVE  Distance(c)' < Distance(c)
  <1> DEFINE N == Cardinality(Tokens)
             W == Weight[pc[c]] * (N + 1)
  <1>1. N \in Nat /\ IsFiniteSet(Left(c)) /\ Cardinality(Left(c)) \in Nat
    <2>1. Left(c) \in SUBSET Tokens
      BY DEF Left, TypeOK
    <2> QED
      BY <2>1, FewLeft
  <1>2. Cardinality(Left(c)') = Cardinality(Left(c)) - 1
    BY <1>1, FS_RemoveElement
  <1>3. Weight[pc[c]] \in 0..6
    BY WeightIs DEF TypeOK
  <1>4. W \in Nat
    BY <1>1, <1>3
  <1>5. Distance(c) = W + Cardinality(Left(c))
    BY DEF Distance
  <1>6. Distance(c)' = W + Cardinality(Left(c)')
    BY DEF Distance, Weight
  <1> HIDE DEF N, W
  <1> QED
    BY <1>1, <1>2, <1>4, <1>5, <1>6

LEMMA ReplyIsNearer ==
    ASSUME IsFiniteSet(Tokens), TypeOK, TypeOK', NEW c \in Calls, Reply(c)
    PROVE  Distance(c)' < Distance(c)
  <1> USE DEF keys, external, auxVars
  <1>1. CASE getLollipopDataForUser(c) \/ readSessionInfoKeys(c) \/ parseUserSessionList(c)
               \/ userHasActiveSessions(c) \/ readSetMembers(c) \/ filterExpired(c)
               \/ clearExpiredSetValues(c) \/ setBlockedUser(c) \/ unsetBlockedUser(c)
    <2>1. \/ pc[c] = "lollipop" /\ pc'[c] \in {"members", "done"}
          \/ pc[c] = "members" /\ pc'[c] \in {"infos", "exists", "done"}
          \/ pc[c] = "infos" /\ pc'[c] \in {"sessions", "done"}
          \/ pc[c] = "exists" /\ pc'[c] = "removals"
          \/ pc[c] \in {"sessions", "removals", "block"} /\ pc'[c] = "done"
      BY <1>1 DEF getLollipopDataForUser, readSessionInfoKeys, parseUserSessionList,
                  userHasActiveSessions, readSetMembers, filterExpired,
                  clearExpiredSetValues, setBlockedUser, unsetBlockedUser, Return, Goto,
                  TypeOK
    <2>2. Weight[pc'[c]] < Weight[pc[c]]
      BY <2>1, WeightIs
    <2> QED
      BY <2>2, StepIsNearer
  <1>2. ASSUME NEW t \in Tokens, mGetInfo(c, t) \/ mGetSession(c, t) \/ existsReply(c, t)
        PROVE  Distance(c)' < Distance(c)
    <2>1. PICK a \in {"absent", "present", "error"}:
            /\ t \in asked[c] /\ got[c][t] = "pending"
            /\ got' = [got EXCEPT ![c][t] = a]
      BY <1>2 DEF mGetInfo, mGetSession, mGetReply, existsReply, Answer, FastRead, Existence
    <2>2. got'[c][t] = a /\ \A u \in Tokens \ {t}: got'[c][u] = got[c][u]
      BY <2>1 DEF TypeOK
    <2>3. pc[c] \in {"infos", "sessions", "exists"} /\ UNCHANGED <<pc, asked>>
      BY <1>2 DEF mGetInfo, mGetSession, mGetReply, existsReply
    <2>4. t \in Left(c) /\ Left(c)' = Left(c) \ {t}
      BY <2>1, <2>2, <2>3 DEF Left, TypeOK
    <2> QED
      BY <2>3, <2>4, AnswerIsNearer
  <1>3. ASSUME NEW t \in Tokens, RemoveMember(c, t) PROVE Distance(c)' < Distance(c)
    <2>1. pc[c] = "removals" /\ UNCHANGED pc /\ t \in asked[c] /\ asked'[c] = asked[c] \ {t}
      BY <1>3 DEF RemoveMember, TypeOK
    <2>2. t \in Left(c) /\ Left(c)' = Left(c) \ {t}
      BY <2>1 DEF Left
    <2> QED
      BY <2>1, <2>2, AnswerIsNearer
  <1> QED
    BY <1>1, <1>2, <1>3 DEF Reply

(* Nobody else moves a call that is under way. *)
LEMMA UnderWayStays ==
    ASSUME TypeOK, [Next]_vars, NEW c \in Calls, UnderWay(c), ~ Reply(c)
    PROVE  UnderWay(c)' /\ Distance(c)' = Distance(c)
  <1> USE DEF keys, external, callVars, auxVars
  <1>1. ASSUME pc'[c] = pc[c], asked'[c] = asked[c], got'[c] = got[c]
        PROVE  UnderWay(c)' /\ Distance(c)' = Distance(c)
    BY <1>1 DEF UnderWay, Distance, Left, Weight
  <1>2. CASE Replication \/ SessionManager \/ UNCHANGED vars
    <2>1. UNCHANGED callVars
      BY <1>2 DEF Replication, ReplicateKey, ReplicateIndex, Replicate, SessionManager,
                  WriteLollipop, WriteSession, WriteInfo, WriteIndex, SessionGone, InfoGone,
                  LollipopGone, vars
    <2> QED
      BY <1>1, <2>1
  <1>3. ASSUME NEW d \in Calls, Call(d) PROVE pc'[c] = pc[c] /\ UNCHANGED <<asked, got>>
    BY <1>3 DEF Call, Goto, UnderWay, TypeOK
  <1>4. ASSUME NEW d \in Calls, Reply(d)
        PROVE  pc'[c] = pc[c] /\ asked'[c] = asked[c] /\ got'[c] = got[c]
    BY <1>4, OnlyItself
  <1> QED
    BY <1>1, <1>2, <1>3, <1>4 DEF Next

(* Every reply of Redis brings its call nearer to returning, by an amount  *)
(* that cannot be taken back, and nothing else touches the distance: a     *)
(* chain of storage commands, with its parallel reads and removals, has no *)
(* loop.                                                                   *)
CallsAdvance ==
    [][\A c \in Calls: UnderWay(c) =>
          IF Reply(c) THEN Distance(c)' < Distance(c)
                      ELSE UnderWay(c)' /\ Distance(c)' = Distance(c)]_vars

(* Whatever Redis answers, and however the keys change meanwhile.          *)
THEOREM CallsComeNearer ==
    ASSUME IsFiniteSet(Tokens)
    PROVE  Safe => CallsAdvance
  <1> DEFINE Advance == \A c \in Calls: UnderWay(c) =>
                          IF Reply(c) THEN Distance(c)' < Distance(c)
                                      ELSE UnderWay(c)' /\ Distance(c)' = Distance(c)
  <1>1. TypeOK /\ TypeOK' /\ [Next]_vars => Advance
    BY ReplyIsNearer, UnderWayStays
  <1>2. Safe => [][Advance]_vars
    <2> HIDE DEF Advance
    <2> QED
      BY <1>1, TypeCorrect, PTL DEF Safe
  <1> QED
    BY <1>2 DEF CallsAdvance

(* A call under way can take its next step: Redis answers or rejects.      *)
UnderWayIsEnabled == \A c \in Calls: UnderWay(c) => ENABLED <<Reply(c)>>_vars

(* Provided a call under way can go on, fairness of Redis alone brings it  *)
(* nearer to its end from any distance, and so, with a finite distance, to *)
(* it: one step of the induction behind CallsReturn.                       *)
THEOREM CallsGoOn ==
    ASSUME IsFiniteSet(Tokens), NEW c \in Calls, NEW n \in Nat
    PROVE  Spec /\ []UnderWayIsEnabled =>
             (UnderWay(c) /\ Distance(c) = n ~> Distance(c) < n)
  <1> DEFINE Here == UnderWay(c) /\ Distance(c) = n
             Nearer == Distance(c) < n
  <1>1. TypeOK /\ TypeOK' /\ Here /\ [Next]_vars => Here' \/ Nearer'
    BY ReplyIsNearer, UnderWayStays
  <1>2. TypeOK /\ TypeOK' /\ Here /\ <<Reply(c)>>_vars => Nearer'
    BY ReplyIsNearer
  <1>3. Spec => GoesOn(c)
    BY DEF Spec, Fairness
  <1>4. GoesOn(c) => []<>(~ENABLED <<Reply(c)>>_vars) \/ []<><<Reply(c)>>_vars
    BY PTL DEF GoesOn
  <1>5. UnderWayIsEnabled /\ Here => ENABLED <<Reply(c)>>_vars
    BY DEF UnderWayIsEnabled
  <1> HIDE DEF Here, Nearer
  <1>6. Spec /\ []UnderWayIsEnabled => (Here ~> Nearer)
    BY <1>1, <1>2, <1>3, <1>4, <1>5, TypeCorrect, PTL DEF Spec, Safe
  <1> QED
    BY <1>6 DEF Here, Nearer

(* Nothing is further from its end than a call that was not made, and a    *)
(* call at distance 0 has returned.                                        *)
THEOREM DistanceEnds ==
    ASSUME IsFiniteSet(Tokens)
    PROVE  Safe => []\A c \in Calls:
             /\ Distance(c) \in 0 .. 7 * (Cardinality(Tokens) + 1)
             /\ Distance(c) = 0 => pc[c] = "done"
  <1>1. ASSUME TypeOK, NEW c \in Calls
        PROVE  /\ Distance(c) \in 0 .. 7 * (Cardinality(Tokens) + 1)
               /\ Distance(c) = 0 => pc[c] = "done"
    <2> DEFINE N == Cardinality(Tokens)
               k == Cardinality(Left(c))
    <2>1. N \in Nat /\ k \in 0..N
      <3>1. Left(c) \in SUBSET Tokens
        BY <1>1 DEF Left, TypeOK
      <3> QED
        BY <3>1, FewLeft
    <2>2. Weight[pc[c]] \in {0, 1, 2, 3, 4, 5, 6} /\ (Weight[pc[c]] = 0 => pc[c] = "done")
      BY <1>1, WeightIs DEF TypeOK, Steps
    <2>3. Distance(c) = Weight[pc[c]] * (N + 1) + k
      BY DEF Distance
    <2> HIDE DEF N, k
    <2>4. Distance(c) \in 0 .. 7 * (N + 1) /\ (Distance(c) = 0 => pc[c] = "done")
      BY <2>1, <2>2, <2>3
    <2> QED
      BY <2>4 DEF N
  <1>2. TypeOK => \A c \in Calls:
                    /\ Distance(c) \in 0 .. 7 * (Cardinality(Tokens) + 1)
                    /\ Distance(c) = 0 => pc[c] = "done"
    BY <1>1
  <1> QED
    BY <1>2, TypeCorrect, PTL
=============================================================================
