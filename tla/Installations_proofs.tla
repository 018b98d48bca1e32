------------------------ MODULE Installations_proofs ------------------------
(***************************************************************************)
(* Proofs about Installations, for any number of users, requests,          *)
(* processes and logins, any flags, and any delay longer than the time a   *)
(* delete spends in its queue.                                             *)
(***************************************************************************)
EXTENDS Installations, FiniteSetTheorems, TLAPS

Worked == {"sending", "sent", "failed", "lost"}

(* A request past "new" was accepted by a process, for a user, with a 200. *)
AcceptedInv ==
    \A r \in Requests:
        stage[r] \in {"delayed"} \union Worked =>
            answer[r] = "200" /\ user[r] \in Users /\ host[r] \in Instances

(* Every copy is the work of one numbered attempt that began after the     *)
(* delay, through the service of the process that accepted the request.    *)
CopyInv ==
    \A c \in net \union queued:
        /\ stage[c.req] \in Worked
        /\ now >= acceptedAt[c.req] + Delay
        /\ c.try <= tries[c.req]
        /\ c.queue = notificationServiceFactory(host[c.req], user[c.req])

(* A message is sent only when the delay has passed. *)
SendingInv ==
    \A r \in Requests: stage[r] = "sending" => now >= acceptedAt[r] + Delay

(* A delete waits in its queue for DeleteLag ticks at most. *)
DeleteInv ==
    \A l \in Logins: del[l] = "queued" => now <= delAt[l] + DeleteLag

IInv == TypeOK /\ AcceptedInv /\ CopyInv /\ SendingInv /\ DeleteInv

-----------------------------------------------------------------------------

LEMMA FactoryType ==
    ASSUME NEW i, NEW u
    PROVE  notificationServiceFactory(i, u) \in Queues
  BY DEF notificationServiceFactory, Queues

(* The invariant holds initially. *)
LEMMA InitIInv == Init => IInv
  BY TimeAssumption, TriesAssumption, NoneAssumption
     DEF Init, IInv, TypeOK, AcceptedInv, CopyInv, SendingInv, DeleteInv, Stages,
         Copies, Worked

(* A new attempt of request r: what DelayElapsed and RetrySend share. *)
LEMMA NewCopy ==
    ASSUME NEW r \in Requests, NEW k \in 1..MaxTries, IInv
    PROVE  [req |-> r, try |-> k,
            queue |-> notificationServiceFactory(host[r], user[r])] \in Copies
  BY FactoryType DEF Copies

LEMMA NextIInv == IInv /\ [Next]_vars => IInv'
  <1> SUFFICES ASSUME IInv, [Next]_vars PROVE IInv'
    OBVIOUS
  <1> USE TimeAssumption, TriesAssumption
  <1> USE DEF IInv, queueVars, loginVars, requestVars
  <1>1. CASE Tick
    <2>1. TypeOK'
      BY <1>1 DEF Tick, TypeOK, Stages
    <2>2. AcceptedInv'
      BY <1>1 DEF Tick, AcceptedInv, TypeOK, Worked
    <2>3. CopyInv'
      BY <1>1 DEF Tick, CopyInv, SendingInv, TypeOK, Copies, Worked,
               notificationServiceFactory, isUserEligible
    <2>4. SendingInv'
      BY <1>1 DEF Tick, SendingInv, TypeOK, Copies
    <2>5. DeleteInv'
      BY <1>1 DEF Tick, DeleteInv, TypeOK
    <2> QED
      BY <2>1, <2>2, <2>3, <2>4, <2>5
  <1>2. ASSUME NEW r \in Requests, RejectInstallation(r) PROVE IInv'
    <2>1. TypeOK'
      BY <1>2 DEF RejectInstallation, TypeOK, Stages
    <2>2. AcceptedInv'
      BY <1>2 DEF RejectInstallation, AcceptedInv, TypeOK, Worked
    <2>3. CopyInv'
      BY <1>2 DEF RejectInstallation, CopyInv, SendingInv, TypeOK, Copies, Worked,
               notificationServiceFactory, isUserEligible
    <2>4. SendingInv'
      BY <1>2 DEF RejectInstallation, SendingInv, TypeOK, Copies
    <2>5. DeleteInv'
      BY <1>2 DEF RejectInstallation, DeleteInv, TypeOK
    <2> QED
      BY <2>1, <2>2, <2>3, <2>4, <2>5
  <1>3. ASSUME NEW r \in Requests, NEW u \in Users, NEW i \in Instances,
               createOrUpdateInstallation(r, u, i)
        PROVE  IInv'
    <2>1. TypeOK'
      BY <1>3 DEF createOrUpdateInstallation, TypeOK, Stages
    <2>2. AcceptedInv'
      BY <1>3 DEF createOrUpdateInstallation, AcceptedInv, TypeOK, Worked
    <2>3. CopyInv'
      BY <1>3 DEF createOrUpdateInstallation, CopyInv, SendingInv, TypeOK, Copies, Worked,
               notificationServiceFactory, isUserEligible
    <2>4. SendingInv'
      BY <1>3 DEF createOrUpdateInstallation, SendingInv, TypeOK, Copies
    <2>5. DeleteInv'
      BY <1>3 DEF createOrUpdateInstallation, DeleteInv, TypeOK
    <2> QED
      BY <2>1, <2>2, <2>3, <2>4, <2>5
  <1>4. ASSUME NEW r \in Requests, DelayElapsed(r) PROVE IInv'
    <2> DEFINE copy == [req |-> r, try |-> 1,
                        queue |-> notificationServiceFactory(host[r], user[r])]
    <2>a. 1 \in 1..MaxTries
      BY <1>4 DEF DelayElapsed, TypeOK
    <2>b. copy \in Copies
      BY <2>a, NewCopy
    <2>1. TypeOK'
      BY <1>4, <2>a, <2>b DEF DelayElapsed, TypeOK, Stages
    <2>2. AcceptedInv'
      BY <1>4 DEF DelayElapsed, AcceptedInv, TypeOK, Worked
    <2>3. CopyInv'
      BY <1>4, <2>a, <2>b DEF DelayElapsed, CopyInv, SendingInv, TypeOK, Copies, Worked,
               notificationServiceFactory, isUserEligible
    <2>4. SendingInv'
      BY <1>4 DEF DelayElapsed, SendingInv, TypeOK, Copies
    <2>5. DeleteInv'
      BY <1>4 DEF DelayElapsed, DeleteInv, TypeOK
    <2> QED
      BY <2>1, <2>2, <2>3, <2>4, <2>5
  <1>5. ASSUME NEW r \in Requests, RetrySend(r) PROVE IInv'
    <2> DEFINE copy == [req |-> r, try |-> tries[r] + 1,
                        queue |-> notificationServiceFactory(host[r], user[r])]
    <2>a. tries[r] + 1 \in 1..MaxTries
      BY <1>5 DEF RetrySend, TypeOK
    <2>b. copy \in Copies
      BY <2>a, NewCopy
    <2>1. TypeOK'
      BY <1>5, <2>a, <2>b DEF RetrySend, TypeOK, Stages
    <2>2. AcceptedInv'
      BY <1>5 DEF RetrySend, AcceptedInv, TypeOK, Worked
    <2>3. CopyInv'
      BY <1>5, <2>a, <2>b DEF RetrySend, CopyInv, SendingInv, TypeOK, Copies, Worked,
               notificationServiceFactory, isUserEligible
    <2>4. SendingInv'
      BY <1>5 DEF RetrySend, SendingInv, TypeOK, Copies
    <2>5. DeleteInv'
      BY <1>5 DEF RetrySend, DeleteInv, TypeOK
    <2> QED
      BY <2>1, <2>2, <2>3, <2>4, <2>5
  <1>6. ASSUME NEW r \in Requests, SendFails(r) PROVE IInv'
    <2>1. TypeOK'
      BY <1>6 DEF SendFails, TypeOK, Stages
    <2>2. AcceptedInv'
      BY <1>6 DEF SendFails, AcceptedInv, TypeOK, Worked
    <2>3. CopyInv'
      BY <1>6 DEF SendFails, CopyInv, SendingInv, TypeOK, Copies, Worked,
               notificationServiceFactory, isUserEligible
    <2>4. SendingInv'
      BY <1>6 DEF SendFails, SendingInv, TypeOK, Copies
    <2>5. DeleteInv'
      BY <1>6 DEF SendFails, DeleteInv, TypeOK
    <2> QED
      BY <2>1, <2>2, <2>3, <2>4, <2>5
  <1>7. ASSUME NEW c \in net, CopyEnqueued(c) PROVE IInv'
    <2>1. TypeOK'
      BY <1>7 DEF CopyEnqueued, TypeOK, Stages
    <2>2. AcceptedInv'
      BY <1>7 DEF CopyEnqueued, AcceptedInv, TypeOK, Worked
    <2>3. CopyInv'
      BY <1>7 DEF CopyEnqueued, CopyInv, SendingInv, TypeOK, Copies, Worked,
               notificationServiceFactory, isUserEligible
    <2>4. SendingInv'
      BY <1>7 DEF CopyEnqueued, SendingInv, TypeOK, Copies
    <2>5. DeleteInv'
      BY <1>7 DEF CopyEnqueued, DeleteInv, TypeOK
    <2> QED
      BY <2>1, <2>2, <2>3, <2>4, <2>5
  <1>8. ASSUME NEW i \in Instances, Drain(i) PROVE IInv'
    <2>1. TypeOK'
      BY <1>8 DEF Drain, TypeOK, Stages
    <2>2. AcceptedInv'
      BY <1>8 DEF Drain, AcceptedInv, TypeOK, Worked
    <2>3. CopyInv'
      BY <1>8 DEF Drain, CopyInv, SendingInv, TypeOK, Copies, Worked,
               notificationServiceFactory, isUserEligible
    <2>4. SendingInv'
      BY <1>8 DEF Drain, SendingInv, TypeOK, Copies
    <2>5. DeleteInv'
      BY <1>8 DEF Drain, DeleteInv, TypeOK
    <2> QED
      BY <2>1, <2>2, <2>3, <2>4, <2>5
  <1>9. ASSUME NEW i \in Instances, LoseWork(i) PROVE IInv'
    <2>1. TypeOK'
      BY <1>9 DEF LoseWork, TypeOK, Stages
    <2>2. AcceptedInv'
      BY <1>9 DEF LoseWork, AcceptedInv, TypeOK, Worked
    <2>3. CopyInv'
      BY <1>9 DEF LoseWork, CopyInv, SendingInv, TypeOK, Copies, Worked,
               notificationServiceFactory, isUserEligible
    <2>4. SendingInv'
      BY <1>9 DEF LoseWork, SendingInv, TypeOK, Copies
    <2>5. DeleteInv'
      BY <1>9 DEF LoseWork, DeleteInv, TypeOK
    <2> QED
      BY <2>1, <2>2, <2>3, <2>4, <2>5
  <1>10. ASSUME NEW l \in Logins, NEW u \in Users,
               LoginDeletes(l, u)
        PROVE  IInv'
    <2>1. TypeOK'
      BY <1>10 DEF LoginDeletes, TypeOK, Stages
    <2>2. AcceptedInv'
      BY <1>10 DEF LoginDeletes, AcceptedInv, TypeOK, Worked
    <2>3. CopyInv'
      BY <1>10 DEF LoginDeletes, CopyInv, SendingInv, TypeOK, Copies, Worked,
               notificationServiceFactory, isUserEligible
    <2>4. SendingInv'
      BY <1>10 DEF LoginDeletes, SendingInv, TypeOK, Copies
    <2>5. DeleteInv'
      BY <1>10 DEF LoginDeletes, DeleteInv, TypeOK
    <2> QED
      BY <2>1, <2>2, <2>3, <2>4, <2>5
  <1>11. ASSUME NEW l \in Logins, DeleteProcessed(l) PROVE IInv'
    <2>1. TypeOK'
      BY <1>11 DEF DeleteProcessed, TypeOK, Stages
    <2>2. AcceptedInv'
      BY <1>11 DEF DeleteProcessed, AcceptedInv, TypeOK, Worked
    <2>3. CopyInv'
      BY <1>11 DEF DeleteProcessed, CopyInv, SendingInv, TypeOK, Copies, Worked,
               notificationServiceFactory, isUserEligible
    <2>4. SendingInv'
      BY <1>11 DEF DeleteProcessed, SendingInv, TypeOK, Copies
    <2>5. DeleteInv'
      BY <1>11 DEF DeleteProcessed, DeleteInv, TypeOK
    <2> QED
      BY <2>1, <2>2, <2>3, <2>4, <2>5
  <1>12. CASE UNCHANGED vars
    BY <1>12 DEF vars, processVars, TypeOK, AcceptedInv, CopyInv, SendingInv,
             DeleteInv, notificationServiceFactory, isUserEligible
  <1> QED
    BY <1>1, <1>2, <1>3, <1>4, <1>5, <1>6,
       <1>7, <1>8, <1>9, <1>10, <1>11, <1>12 DEF Next, GracefulExit, Crash

LEMMA Invariance == Safe => []IInv
  BY InitIInv, NextIInv, PTL DEF Safe

-----------------------------------------------------------------------------

(* Every state of the registration flow is well typed, however the clock,  *)
(* the retries of the queue client and the exits interleave.               *)
THEOREM TypeCorrect == Safe => []TypeOK
  <1>1. IInv => TypeOK
    BY DEF IInv
  <1> QED
    BY <1>1, Invariance, PTL

(* The 10 s delay of notificationController.ts:42-47 is enough: whatever   *)
(* the retries, no delete posted before the request was accepted is still  *)
(* in its queue when a copy of the installation message leaves.            *)
THEOREM DelayWorks == Safe => []DelayOutlastsDelete
  <1>1. IInv => DelayOutlastsDelete
    <2> SUFFICES ASSUME IInv,
                        NEW c \in net \union queued, NEW l \in Logins,
                        del[l] # "none",
                        delAt[l] <= acceptedAt[c.req],
                        del[l] # "processed"
                 PROVE  FALSE
      BY DEF DelayOutlastsDelete
    <2>1. del[l] = "queued" /\ c.req \in Requests
      BY DEF IInv, TypeOK, Copies
    <2>2. now <= delAt[l] + DeleteLag
      BY <2>1 DEF IInv, DeleteInv
    <2>3. now >= acceptedAt[c.req] + Delay
      BY DEF IInv, CopyInv
    <2> QED
      BY <2>1, <2>2, <2>3, TimeAssumption DEF IInv, TypeOK
  <1> QED
    BY <1>1, Invariance, PTL

(* Duplicates come from the queue client only: a request has at most one   *)
(* copy per attempt, and none unless it was answered 200.                  *)
THEOREM AtMostOneCopyPerAttempt == Safe => []CopiesAreAttempts
  <1>1. IInv => CopiesAreAttempts
    <2> SUFFICES ASSUME IInv, NEW r \in Requests
                 PROVE  /\ Cardinality(CopiesOf(r)) <= tries[r]
                        /\ CopiesOf(r) # {} => answer[r] = "200"
      BY DEF CopiesAreAttempts
    <2>1. tries[r] \in Nat
      BY TriesAssumption DEF IInv, TypeOK
    <2>2. \A c \in CopiesOf(r): /\ c \in Copies
                               /\ c.req = r
                               /\ c.try \in 1..tries[r]
                               /\ c.queue = notificationServiceFactory(host[r], user[r])
      BY TriesAssumption DEF CopiesOf, IInv, CopyInv, TypeOK, Copies
    <2> DEFINE attempt == [c \in CopiesOf(r) |-> c.try]
    <2>3. attempt \in [CopiesOf(r) -> 1..tries[r]]
      BY <2>2
    <2>4. \A c, d \in CopiesOf(r): attempt[c] = attempt[d] => c = d
      BY <2>2 DEF Copies
    <2>5. attempt \in Injection(CopiesOf(r), 1..tries[r])
      BY <2>3, <2>4 DEF Injection, IsInjective
    <2>6. IsFiniteSet(1..tries[r]) /\ Cardinality(1..tries[r]) = tries[r]
      BY <2>1, FS_Interval
    <2>7. Cardinality(CopiesOf(r)) <= tries[r]
      BY <2>5, <2>6, FS_Injection
    <2>8. CopiesOf(r) # {} => answer[r] = "200"
      BY <2>2 DEF CopiesOf, IInv, CopyInv, AcceptedInv
    <2> QED
      BY <2>7, <2>8
  <1> QED
    BY <1>1, Invariance, PTL

(* Moving the flag forward never moves a user back to the old queue.       *)
THEOREM RolloutMonotone == Safe => []RolloutIsMonotone
  <1>1. IInv => RolloutIsMonotone
    <2> SUFFICES ASSUME IInv, NEW c \in queued, NEW d \in queued,
                        user[c.req] = user[d.req],
                        Rank[FlagOf[host[c.req]]] <= Rank[FlagOf[host[d.req]]],
                        c.queue = "push"
                 PROVE  d.queue = "push"
      BY DEF RolloutIsMonotone
    <2>1. host[c.req] \in Instances /\ host[d.req] \in Instances
      BY DEF IInv, CopyInv, AcceptedInv, TypeOK, Copies
    <2>2. FlagOf[host[c.req]] \in Flags /\ FlagOf[host[d.req]] \in Flags
      BY <2>1, FlagAssumption
    <2>3. isUserEligible(host[c.req], user[c.req])
      BY DEF IInv, CopyInv, notificationServiceFactory
    <2>4. isUserEligible(host[d.req], user[d.req])
      BY <2>2, <2>3 DEF isUserEligible, Rank, Flags
    <2> QED
      BY <2>4 DEF IInv, CopyInv, notificationServiceFactory
  <1> QED
    BY <1>1, Invariance, PTL

-----------------------------------------------------------------------------
(* The refinement: every step of the flow is a step of the promise, or     *)
(* leaves it as it is.                                                     *)

LEMMA InitPromise == Init => Promise!Init
  BY DEF Init, Promise!Init, phase

LEMMA NextPromise == IInv /\ [Next]_vars => [Promise!Next]_phase
  <1> SUFFICES ASSUME IInv, [Next]_vars PROVE [Promise!Next]_phase
    OBVIOUS
  <1> USE DEF IInv, queueVars, loginVars, requestVars
  <1>1. ASSUME stage' = stage, queued' = queued PROVE phase' = phase
    BY <1>1 DEF phase
  <1>2. CASE UNCHANGED vars \/ Tick
    BY <1>1, <1>2 DEF vars, Tick
  <1>3. ASSUME NEW r \in Requests,
               RejectInstallation(r) \/ DelayElapsed(r) \/ RetrySend(r)
        PROVE  phase' = phase
    BY <1>3 DEF RejectInstallation, DelayElapsed, RetrySend, phase, TypeOK
  <1>4. ASSUME NEW r \in Requests, NEW u \in Users, NEW i \in Instances,
               createOrUpdateInstallation(r, u, i)
        PROVE  Promise!Accept(r)
    <2>1. ~ \E c \in queued: c.req = r
      BY <1>4 DEF createOrUpdateInstallation, CopyInv, Worked
    <2> QED
      BY <1>4, <2>1 DEF createOrUpdateInstallation, TypeOK, phase,
                        Promise!Accept, Promise!Settle
  <1>5. ASSUME NEW r \in Requests, SendFails(r)
        PROVE  phase' = phase \/ Promise!Break({r})
    BY <1>5 DEF SendFails, TypeOK, phase, Promise!Break
  <1>6. ASSUME NEW c \in net, CopyEnqueued(c)
        PROVE  phase' = phase \/ Promise!Keep(c.req)
    <2>1. c.req \in Requests /\ stage[c.req] \in Worked
      BY DEF TypeOK, Copies, CopyInv
    <2>2. stage' = stage \/ stage' = [stage EXCEPT ![c.req] = "sent"]
      BY <1>6 DEF CopyEnqueued
    <2>3. queued' = queued \union {c}
      BY <1>6 DEF CopyEnqueued
    <2>4. CASE \E d \in queued: d.req = c.req
      BY <2>1, <2>2, <2>3, <2>4 DEF phase, TypeOK
    <2>5. CASE ~ \E d \in queued: d.req = c.req
      <3>1. phase[c.req] \in {"promised", "broken"}
        BY <2>1, <2>5 DEF phase, Worked
      <3>2. phase' = [phase EXCEPT ![c.req] = "kept"]
        BY <2>1, <2>2, <2>3, <2>5 DEF phase, TypeOK
      <3> QED
        BY <3>1, <3>2 DEF Promise!Keep, Promise!Settle
    <2> QED
      BY <2>4, <2>5
  <1>7. ASSUME NEW i \in Instances, LoseWork(i)
        PROVE  phase' = phase \/ \E R \in SUBSET Requests: Promise!Break(R)
    <2> DEFINE R == {r \in Requests: /\ host[r] = i
                                    /\ stage[r] \in {"delayed", "sending"}
                                    /\ ~ \E c \in queued: c.req = r}
    <2>1. \A r \in R: phase[r] = "promised"
      BY DEF phase
    <2>2. phase' = [r \in Requests |-> IF r \in R THEN "broken" ELSE phase[r]]
      BY <1>7 DEF LoseWork, TypeOK, phase
    <2>3. CASE R = {}
      BY <2>2, <2>3 DEF phase
    <2>4. CASE R # {}
      BY <2>1, <2>2, <2>4 DEF Promise!Break
    <2> QED
      BY <2>3, <2>4
  <1>8. ASSUME NEW i \in Instances, Drain(i) PROVE phase' = phase
    BY <1>1, <1>8 DEF Drain
  <1>9. ASSUME NEW l \in Logins,
               DeleteProcessed(l) \/ \E u \in Users: LoginDeletes(l, u)
        PROVE  phase' = phase
    BY <1>1, <1>9 DEF DeleteProcessed, LoginDeletes
  <1>10. ASSUME NEW r \in Requests, Promise!Break({r}) PROVE Promise!Next
    BY <1>10 DEF Promise!Next
  <1>11. ASSUME NEW c \in net, Promise!Keep(c.req) PROVE Promise!Next
    BY <1>11 DEF Promise!Next, TypeOK, Copies
  <1> QED
    BY <1>2, <1>3, <1>4, <1>5, <1>6, <1>7, <1>8, <1>9, <1>10, <1>11
       DEF Next, GracefulExit, Crash, Promise!Next

(* An accepted installation is queued unless its process exited or its     *)
(* queue client gave up, and nothing is queued that was not accepted: the  *)
(* safety half of PromiseKept.                                             *)
THEOREM ImplementsPromise == Safe => Promise!Safe
  BY InitPromise, NextPromise, Invariance, PTL DEF Safe, Promise!Safe

-----------------------------------------------------------------------------
(* How a registration ends. *)

(* Only a process that runs works on a registration, and a registration    *)
(* that ended has a reason to.                                             *)
EndInv ==
    \A r \in Requests:
        /\ stage[r] \in {"delayed", "sending"} => status[host[r]] # "exited"
        /\ stage[r] = "lost" => status[host[r]] = "exited"
        /\ stage[r] = "sent" => \E c \in queued: c.req = r

LEMMA EndStep == IInv /\ EndInv /\ [Next]_vars => EndInv'
  <1> SUFFICES ASSUME IInv, EndInv, [Next]_vars PROVE EndInv'
    OBVIOUS
  <1> USE DEF queueVars, loginVars, requestVars, processVars
  <1>0. TypeOK /\ AcceptedInv /\ CopyInv
    BY DEF IInv
  <1>1. CASE Tick \/ (\E l \in Logins: DeleteProcessed(l) \/ \E u \in Users: LoginDeletes(l, u))
               \/ UNCHANGED vars
    <2>1. UNCHANGED <<status, stage, host, tries, queued>>
      BY <1>1 DEF Tick, DeleteProcessed, LoginDeletes, vars
    <2> QED
      BY <2>1 DEF EndInv
  <1>2. ASSUME NEW r \in Requests, RejectInstallation(r) PROVE EndInv'
    BY <1>0, <1>2 DEF RejectInstallation, EndInv, TypeOK
  <1>3. ASSUME NEW r \in Requests, NEW u \in Users, NEW i \in Instances,
               createOrUpdateInstallation(r, u, i)
        PROVE  EndInv'
    BY <1>0, <1>3 DEF createOrUpdateInstallation, EndInv, TypeOK
  <1>4. ASSUME NEW r \in Requests, DelayElapsed(r) PROVE EndInv'
    BY <1>0, <1>4 DEF DelayElapsed, EndInv, TypeOK
  <1>5. ASSUME NEW r \in Requests, RetrySend(r) PROVE EndInv'
    BY <1>0, <1>5 DEF RetrySend, EndInv, TypeOK
  <1>6. ASSUME NEW r \in Requests, SendFails(r) PROVE EndInv'
    BY <1>0, <1>6 DEF SendFails, EndInv, TypeOK
  <1>7. ASSUME NEW c \in net, CopyEnqueued(c) PROVE EndInv'
    <2>1. c.req \in Requests
      BY <1>0 DEF TypeOK, Copies
    <2>2. /\ UNCHANGED <<status, host, tries>> /\ queued' = queued \union {c}
          /\ stage' = stage \/ stage' = [stage EXCEPT ![c.req] = "sent"]
      BY <1>7 DEF CopyEnqueued
    <2> QED
      BY <1>0, <2>1, <2>2 DEF EndInv, TypeOK
  <1>8. ASSUME NEW i \in Instances, Drain(i) PROVE EndInv'
    <2>1. UNCHANGED <<stage, host, tries, queued>>
      BY <1>8 DEF Drain
    <2>2. \A j \in Instances: (status'[j] = "exited") <=> (status[j] = "exited")
      BY <1>0, <1>8 DEF Drain, TypeOK
    <2>3. \A r \in Requests: stage[r] \in {"delayed", "sending", "lost"} => host[r] \in Instances
      BY <1>0 DEF AcceptedInv, Worked
    <2> QED
      BY <2>1, <2>2, <2>3 DEF EndInv
  <1>9. ASSUME NEW i \in Instances, LoseWork(i) PROVE EndInv'
    <2>1. UNCHANGED <<host, tries, queued>>
      BY <1>9 DEF LoseWork
    <2>2. \A j \in Instances: status'[j] = IF j = i THEN "exited" ELSE status[j]
      BY <1>0, <1>9 DEF LoseWork, TypeOK
    <2>3. \A r \in Requests: stage[r] \in {"delayed", "sending", "lost"} => host[r] \in Instances
      BY <1>0 DEF AcceptedInv, Worked
    <2>4. \A r \in Requests:
            stage'[r] = IF host[r] = i /\ stage[r] \in {"delayed", "sending"}
                        THEN "lost" ELSE stage[r]
      BY <1>9 DEF LoseWork
    <2> QED
      BY <2>1, <2>2, <2>3, <2>4 DEF EndInv
  <1> QED
    BY <1>1, <1>2, <1>3, <1>4, <1>5, <1>6, <1>7, <1>8, <1>9 DEF Next, GracefulExit, Crash

LEMMA AlwaysEnded == Safe => []EndInv
  <1>1. Init => EndInv
    BY DEF Init, EndInv
  <1> QED
    BY <1>1, EndStep, Invariance, PTL DEF Safe

(* What is being sent, or was rejected, was sent once its delay had passed. *)
AttemptInv ==
    \A r \in Requests: stage[r] \in {"sending", "failed"} =>
        tries[r] >= 1 /\ now >= acceptedAt[r] + Delay

LEMMA AttemptStep == TypeOK /\ AttemptInv /\ [Next]_vars => AttemptInv'
  <1> SUFFICES ASSUME TypeOK, AttemptInv, [Next]_vars, NEW r \in Requests,
                      stage'[r] \in {"sending", "failed"}
               PROVE  tries'[r] >= 1 /\ now' >= acceptedAt'[r] + Delay
    BY DEF AttemptInv
  <1> USE TimeAssumption DEF queueVars, loginVars, requestVars, processVars, TypeOK, AttemptInv
  <1>1. CASE Tick \/ (\E l \in Logins: DeleteProcessed(l) \/ \E u \in Users: LoginDeletes(l, u))
               \/ UNCHANGED vars
    BY <1>1 DEF Tick, DeleteProcessed, LoginDeletes, vars
  <1>2. ASSUME NEW q \in Requests,
               RejectInstallation(q)
                 \/ \E u \in Users, i \in Instances: createOrUpdateInstallation(q, u, i)
        PROVE  /\ q # r /\ stage'[r] = stage[r] /\ UNCHANGED <<now, tries>>
               /\ acceptedAt'[r] = acceptedAt[r]
    BY <1>2 DEF RejectInstallation, createOrUpdateInstallation
  <1>3. ASSUME NEW q \in Requests, DelayElapsed(q) \/ RetrySend(q) \/ SendFails(q)
        PROVE  tries'[r] >= 1 /\ now' >= acceptedAt'[r] + Delay
    BY <1>3 DEF DelayElapsed, RetrySend, SendFails
  <1>4. ASSUME NEW c \in net, CopyEnqueued(c)
        PROVE  UNCHANGED <<now, acceptedAt, tries>> /\ stage'[r] = stage[r]
    BY <1>4 DEF CopyEnqueued, Copies
  <1>5. ASSUME NEW i \in Instances, Drain(i) \/ LoseWork(i)
        PROVE  UNCHANGED <<now, acceptedAt, tries>> /\ stage'[r] = stage[r]
    BY <1>5 DEF Drain, LoseWork
  <1> QED
    BY <1>1, <1>2, <1>3, <1>4, <1>5 DEF Next, GracefulExit, Crash

LEMMA AlwaysAttempted == Safe => []AttemptInv
  <1>1. Init => AttemptInv
    BY DEF Init, AttemptInv
  <1> QED
    BY <1>1, AttemptStep, TypeCorrect, PTL DEF Safe

(* A promise is broken only by the exit of the process that made it, or by *)
(* the rejection of a send that was made, once the delay had passed; its   *)
(* citizen goes on believing the 200 he was answered.  A send that was     *)
(* reported to succeed is kept, and no promise pends in a process that has *)
(* exited: whoever waits for one waits for a process that runs.            *)
BrokenForAReason ==
    \A r \in Requests:
        /\ phase[r] = "broken" =>
             /\ answer[r] = "200"
             /\ \/ /\ stage[r] = "failed"
                   /\ tries[r] >= 1 /\ now >= acceptedAt[r] + Delay
                \/ stage[r] = "lost" /\ status[host[r]] = "exited"
        /\ stage[r] = "sent" => phase[r] = "kept"
        /\ phase[r] = "promised" => status[host[r]] # "exited"

(* Nothing else, no login, drain or other request, breaks a promise.       *)
THEOREM BreaksHaveReasons == Safe => []BrokenForAReason
  <1>1. IInv /\ EndInv /\ AttemptInv => BrokenForAReason
    <2> SUFFICES ASSUME IInv, EndInv, AttemptInv, NEW r \in Requests
                 PROVE  /\ phase[r] = "broken" =>
                             /\ answer[r] = "200"
                             /\ \/ /\ stage[r] = "failed"
                                   /\ tries[r] >= 1 /\ now >= acceptedAt[r] + Delay
                                \/ stage[r] = "lost" /\ status[host[r]] = "exited"
                        /\ stage[r] = "sent" => phase[r] = "kept"
                        /\ phase[r] = "promised" => status[host[r]] # "exited"
      BY DEF BrokenForAReason
    <2>1. stage[r] \in Stages
      BY DEF IInv, TypeOK
    <2>2. phase[r] = "broken" => stage[r] \in {"failed", "lost"}
      BY DEF phase
    <2>3. stage[r] = "sent" => phase[r] = "kept"
      BY DEF phase, EndInv
    <2>4. phase[r] = "promised" => stage[r] \in {"delayed", "sending"}
      BY <2>1, <2>3 DEF phase, Stages
    <2> QED
      BY <2>2, <2>3, <2>4 DEF EndInv, AttemptInv, IInv, AcceptedInv, Worked
  <1> QED
    BY <1>1, Invariance, AlwaysEnded, AlwaysAttempted, PTL

-----------------------------------------------------------------------------
(* What fairness brings about. *)

TimerIsDue(r) == stage[r] = "delayed" /\ now >= acceptedAt[r] + Delay

(* A timer that is due can fire, and a send that is not answered is tried  *)
(* again or given up: the only facts about ENABLED the arguments need.     *)
TimerIsEnabled == \A r \in Requests: TimerIsDue(r) => ENABLED <<DelayElapsed(r)>>_vars
SendIsEnabled ==
    \A r \in Requests: stage[r] = "sending" => ENABLED <<RetrySend(r) \/ SendFails(r)>>_vars

(* A pending registration changes by its timer, its queue client, an       *)
(* answer of the queue or the exit of its process, and by nothing else.    *)
LEMMA WorkStays ==
    ASSUME TypeOK, [Next]_vars, NEW r \in Requests, stage[r] \in {"delayed", "sending"}
    PROVE  /\ acceptedAt'[r] = acceptedAt[r] /\ now' \in Nat /\ now' >= now
           /\ stage[r] = "delayed" => stage'[r] \in {"delayed", "sending", "sent", "lost"}
           /\ stage[r] = "sending" =>
                \/ stage'[r] \in {"sent", "failed", "lost"}
                \/ stage'[r] = "sending" /\ tries'[r] \in {tries[r], tries[r] + 1}
  <1> USE DEF queueVars, loginVars, requestVars, processVars, TypeOK
  <1>1. CASE Tick \/ (\E l \in Logins: DeleteProcessed(l) \/ \E u \in Users: LoginDeletes(l, u))
               \/ UNCHANGED vars
    BY <1>1 DEF Tick, DeleteProcessed, LoginDeletes, vars
  <1>2. ASSUME NEW q \in Requests,
               RejectInstallation(q)
                 \/ \E u \in Users, i \in Instances: createOrUpdateInstallation(q, u, i)
        PROVE  /\ q # r /\ now' = now /\ stage'[r] = stage[r] /\ tries' = tries
               /\ acceptedAt'[r] = acceptedAt[r]
    BY <1>2 DEF RejectInstallation, createOrUpdateInstallation
  <1>3. ASSUME NEW q \in Requests, DelayElapsed(q) \/ RetrySend(q) \/ SendFails(q)
        PROVE  /\ now' = now /\ acceptedAt' = acceptedAt
               /\ \/ stage'[r] = stage[r] /\ tries'[r] = tries[r]
                  \/ stage[r] = "delayed" /\ stage'[r] = "sending"
                  \/ stage[r] = "sending" /\ stage'[r] = "failed"
                  \/ stage[r] = "sending" /\ stage'[r] = "sending" /\ tries'[r] = tries[r] + 1
    BY <1>3 DEF DelayElapsed, RetrySend, SendFails
  <1>4. ASSUME NEW c \in net, CopyEnqueued(c)
        PROVE  /\ UNCHANGED <<now, acceptedAt, tries>>
               /\ stage'[r] = stage[r] \/ stage'[r] = "sent"
    BY <1>4 DEF CopyEnqueued, Copies
  <1>5. ASSUME NEW i \in Instances, Drain(i) \/ LoseWork(i)
        PROVE  /\ UNCHANGED <<now, acceptedAt, tries>>
               /\ stage'[r] = stage[r] \/ stage'[r] = "lost"
    BY <1>5 DEF Drain, LoseWork
  <1> QED
    BY <1>1, <1>2, <1>3, <1>4, <1>5 DEF Next, GracefulExit, Crash

(* Provided a due timer can fire, it does or its process exits: no other   *)
(* request, retry, drain or login keeps it from doing so.                  *)
THEOREM DueTimerFires ==
    Spec /\ []TimerIsEnabled => \A r \in Requests: (TimerIsDue(r) ~> stage[r] # "delayed")
  <1>1. ASSUME NEW r \in Requests
        PROVE  Spec /\ []TimerIsEnabled => (TimerIsDue(r) ~> stage[r] # "delayed")
    <2> DEFINE Fired == stage[r] # "delayed"
    <2>1. TypeOK /\ TimerIsDue(r) /\ [Next]_vars => TimerIsDue(r)' \/ Fired'
      <3> SUFFICES ASSUME TypeOK, TimerIsDue(r), [Next]_vars PROVE TimerIsDue(r)' \/ Fired'
        OBVIOUS
      <3>1. acceptedAt'[r] = acceptedAt[r] /\ now' \in Nat /\ now' >= now
        BY WorkStays DEF TimerIsDue
      <3> QED
        BY <3>1, TimeAssumption DEF TimerIsDue, TypeOK
    <2>2. TypeOK /\ TimerIsDue(r) /\ <<DelayElapsed(r)>>_vars => Fired'
      BY DEF DelayElapsed, TypeOK
    <2>3. Spec => TimerRuns(r)
      BY DEF Spec, Fairness
    <2>4. TimerRuns(r) => []<>(~ENABLED <<DelayElapsed(r)>>_vars) \/ []<><<DelayElapsed(r)>>_vars
      BY PTL DEF TimerRuns
    <2>5. TimerIsEnabled => (TimerIsDue(r) => ENABLED <<DelayElapsed(r)>>_vars)
      BY DEF TimerIsEnabled
    <2> HIDE DEF Fired
    <2>6. Spec /\ []TimerIsEnabled => (TimerIsDue(r) ~> Fired)
      BY <2>1, <2>2, <2>3, <2>4, <2>5, TypeCorrect, PTL DEF Spec, Safe
    <2> QED
      BY <2>6 DEF Fired
  <1> QED
    BY <1>1

(* Provided the queue client can go on, a send that has made n attempts is *)
(* answered, given up, lost with its process, or tried again: the step of  *)
(* the induction, MaxTries long, by which every send ends.                 *)
THEOREM SendsGoOn ==
    ASSUME NEW n \in Nat
    PROVE  Spec /\ []SendIsEnabled => \A r \in Requests:
             (stage[r] = "sending" /\ tries[r] = n
                ~> stage[r] # "sending" \/ (tries[r] = n + 1 /\ n < MaxTries))
  <1>1. ASSUME NEW r \in Requests
        PROVE  Spec /\ []SendIsEnabled =>
                 (stage[r] = "sending" /\ tries[r] = n
                    ~> stage[r] # "sending" \/ (tries[r] = n + 1 /\ n < MaxTries))
    <2> DEFINE Tried == stage[r] = "sending" /\ tries[r] = n
               Further == stage[r] # "sending" \/ (tries[r] = n + 1 /\ n < MaxTries)
               Goes == RetrySend(r) \/ SendFails(r)
    <2>1. TypeOK /\ TypeOK' /\ Tried /\ [Next]_vars => Tried' \/ Further'
      <3> SUFFICES ASSUME TypeOK, TypeOK', Tried, [Next]_vars PROVE Tried' \/ Further'
        OBVIOUS
      <3>1. stage'[r] # "sending" \/ tries'[r] \in {n, n + 1}
        BY WorkStays
      <3>2. tries'[r] \in 0..MaxTries
        BY DEF TypeOK
      <3> QED
        BY <3>1, <3>2, TriesAssumption
    <2>2. TypeOK /\ Tried /\ <<Goes>>_vars => Further'
      BY DEF RetrySend, SendFails, TypeOK
    <2>3. Spec => SendGoesOn(r)
      BY DEF Spec, Fairness
    <2>4. SendGoesOn(r) => []<>(~ENABLED <<Goes>>_vars) \/ []<><<Goes>>_vars
      BY PTL DEF SendGoesOn
    <2>5. SendIsEnabled => (Tried => ENABLED <<Goes>>_vars)
      BY DEF SendIsEnabled
    <2> HIDE DEF Tried, Further, Goes
    <2>6. Spec /\ []SendIsEnabled => (Tried ~> Further)
      BY <2>1, <2>2, <2>3, <2>4, <2>5, TypeCorrect, PTL DEF Spec, Safe
    <2> QED
      BY <2>6 DEF Tried, Further
  <1> QED
    BY <1>1
=============================================================================
