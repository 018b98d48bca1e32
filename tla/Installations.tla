---------------------------- MODULE Installations ----------------------------
(***************************************************************************)
(* Registration of a device for push notifications: PUT /installations.    *)
(*                                                                         *)
(* The controller answers 200 at once and arms a 10 s timer; when the      *)
(* timer fires, the notification service chosen by the feature flag of     *)
(* the process posts one CreateOrUpdateInstallation message to its queue.  *)
(* The delay lets the DeleteInstallation message, which the login service  *)
(* posts at every login, be processed first.  Nothing of this is durable:  *)
(* the pending timers live in the memory of the process (an instance).     *)
(*                                                                         *)
(* Time is a counter of ticks.  An instance is one process incarnation: a  *)
(* restart is another element of Instances.                                *)
(***************************************************************************)
EXTENDS Integers, FiniteSets

CONSTANTS
    Users,        \* citizens, named by their fiscal code
    Requests,     \* PUT requests; a request stands for its Installation body
    Instances,    \* processes of the backend
    Logins,       \* logins at the (external) login service
    FlagOf,       \* FF_ROUTING_PUSH_NOTIF each process was started with
    BetaTesters,  \* users of the beta list
    CanaryUsers,  \* users whose hash matches the canary regex
    Delay,        \* the 10 000 ms of the controller, in ticks
    DeleteLag,    \* bound on the time a DeleteInstallation stays in its queue
    MaxTries,     \* attempts of the queue client for one sendMessage
    MaxTime,      \* bound of the model: the clock stops here
    NoUser,
    NoInstance

Flags == {"NONE", "BETA", "CANARY", "ALL"}

ASSUME FlagAssumption == FlagOf \in [Instances -> Flags]
ASSUME TimeAssumption ==
    /\ Delay \in Nat
    /\ DeleteLag \in Nat
    /\ DeleteLag < Delay
    /\ MaxTime \in Nat
ASSUME TriesAssumption == MaxTries \in Nat \ {0}
ASSUME NoneAssumption == NoUser \notin Users /\ NoInstance \notin Instances

VARIABLES
    now,         \* the clock
    status,      \* what each process does: serving, draining, exited
    stage,       \* how far the work of each request has come
    answer,      \* HTTP status the client of a request has received
    user,        \* user of an accepted request
    host,        \* process that accepted it
    acceptedAt,  \* when it was accepted
    tries,       \* attempts its sendMessage has made
    net,         \* copies of messages on their way to a queue
    queued,      \* copies that have ever entered a queue
    del,         \* state of the DeleteInstallation of each login
    delUser,     \* its user
    delAt        \* when it was posted

processVars == <<status>>
requestVars == <<stage, answer, user, host, acceptedAt, tries>>
queueVars == <<net, queued>>
loginVars == <<del, delUser, delAt>>
vars == <<now, processVars, requestVars, queueVars, loginVars>>

Stages == {"new", "rejected", "delayed", "sending", "sent", "failed", "lost"}
Queues == {"old", "push"}
Copies == [req: Requests, try: 1..MaxTries, queue: Queues]

-----------------------------------------------------------------------------
(* Which notification service a process uses for a user. *)

(* Operators named Bug... are plausible mistakes, not part of the model:   *)
(* each shows that a property can tell the model from the mistake.         *)
BugCanaryWithoutBeta(i, u) ==
    \/ FlagOf[i] = "ALL"
    \/ FlagOf[i] = "BETA" /\ u \in BetaTesters
    \/ FlagOf[i] = "CANARY" /\ u \in CanaryUsers

isUserEligible(i, u) ==
    \/ FlagOf[i] = "ALL"
    \/ FlagOf[i] = "BETA" /\ u \in BetaTesters
    \/ FlagOf[i] = "CANARY" /\ (u \in CanaryUsers \/ u \in BetaTesters)

notificationServiceFactory(i, u) == IF isUserEligible(i, u) THEN "push" ELSE "old"

-----------------------------------------------------------------------------

Init ==
    /\ now = 0
    /\ status = [i \in Instances |-> "up"]
    /\ stage = [r \in Requests |-> "new"]
    /\ answer = [r \in Requests |-> "none"]
    /\ user = [r \in Requests |-> NoUser]
    /\ host = [r \in Requests |-> NoInstance]
    /\ acceptedAt = [r \in Requests |-> 0]
    /\ tries = [r \in Requests |-> 0]
    /\ net = {}
    /\ queued = {}
    /\ del = [l \in Logins |-> "none"]
    /\ delUser = [l \in Logins |-> NoUser]
    /\ delAt = [l \in Logins |-> 0]

(* The user, the installation id or the body do not decode: 400, no timer. *)
RejectInstallation(r) ==
    /\ stage[r] = "new"
    /\ \E i \in Instances: status[i] = "up"
    /\ stage' = [stage EXCEPT ![r] = "rejected"]
    /\ answer' = [answer EXCEPT ![r] = "400"]
    /\ UNCHANGED <<now, status, user, host, acceptedAt, tries, queueVars, loginVars>>

(* The request is valid: 200 is returned and the timer is armed. *)
createOrUpdateInstallation(r, u, i) ==
    /\ stage[r] = "new"
    /\ status[i] = "up"
    /\ now + Delay <= MaxTime
    /\ stage' = [stage EXCEPT ![r] = "delayed"]
    /\ answer' = [answer EXCEPT ![r] = "200"]
    /\ user' = [user EXCEPT ![r] = u]
    /\ host' = [host EXCEPT ![r] = i]
    /\ acceptedAt' = [acceptedAt EXCEPT ![r] = now]
    /\ UNCHANGED <<now, status, tries, queueVars, loginVars>>

BugNoDelay(r) ==
    /\ stage[r] = "delayed"
    /\ stage' = [stage EXCEPT ![r] = "sending"]
    /\ tries' = [tries EXCEPT ![r] = 1]
    /\ net' = net \union {[req |-> r, try |-> 1,
                           queue |-> notificationServiceFactory(host[r], user[r])]}
    /\ UNCHANGED <<now, status, answer, user, host, acceptedAt, queued, loginVars>>

BugSendToBothQueues(r) ==
    /\ stage[r] = "delayed"
    /\ now >= acceptedAt[r] + Delay
    /\ stage' = [stage EXCEPT ![r] = "sending"]
    /\ tries' = [tries EXCEPT ![r] = 1]
    /\ net' = net \union {[req |-> r, try |-> 1, queue |-> q]: q \in Queues}
    /\ UNCHANGED <<now, status, answer, user, host, acceptedAt, queued, loginVars>>

BugTimersStopOnSignal(r) ==
    /\ stage[r] = "delayed"
    /\ status[host[r]] = "up"
    /\ now >= acceptedAt[r] + Delay
    /\ stage' = [stage EXCEPT ![r] = "sending"]
    /\ tries' = [tries EXCEPT ![r] = 1]
    /\ net' = net \union {[req |-> r, try |-> 1,
                           queue |-> notificationServiceFactory(host[r], user[r])]}
    /\ UNCHANGED <<now, status, answer, user, host, acceptedAt, queued, loginVars>>

(* The timer fires: the factory picks the service, which calls sendMessage. *)
DelayElapsed(r) ==
    /\ stage[r] = "delayed"
    /\ now >= acceptedAt[r] + Delay
    /\ stage' = [stage EXCEPT ![r] = "sending"]
    /\ tries' = [tries EXCEPT ![r] = 1]
    /\ net' = net \union {[req |-> r, try |-> 1,
                           queue |-> notificationServiceFactory(host[r], user[r])]}
    /\ UNCHANGED <<now, status, answer, user, host, acceptedAt, queued, loginVars>>

BugRetryForever(r) ==
    /\ stage[r] = "sending"
    /\ tries' = [tries EXCEPT ![r] = @ + 1]
    /\ net' = net \union {[req |-> r, try |-> tries[r] + 1,
                           queue |-> notificationServiceFactory(host[r], user[r])]}
    /\ UNCHANGED <<now, status, stage, answer, user, host, acceptedAt, queued, loginVars>>

(* The queue client retries a send that failed or was not answered. *)
RetrySend(r) ==
    /\ stage[r] = "sending"
    /\ tries[r] < MaxTries
    /\ tries' = [tries EXCEPT ![r] = @ + 1]
    /\ net' = net \union {[req |-> r, try |-> tries[r] + 1,
                           queue |-> notificationServiceFactory(host[r], user[r])]}
    /\ UNCHANGED <<now, status, stage, answer, user, host, acceptedAt, queued, loginVars>>

(* sendMessage rejects, after any attempt: the last one failed, or the     *)
(* queue refused one for an error that is not retried.  The service turns  *)
(* the error into a response value that nobody reads, and the controller's *)
(* own catch is not reached.  A copy that timed out may still arrive.      *)
SendFails(r) ==
    /\ stage[r] = "sending"
    /\ stage' = [stage EXCEPT ![r] = "failed"]
    /\ UNCHANGED <<now, status, answer, user, host, acceptedAt, tries, queueVars, loginVars>>

(* A copy enters its queue; the answer resolves the promise if it reaches  *)
(* the attempt that is being awaited, and is lost otherwise.  A copy that   *)
(* never arrives is one that stays in net.                                 *)
CopyEnqueued(c) ==
    /\ c \in net
    /\ net' = net \ {c}
    /\ queued' = queued \union {c}
    /\ \/ /\ stage[c.req] = "sending" /\ tries[c.req] = c.try
          /\ stage' = [stage EXCEPT ![c.req] = "sent"]
       \/ stage' = stage
    /\ UNCHANGED <<now, status, answer, user, host, acceptedAt, tries, loginVars>>

-----------------------------------------------------------------------------
(* Processes.  A draining process accepts no connection and exits as soon  *)
(* as those it has are closed; it does not wait for timers.                *)

Drain(i) ==
    /\ status[i] = "up"
    /\ status' = [status EXCEPT ![i] = "draining"]
    /\ UNCHANGED <<now, requestVars, queueVars, loginVars>>

LoseWork(i) ==
    /\ status' = [status EXCEPT ![i] = "exited"]
    /\ stage' = [r \in Requests |->
                   IF host[r] = i /\ stage[r] \in {"delayed", "sending"}
                   THEN "lost" ELSE stage[r]]
    /\ UNCHANGED <<now, answer, user, host, acceptedAt, tries, queueVars, loginVars>>

GracefulExit(i) == status[i] = "draining" /\ LoseWork(i)

Crash(i) == status[i] = "up" /\ LoseWork(i)

-----------------------------------------------------------------------------
(* The login service and the consumer of the queues, both external.        *)

LoginDeletes(l, u) ==
    /\ del[l] = "none"
    /\ del' = [del EXCEPT ![l] = "queued"]
    /\ delUser' = [delUser EXCEPT ![l] = u]
    /\ delAt' = [delAt EXCEPT ![l] = now]
    /\ UNCHANGED <<now, status, requestVars, queueVars>>

DeleteProcessed(l) ==
    /\ del[l] = "queued"
    /\ del' = [del EXCEPT ![l] = "processed"]
    /\ UNCHANGED <<now, status, requestVars, queueVars, delUser, delAt>>

(* A delete is processed before DeleteLag ticks have passed. *)
Tick ==
    /\ now < MaxTime
    /\ \A l \in Logins: del[l] = "queued" => now < delAt[l] + DeleteLag
    /\ now' = now + 1
    /\ UNCHANGED <<status, requestVars, queueVars, loginVars>>

-----------------------------------------------------------------------------

Next ==
    \/ Tick
    \/ \E r \in Requests:
         \/ RejectInstallation(r)
         \/ \E u \in Users, i \in Instances: createOrUpdateInstallation(r, u, i)
         \/ DelayElapsed(r)
         \/ RetrySend(r)
         \/ SendFails(r)
    \/ \E c \in net: CopyEnqueued(c)
    \/ \E i \in Instances: Drain(i) \/ GracefulExit(i) \/ Crash(i)
    \/ \E l \in Logins: DeleteProcessed(l) \/ \E u \in Users: LoginDeletes(l, u)

(* The event loop runs due timers, the queue client's retry policy is      *)
(* finite, the consumer keeps up and time passes.  Neither clients, nor    *)
(* logins, nor the network, nor exits are fair.                            *)
TimePasses == WF_vars(Tick)
TimerRuns(r) == WF_vars(DelayElapsed(r))
SendGoesOn(r) == WF_vars(RetrySend(r) \/ SendFails(r))
DeleteGoesOn(l) == WF_vars(DeleteProcessed(l))
Fairness ==
    /\ TimePasses
    /\ \A r \in Requests: TimerRuns(r) /\ SendGoesOn(r)
    /\ \A l \in Logins: DeleteGoesOn(l)

Safe == Init /\ [][Next]_vars
Spec == Safe /\ Fairness

-----------------------------------------------------------------------------

TypeOK ==
    /\ now \in Nat
    /\ status \in [Instances -> {"up", "draining", "exited"}]
    /\ stage \in [Requests -> Stages]
    /\ answer \in [Requests -> {"none", "200", "400"}]
    /\ user \in [Requests -> Users \union {NoUser}]
    /\ host \in [Requests -> Instances \union {NoInstance}]
    /\ acceptedAt \in [Requests -> Nat]
    /\ tries \in [Requests -> 0..MaxTries]
    /\ net \subseteq Copies
    /\ queued \subseteq Copies
    /\ del \in [Logins -> {"none", "queued", "processed"}]
    /\ delUser \in [Logins -> Users \union {NoUser}]
    /\ delAt \in [Logins -> Nat]

(* The workaround of notificationController.ts:42-47 works: when an        *)
(* installation message reaches the network, every delete posted by a      *)
(* login of the same user that came before the request was accepted has    *)
(* been processed, so it can no longer wipe the new installation.          *)
DelayOutlastsDelete ==
    \A c \in net \union queued, l \in Logins:
        (/\ del[l] # "none"
         /\ delUser[l] = user[c.req]
         /\ delAt[l] <= acceptedAt[c.req]) => del[l] = "processed"

(* The code sends once: a second copy of a message exists only because the *)
(* queue client retried, copies never outnumber the attempts, and no       *)
(* request that was not answered 200 has one.                              *)
CopiesOf(r) == {c \in net \union queued: c.req = r}
CopiesAreAttempts ==
    \A r \in Requests:
        /\ Cardinality(CopiesOf(r)) <= tries[r]
        /\ CopiesOf(r) # {} => answer[r] = "200"

(* Rolling the flag forward (NONE, BETA, CANARY, ALL) while processes with *)
(* both values run never moves a user back: if a process with the lower    *)
(* flag used the new queue for a user, so does one with the higher flag.   *)
Rank == [NONE |-> 0, BETA |-> 1, CANARY |-> 2, ALL |-> 3]
RolloutIsMonotone ==
    \A c, d \in queued:
        (/\ user[c.req] = user[d.req]
         /\ Rank[FlagOf[host[c.req]]] <= Rank[FlagOf[host[d.req]]]
         /\ c.queue = "push") => d.queue = "push"

(* The answer of the OpenAPI document: an installation whose registration  *)
(* failed was answered 500.  The code answers before it tries.             *)
RegistrationErrorAnswered500 ==
    \A r \in Requests: stage[r] = "failed" => answer[r] = "500"

(* The comment at notificationController.ts:42: a login deletes what was   *)
(* registered before it.  A timer pending at the login undoes the delete.  *)
LoginDeletesEarlierInstallations ==
    [][\A c \in queued' \ queued, l \in Logins:
         (/\ delUser[l] = user[c.req]
          /\ acceptedAt[c.req] < delAt[l]) => del[l] # "processed"]_vars

-----------------------------------------------------------------------------
(* What the endpoint promises, see InstallationPromise. *)

phase == [r \in Requests |->
            IF \E c \in queued: c.req = r THEN "kept"
            ELSE IF stage[r] \in {"failed", "lost"} THEN "broken"
            ELSE IF stage[r] \in {"new", "rejected"} THEN "none"
            ELSE "promised"]

Promise == INSTANCE InstallationPromise WITH Requests <- Requests, phase <- phase

(* Every accepted installation is queued, or its process exited or its     *)
(* queue client gave up; nothing is queued that was not accepted.          *)
PromiseKept == Promise!Spec
=============================================================================
