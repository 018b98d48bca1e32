----------------------- MODULE ServerLifecycle_proofs -----------------------
(***************************************************************************)
(* Proofs about ServerLifecycle, for any requests and timeouts.            *)
(***************************************************************************)
EXTENDS ServerLifecycle, TLAPS

(* What each stage of the process guarantees. *)
StageInv ==
    /\ stage = "connectSafe" => redis["FAST"] = "open"
    /\ stage \in {"setup", "serving", "stopping"} => \A c \in Clients: redis[c] = "open"
    /\ stage = "stopping" => listener
    /\ stage = "serving" => listener
    /\ stage = "stopped" => flushed /\ \A c \in Clients: redis[c] \in {"quitting", "closed"}
    /\ \A r \in Requests:
         /\ req[r] = "open" => stage \in {"serving", "stopping"}
         /\ req[r] = "cut" => stage = "exited"
    /\ exitCode # "none" => stage = "exited"

IInv == TypeOK /\ StageInv /\ GracefulExitIsComplete /\ CutOnlyAtTimeout

LEMMA InitIInv == Init => IInv
  <1>1. ASSUME Init PROVE TypeOK
    <2>1. now \in Nat /\ signalAt \in Nat /\ env \in Environments
      BY <1>1 DEF Init
    <2>2. redis \in [Clients -> {"none", "open", "quitting", "closed"}]
      BY <1>1 DEF Init
    <2>3. req \in [Requests -> {"none", "open", "answered", "cut"}]
      BY <1>1 DEF Init
    <2> QED
      BY <1>1, <2>1, <2>2, <2>3 DEF Init, TypeOK, Stages, Exits
  <1>2. Init => StageInv
    BY DEF Init, StageInv, Clients
  <1>3. Init => GracefulExitIsComplete /\ CutOnlyAtTimeout
    BY DEF Init, GracefulExitIsComplete, CutOnlyAtTimeout
  <1> QED
    BY <1>1, <1>2, <1>3 DEF IInv

LEMMA TypeStep == TypeOK /\ [Next]_vars => TypeOK'
  <1> SUFFICES ASSUME TypeOK, [Next]_vars PROVE TypeOK'
    OBVIOUS
  <1> USE DEF TypeOK, Stages, Exits, Clients
  <1>1. ASSUME NEW code \in {"0", "1", "signal"}, Exit(code)
        PROVE  /\ stage' \in Stages /\ exitCode' \in Exits
               /\ req' \in [Requests -> {"none", "open", "answered", "cut"}]
               /\ redis' \in [Clients -> {"none", "open", "quitting", "closed"}]
    BY <1>1 DEF Exit
  <1>2. CASE RedisClientSelector
    BY <1>1, <1>2 DEF RedisClientSelector, createClusterRedisClient
  <1>3. CASE newApp \/ Signal
    BY <1>1, <1>3 DEF newApp, Signal
  <1>4. CASE initHttpGracefulShutdown
    BY <1>1, <1>4 DEF initHttpGracefulShutdown, quit
  <1>5. CASE ExitAfterFinally \/ ShutdownTimeout \/ Crash
    BY <1>1, <1>5 DEF ExitAfterFinally, ShutdownTimeout, Crash
  <1>6. CASE Tick \/ \E r \in Requests: Accept(r) \/ Answer(r)
    BY <1>6 DEF Tick, Accept, Answer
  <1>7. CASE \E c \in Clients: QuitEnds(c)
    BY <1>7 DEF QuitEnds
  <1> QED
    BY <1>2, <1>3, <1>4, <1>5, <1>6, <1>7 DEF Next, Process, vars

(* An exit keeps what was true of a graceful stop and cuts what is open. *)
LEMMA ExitKeeps ==
    ASSUME IInv, NEW code \in {"0", "1", "signal"}, Exit(code), stage # "exited",
           code = "0" => stage = "stopped",
           code = "1" => \/ \A r \in Requests: req[r] # "open"
                         \/ now >= signalAt + shutdownTimeout,
           UNCHANGED <<now, env, signalAt>>, flushed => flushed'
    PROVE  StageInv' /\ GracefulExitIsComplete' /\ CutOnlyAtTimeout'
  BY DEF IInv, TypeOK, StageInv, GracefulExitIsComplete, CutOnlyAtTimeout, Exit, shutdownTimeout

LEMMA StageStep == IInv /\ [Next]_vars => StageInv' /\ GracefulExitIsComplete' /\ CutOnlyAtTimeout'
  <1> DEFINE Kept == StageInv' /\ GracefulExitIsComplete' /\ CutOnlyAtTimeout'
  <1> SUFFICES ASSUME IInv, [Next]_vars PROVE Kept
    OBVIOUS
  <1> USE DEF TypeOK, StageInv, GracefulExitIsComplete, CutOnlyAtTimeout, Clients, shutdownTimeout
  <1>1. CASE RedisClientSelector
    <2>1. CASE Exit("1")
      BY <1>1, <2>1, ExitKeeps DEF IInv, RedisClientSelector, createClusterRedisClient
    <2>2. CASE ~ Exit("1")
      BY <1>1, <2>2 DEF IInv, RedisClientSelector, createClusterRedisClient
    <2> QED
      BY <2>1, <2>2
  <1>2. CASE newApp
    <2>1. CASE Exit("1")
      BY <1>2, <2>1, ExitKeeps DEF IInv, newApp
    <2>2. CASE ~ Exit("1")
      BY <1>2, <2>2 DEF IInv, newApp
    <2> QED
      BY <2>1, <2>2
  <1>3. CASE Signal
    <2>1. CASE Exit("signal")
      BY <1>3, <2>1, ExitKeeps DEF IInv, Signal
    <2>2. CASE ~ Exit("signal")
      BY <1>3, <2>2 DEF IInv, Signal
    <2> QED
      BY <2>1, <2>2
  <1>4. CASE initHttpGracefulShutdown
    <2>1. CASE Exit("1")
      BY <1>4, <2>1, ExitKeeps DEF IInv, initHttpGracefulShutdown
    <2>2. CASE ~ Exit("1")
      BY <1>4, <2>2 DEF IInv, initHttpGracefulShutdown, quit
    <2> QED
      BY <2>1, <2>2
  <1>5. CASE ExitAfterFinally
    BY <1>5, ExitKeeps DEF IInv, ExitAfterFinally
  <1>6. CASE ShutdownTimeout
    BY <1>6, ExitKeeps DEF IInv, ShutdownTimeout
  <1>7. CASE Crash
    BY <1>7, ExitKeeps DEF IInv, Crash
  <1>8. CASE Tick
    <2>1. shutdownTimeout \in Nat
      BY EnvironmentAssumption, TimeoutAssumption DEF IInv, Environment
    <2> QED
      BY <1>8, <2>1 DEF IInv, Tick
  <1>9. CASE \E r \in Requests: Accept(r) \/ Answer(r)
    BY <1>9 DEF IInv, Accept, Answer
  <1>10. CASE \E c \in Clients: QuitEnds(c)
    BY <1>10 DEF IInv, QuitEnds
  <1>11. CASE UNCHANGED vars
    BY <1>11 DEF IInv, vars
  <1> QED
    BY <1>1, <1>2, <1>3, <1>4, <1>5, <1>6, <1>7, <1>8, <1>9, <1>10, <1>11 DEF Next, Process

LEMMA Invariance == Safe => []IInv
  <1>1. IInv /\ [Next]_vars => IInv'
    BY TypeStep, StageStep DEF IInv
  <1> QED
    BY InitIInv, <1>1, PTL DEF Safe

(* The process and its requests are well typed. *)
THEOREM TypeCorrect == Safe => []TypeOK
  <1>1. IInv => TypeOK
    BY DEF IInv
  <1> QED
    BY <1>1, Invariance, PTL

(* Whenever a request is open both Redis clients are, for any number of    *)
(* requests.                                                               *)
THEOREM RedisForRequests == Safe => []RedisOutlivesRequests
  <1>1. IInv => RedisOutlivesRequests
    BY DEF IInv, StageInv, RedisOutlivesRequests
  <1> QED
    BY <1>1, Invariance, PTL

(* A process that exits with code 0 has answered every request. *)
THEOREM GracefulExit == Safe => []GracefulExitIsComplete
  <1>1. IInv => GracefulExitIsComplete
    BY DEF IInv
  <1> QED
    BY <1>1, Invariance, PTL

(* Whatever the timeout, no exit of the process cuts a request before it. *)
THEOREM NoEarlyCut == Safe => []CutOnlyAtTimeout
  <1>1. IInv => CutOnlyAtTimeout
    BY DEF IInv
  <1> QED
    BY <1>1, Invariance, PTL

-----------------------------------------------------------------------------
(* How a stop comes to its end. *)

Deadline == signalAt + shutdownTimeout

\* A stop that waits for nothing but the process itself.
Due ==
    \/ stage = "stopped"
    \/ stage = "stopping" /\ (now >= Deadline \/ \A r \in Requests: req[r] # "open")

(* The process can take the step that is due, and time can pass until the  *)
(* timer is: the only facts about ENABLED the arguments need.              *)
DueIsEnabled == Due => ENABLED <<Process>>_vars
TimeIsEnabled == (stage = "stopping" /\ now < Deadline) => ENABLED <<Tick>>_vars

Exited == stage = "exited"

LEMMA DeadlineIsTime == TypeOK => Deadline \in Nat /\ shutdownTimeout \in Nat
  BY EnvironmentAssumption, TimeoutAssumption DEF TypeOK, Environment, shutdownTimeout, Deadline

LEMMA DeadlineIsFixed ==
    ASSUME [Next]_vars, stage # "serving"
    PROVE  Deadline' = Deadline
  <1>1. env' = env /\ signalAt' = signalAt
    <2>1. CASE Process
      BY <2>1 DEF Process, RedisClientSelector, createClusterRedisClient, newApp,
                  initHttpGracefulShutdown, ExitAfterFinally, ShutdownTimeout
    <2>2. CASE Signal
      BY <2>2 DEF Signal
    <2>3. CASE ~ Process /\ ~ Signal
      BY <2>3 DEF Next, Crash, Tick, Accept, Answer, QuitEnds, vars
    <2> QED
      BY <2>1, <2>2, <2>3
  <1> QED
    BY <1>1 DEF Deadline, shutdownTimeout

\* A stop goes on, and a process that has exited does not return.
LEMMA StopGoesOn ==
    ASSUME [Next]_vars, stage \in {"stopping", "stopped", "exited"}
    PROVE  /\ stage' = stage \/ Exited' \/ (stage = "stopping" /\ stage' = "stopped")
           /\ (stage = "stopping" /\ stage' = "stopping") =>
                 /\ \A r \in Requests: req'[r] = "open" => req[r] = "open"
                 /\ now' = now \/ Tick
  <1> USE DEF Exit, Exited
  <1>1. CASE Process
    BY <1>1 DEF Process, RedisClientSelector, createClusterRedisClient, newApp,
                initHttpGracefulShutdown, ExitAfterFinally, ShutdownTimeout
  <1>2. CASE Signal \/ Crash
    BY <1>2 DEF Signal, Crash
  <1>3. ASSUME NEW r \in Requests, Answer(r)
        PROVE  stage' = stage /\ now' = now /\ \A q \in Requests: req'[q] = "open" => req[q] = "open"
    BY <1>3 DEF Answer
  <1>4. CASE Tick
    BY <1>4 DEF Tick
  <1>5. CASE UNCHANGED vars \/ \E r \in Requests: Accept(r)
    BY <1>5 DEF vars, Accept
  <1>6. CASE \E c \in Clients: QuitEnds(c)
    BY <1>6 DEF QuitEnds
  <1> QED
    BY <1>1, <1>2, <1>3, <1>4, <1>5, <1>6 DEF Next

LEMMA DueStays ==
    ASSUME TypeOK, [Next]_vars, Due
    PROVE  Due' \/ Exited'
  <1>1. stage \in {"stopping", "stopped"}
    BY DEF Due
  <1>2. Deadline' = Deadline /\ Deadline \in Nat
    BY <1>1, DeadlineIsFixed, DeadlineIsTime
  <1>3. CASE stage' = "stopping"
    <2>0. stage = "stopping" /\ (now' = now \/ Tick)
      BY <1>1, <1>3, StopGoesOn DEF Exited
    <2>1. stage = "stopping" /\ now' \in Nat /\ now' >= now
      BY <2>0 DEF Tick, TypeOK
    <2>2. now >= Deadline => now' >= Deadline
      BY <1>2, <2>1 DEF TypeOK
    <2>3. (\A r \in Requests: req[r] # "open") => \A r \in Requests: req'[r] # "open"
      BY <1>1, <1>3, <2>1, StopGoesOn
    <2> QED
      BY <1>2, <1>3, <2>1, <2>2, <2>3 DEF Due
  <1> QED
    BY <1>1, <1>3, StopGoesOn DEF Due, Exited

\* The process leaves the stage it is in.
LEMMA ProcessEnds ==
    ASSUME Process
    PROVE  /\ stage = "stopping" => (stage' = "stopped" \/ Exited')
           /\ stage = "stopped" => Exited'
  BY DEF Process, RedisClientSelector, createClusterRedisClient, newApp, Exit, Exited,
         initHttpGracefulShutdown, ExitAfterFinally, ShutdownTimeout

(* Provided the process can take a step that is due, its fairness has it   *)
(* exit once the connections are closed or the timeout has passed, whether *)
(* or not the listener throws and whatever becomes of the Redis clients.   *)
THEOREM DueStopEnds == Spec /\ []DueIsEnabled => (Due ~> Exited)
  <1> DEFINE Closing == stage = "stopped"
             Stopping == Due /\ stage = "stopping"
  <1>0. Due => (Closing \/ Stopping)
    BY DEF Due
  <1>1. TypeOK /\ Closing /\ [Next]_vars => Closing' \/ Exited'
    BY StopGoesOn
  <1>2. Closing /\ <<Process>>_vars => Exited'
    BY ProcessEnds
  <1>3. TypeOK /\ Stopping /\ [Next]_vars => Stopping' \/ Closing' \/ Exited'
    BY DueStays DEF Due
  <1>4. Stopping /\ <<Process>>_vars => Closing' \/ Exited'
    BY ProcessEnds
  <1>5. (Closing \/ Stopping) => Due
    BY DEF Due
  <1>6. Spec => WF_vars(Process)
    BY PTL DEF Spec, Fairness
  <1>7. WF_vars(Process) => []<>(~ENABLED <<Process>>_vars) \/ []<><<Process>>_vars
    BY PTL
  <1>8. DueIsEnabled => (Due => ENABLED <<Process>>_vars)
    BY DEF DueIsEnabled
  <1> HIDE DEF Closing, Stopping
  <1>9. Spec /\ []DueIsEnabled => (Closing ~> Exited)
    BY <1>1, <1>2, <1>5, <1>6, <1>7, <1>8, TypeCorrect, PTL DEF Spec, Safe
  <1>10. Spec /\ []DueIsEnabled => (Stopping ~> Closing \/ Exited)
    BY <1>3, <1>4, <1>5, <1>6, <1>7, <1>8, TypeCorrect, PTL DEF Spec, Safe
  <1> QED
    BY <1>0, <1>9, <1>10, PTL

(* Provided time can pass until the timeout, it does: a stop that is n + 1 *)
(* ticks away from it comes to n ticks or is already over.  With n = 0 it  *)
(* is due, so this is the step of the induction behind SignalEnds.         *)
THEOREM DeadlineComesNearer ==
    ASSUME NEW n \in Nat
    PROVE  Spec /\ []TimeIsEnabled =>
             (stage = "stopping" /\ now + n + 1 = Deadline
                ~> (stage = "stopping" /\ now + n = Deadline) \/ stage \in {"stopped", "exited"})
  <1> DEFINE Far == stage = "stopping" /\ now + n + 1 = Deadline
             Near == stage = "stopping" /\ now + n = Deadline
             Over == stage \in {"stopped", "exited"}
  <1>1. TypeOK /\ Far /\ [Next]_vars => Far' \/ Near' \/ Over'
    <2> SUFFICES ASSUME TypeOK, Far, [Next]_vars PROVE Far' \/ Near' \/ Over'
      OBVIOUS
    <2>1. Deadline' = Deadline
      BY DeadlineIsFixed
    <2>2. stage' = "stopping" \/ Over'
      BY StopGoesOn DEF Exited
    <2>3. stage' = "stopping" => now' = now \/ now' = now + 1
      BY StopGoesOn DEF Tick
    <2> QED
      BY <2>1, <2>2, <2>3 DEF TypeOK
  <1>2. TypeOK /\ Far /\ <<Tick>>_vars => Near'
    <2> SUFFICES ASSUME TypeOK, Far, Tick PROVE Near'
      OBVIOUS
    <2>1. now' = now + 1 /\ stage' = "stopping"
      BY DEF Tick
    <2>2. Deadline' = Deadline
      BY DEF Tick, Deadline, shutdownTimeout
    <2> QED
      BY <2>1, <2>2 DEF TypeOK
  <1>3. Spec => WF_vars(Tick)
    BY PTL DEF Spec, Fairness
  <1>4. WF_vars(Tick) => []<>(~ENABLED <<Tick>>_vars) \/ []<><<Tick>>_vars
    BY PTL
  <1>5. TypeOK /\ TimeIsEnabled => (Far => ENABLED <<Tick>>_vars)
    <2>1. TypeOK /\ Far => now < Deadline
      BY DEF TypeOK
    <2> QED
      BY <2>1 DEF TimeIsEnabled
  <1> HIDE DEF Far, Near, Over
  <1>6. Spec /\ []TimeIsEnabled => (Far ~> Near \/ Over)
    BY <1>1, <1>2, <1>3, <1>4, <1>5, TypeCorrect, PTL DEF Spec, Safe
  <1> QED
    BY <1>6 DEF Far, Near, Over
=============================================================================
