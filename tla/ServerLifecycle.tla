-------------------------- MODULE ServerLifecycle --------------------------
(***************************************************************************)
(* One process of the backend in production, from its start to its exit.   *)
(*                                                                         *)
(* It connects the two Redis clients, registers the routes and listens.    *)
(* On a signal the http-graceful-shutdown library (external) stops         *)
(* accepting, waits for the open connections and calls `finally`, which    *)
(* emits server:stop; the listener of that event quits the Redis clients,  *)
(* and the library exits.  A timer exits earlier if the connections take   *)
(* too long, as those of a silent third party do.                          *)
(***************************************************************************)
EXTENDS Integers

CONSTANTS
    Requests,    \* connections with a request
    Environments,    \* shutdown variables of the environment, see Environment
    Unset,
    DEFAULT_SHUTDOWN_TIMEOUT_MILLIS,    \* of server.ts, in ticks
    MaxTime      \* bound of the model: no request or signal comes later

Clients == {"FAST", "SAFE"}
Environment == [SHUTDOWN_TIMEOUT_MILLIS: Nat \union {Unset},
                DEFAULT_SHUTDOWN_TIMEOUT_MILLIS: Nat \union {Unset}]

ASSUME EnvironmentAssumption == Environments \subseteq Environment
ASSUME UnsetAssumption == Unset \notin Nat
ASSUME TimeoutAssumption == DEFAULT_SHUTDOWN_TIMEOUT_MILLIS \in Nat /\ MaxTime \in Nat

VARIABLES
    now,        \* the clock
    env,        \* the environment of the process
    stage,      \* how far it has come
    redis,      \* state of each Redis client
    listener,   \* does the app listen to server:stop
    req,        \* state of each request
    signalAt,   \* when the signal came
    flushed,    \* has the telemetry been flushed
    exitCode

vars == <<now, env, stage, redis, listener, req, signalAt, flushed, exitCode>>

Stages == {"connectFast", "connectSafe", "setup", "serving", "stopping", "stopped", "exited"}
Exits == {"none", "0", "1", "signal"}

Init ==
    /\ now = 0
    /\ env \in Environments
    /\ stage = "connectFast"
    /\ redis = [c \in Clients |-> "none"]
    /\ listener = FALSE
    /\ req = [r \in Requests |-> "none"]
    /\ signalAt = 0
    /\ flushed = FALSE
    /\ exitCode = "none"

(* The requests that are open when a process exits are cut. *)
Exit(code) ==
    /\ stage' = "exited"
    /\ exitCode' = code
    /\ req' = [r \in Requests |-> IF req[r] = "open" THEN "cut" ELSE req[r]]
    /\ UNCHANGED redis

-----------------------------------------------------------------------------
(* Start. *)

(* Operators named Bug... are plausible mistakes, not part of the model:   *)
(* each shows that a property can tell the model from the mistake.         *)
BugConnectNotAwaited(c, from, to) ==
    /\ stage = from
    /\ stage' = to
    /\ redis' = [redis EXCEPT ![c] = "connecting"]
    /\ UNCHANGED <<now, env, listener, req, signalAt, flushed, exitCode>>

createClusterRedisClient(c, from, to) ==
    /\ stage = from
    /\ \/ /\ stage' = to
          /\ redis' = [redis EXCEPT ![c] = "open"]
          /\ UNCHANGED <<req, exitCode>>
       \/ Exit("1")
    /\ UNCHANGED <<now, env, listener, signalAt, flushed>>

RedisClientSelector ==
    \/ createClusterRedisClient("FAST", "connectFast", "connectSafe")
    \/ createClusterRedisClient("SAFE", "connectSafe", "setup")

(* From the clients to the open port nothing is awaited.  A failure emits  *)
(* server:stop, which nobody listens to yet, and the process exits.        *)
newApp ==
    /\ stage = "setup"
    /\ \/ stage' = "serving" /\ listener' = TRUE
          /\ UNCHANGED <<redis, req, exitCode>>
       \/ Exit("1") /\ UNCHANGED listener
    /\ UNCHANGED <<now, env, signalAt, flushed>>

-----------------------------------------------------------------------------
(* Requests. *)

Accept(r) ==
    /\ stage = "serving" /\ now < MaxTime
    /\ req[r] = "none"
    /\ req' = [req EXCEPT ![r] = "open"]
    /\ UNCHANGED <<now, env, stage, redis, listener, signalAt, flushed, exitCode>>

Answer(r) ==
    /\ req[r] = "open"
    /\ req' = [req EXCEPT ![r] = "answered"]
    /\ UNCHANGED <<now, env, stage, redis, listener, signalAt, flushed, exitCode>>

-----------------------------------------------------------------------------
(* Stop. *)

shutdownTimeout ==
    IF env.DEFAULT_SHUTDOWN_TIMEOUT_MILLIS # Unset
    THEN env.DEFAULT_SHUTDOWN_TIMEOUT_MILLIS
    ELSE DEFAULT_SHUTDOWN_TIMEOUT_MILLIS

(* Until initHttpGracefulShutdown has run, a signal kills the process. *)
Signal ==
    /\ now < MaxTime
    /\ \/ stage \in {"connectFast", "connectSafe"} /\ Exit("signal") /\ UNCHANGED signalAt
       \/ /\ stage = "serving"
          /\ stage' = "stopping"
          /\ signalAt' = now
          /\ UNCHANGED <<redis, req, exitCode>>
    /\ UNCHANGED <<now, env, listener, flushed>>

BugQuitNeverSent(c) == redis[c]

\* The listener of server:stop: quit is sent, its failure is logged.
quit(c) == IF redis[c] = "open" THEN "quitting" ELSE redis[c]

BugStopAtOnce ==
    /\ stage = "stopping"
    /\ flushed' = TRUE
    /\ redis' = [c \in Clients |-> quit(c)]
    /\ stage' = "stopped"
    /\ UNCHANGED <<now, env, listener, req, signalAt, exitCode>>

(* All connections are closed: the server emits close, which flushes the   *)
(* telemetry, and the library calls finally.  The listener of server:stop  *)
(* calls quit without its client, which may throw; then finally throws.    *)
initHttpGracefulShutdown ==
    /\ stage = "stopping"
    /\ \A r \in Requests: req[r] # "open"
    /\ flushed' = TRUE
    /\ \/ /\ redis' = IF listener THEN [c \in Clients |-> quit(c)] ELSE redis
          /\ stage' = "stopped"
          /\ UNCHANGED <<req, exitCode>>
       \/ listener /\ Exit("1")
    /\ UNCHANGED <<now, env, listener, signalAt>>

(* Redis answers the quit, or the connection is lost. *)
QuitEnds(c) ==
    /\ stage = "stopped"
    /\ redis[c] = "quitting"
    /\ redis' = [redis EXCEPT ![c] = "closed"]
    /\ UNCHANGED <<now, env, stage, listener, req, signalAt, flushed, exitCode>>

ExitAfterFinally ==
    /\ stage = "stopped"
    /\ Exit("0")
    /\ UNCHANGED <<now, env, listener, signalAt, flushed>>

BugTimerWaits ==
    /\ stage = "stopping"
    /\ \A r \in Requests: req[r] # "open"
    /\ now >= signalAt + shutdownTimeout
    /\ Exit("1")
    /\ UNCHANGED <<now, env, listener, signalAt, flushed>>

BugTimerFromStart ==
    /\ stage = "stopping"
    /\ now >= shutdownTimeout
    /\ Exit("1")
    /\ UNCHANGED <<now, env, listener, signalAt, flushed>>

ShutdownTimeout ==
    /\ stage = "stopping"
    /\ now >= signalAt + shutdownTimeout
    /\ Exit("1")
    /\ UNCHANGED <<now, env, listener, signalAt, flushed>>

Crash ==
    /\ stage # "exited"
    /\ Exit("signal")
    /\ UNCHANGED <<now, env, listener, signalAt, flushed>>

(* The clock waits for a timer that is due. *)
Tick ==
    /\ now < MaxTime \/ stage = "stopping"
    /\ stage = "stopping" => now < signalAt + shutdownTimeout
    /\ now' = now + 1
    /\ UNCHANGED <<env, stage, redis, listener, req, signalAt, flushed, exitCode>>

-----------------------------------------------------------------------------

Process ==
    \/ RedisClientSelector \/ newApp
    \/ initHttpGracefulShutdown \/ ExitAfterFinally \/ ShutdownTimeout

Next ==
    \/ Process
    \/ Signal \/ Crash \/ Tick
    \/ \E r \in Requests: Accept(r) \/ Answer(r)
    \/ \E c \in Clients: QuitEnds(c)

(* A connect settles, due timers run and time passes.  Nothing obliges a   *)
(* request to be answered or a quit to end.                                *)
Fairness == WF_vars(Process) /\ WF_vars(Tick)

Safe == Init /\ [][Next]_vars
Spec == Safe /\ Fairness

-----------------------------------------------------------------------------

TypeOK ==
    /\ now \in Nat
    /\ env \in Environments
    /\ stage \in Stages
    /\ redis \in [Clients -> {"none", "open", "quitting", "closed"}]
    /\ listener \in BOOLEAN
    /\ req \in [Requests -> {"none", "open", "answered", "cut"}]
    /\ signalAt \in Nat
    /\ flushed \in BOOLEAN
    /\ exitCode \in Exits

(* Every request that is being handled, from the first one after the start *)
(* to the last one before the stop, has both Redis clients at its disposal.*)
RedisOutlivesRequests ==
    \A r \in Requests: req[r] = "open" => \A c \in Clients: redis[c] = "open"

(* Exit code 0 stands for a graceful stop: everybody was answered, the     *)
(* telemetry flushed and each Redis client told to quit.                   *)
GracefulExitIsComplete ==
    exitCode = "0" =>
        /\ \A r \in Requests: req[r] # "cut"
        /\ flushed
        /\ \A c \in Clients: redis[c] \in {"quitting", "closed"}

(* A process that exits by itself cuts a request only after it has given   *)
(* it the whole of the timeout since the signal.                           *)
CutOnlyAtTimeout ==
    (exitCode = "1" /\ \E r \in Requests: req[r] = "cut") => now >= signalAt + shutdownTimeout

(* A signal ends the process, however long the open requests take. *)
SignalEnds == stage = "stopping" ~> stage = "exited"

(* .env.example:13 sets the timeout of the shutdown by                     *)
(* SHUTDOWN_TIMEOUT_MILLIS.  The server reads another variable.            *)
StopsInConfiguredTime ==
    (stage = "stopping" /\ env.SHUTDOWN_TIMEOUT_MILLIS # Unset)
        => now <= signalAt + env.SHUTDOWN_TIMEOUT_MILLIS
=============================================================================
