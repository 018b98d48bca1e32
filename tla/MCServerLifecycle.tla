-------------------------- MODULE MCServerLifecycle --------------------------
(* Small instances of ServerLifecycle for TLC. *)
EXTENDS ServerLifecycle

CONSTANTS r1, r2

MCRequests == {r1, r2}

\* Neither variable is set, each is, and both are.
MCEnvironments ==
    [SHUTDOWN_TIMEOUT_MILLIS: {Unset, 1},
     DEFAULT_SHUTDOWN_TIMEOUT_MILLIS: {Unset, 0, 3}]
=============================================================================
