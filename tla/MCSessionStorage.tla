--------------------------- MODULE MCSessionStorage ---------------------------
(* Small instances of SessionStorage for TLC. *)
EXTENDS SessionStorage, TLC

CONSTANTS t1, t2, c1, c2, c3

MCTokens == {t1, t2}
MCCalls == {c1, c2, c3}

Does(op1, op2, op3) == (c1 :> op1) @@ (c2 :> op2) @@ (c3 :> op3)

\* One call looks for a session while another cleans the index, with
\* lagging replicas and without.
AskAndClean(lag) ==
    [op |-> Does("userHasActiveSessions", "clearExpiredSetValues", "none"),
     issued |-> {t1}, types |-> {"LEGACY"}, lag |-> lag]

\* Parallel reads: one call and two sessions.
TwoSessions(op) == [op |-> Does(op, "none", "none"),
                    issued |-> {t1, t2}, types |-> {"LEGACY"}, lag |-> FALSE]

\* A call that asks for the lollipop data first; the data may be of any type.
LollipopData == [op |-> Does("userHasActiveSessionsOrLV", "none", "none"),
                 issued |-> {t1, t2}, types |-> LoginTypes, lag |-> FALSE]

\* Two calls unblock a user whom one blocks.
Blocking == [op |-> Does("setBlockedUser", "unsetBlockedUser", "unsetBlockedUser"),
             issued |-> {}, types |-> {}, lag |-> FALSE]

MCWorkloads ==
    {AskAndClean(TRUE), AskAndClean(FALSE), TwoSessions("userHasActiveSessions"),
     TwoSessions("clearExpiredSetValues"), LollipopData, Blocking}
MCCleanup == {AskAndClean(FALSE)}
=============================================================================
