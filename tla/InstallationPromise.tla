------------------------ MODULE InstallationPromise ------------------------
(***************************************************************************)
(* What PUT /installations promises to the client that received 200: the   *)
(* installation will be queued for the notification hub, unless the        *)
(* backend fails first.  A promise is never forgotten while it pends, and  *)
(* even a broken one may still be kept by a message that was under way.    *)
(***************************************************************************)
CONSTANT Requests
VARIABLE phase

Init == phase = [r \in Requests |-> "none"]

Settle(r, from, to) == phase[r] \in from /\ phase' = [phase EXCEPT ![r] = to]

Accept(r) == Settle(r, {"none"}, "promised")
Keep(r) == Settle(r, {"promised", "broken"}, "kept")

(* An exit breaks all the pending promises of a process at once. *)
Break(R) ==
    /\ R # {}
    /\ \A r \in R: phase[r] = "promised"
    /\ phase' = [r \in Requests |-> IF r \in R THEN "broken" ELSE phase[r]]

Next ==
    \/ \E r \in Requests: Accept(r) \/ Keep(r)
    \/ \E R \in SUBSET Requests: Break(R)

Settled(r) == phase[r] = "promised" /\ Next /\ phase'[r] # "promised"

Safe == Init /\ [][Next]_phase
Spec == Safe /\ \A r \in Requests: WF_phase(Settled(r))
=============================================================================
