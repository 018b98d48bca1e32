--------------------------- MODULE MCInstallations ---------------------------
(* Small instances of Installations for TLC. *)
EXTENDS Installations, TLC

CONSTANTS r1, r2, i1, i2, alice, bob, l1

MCRequests == {r1, r2}
MCInstances == {i1, i2}
MCLogins == {l1}

\* A rollout under way: i1 still has the lower flag.
MCFlagOf == (i1 :> "BETA") @@ (i2 :> "CANARY")
\* alice is a beta tester, bob a canary user.
MCBeta == {alice}
MCCanary == {bob}
=============================================================================
