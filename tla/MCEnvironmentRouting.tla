------------------------- MODULE MCEnvironmentRouting -------------------------
(* A small instance of EnvironmentRouting for TLC: a request of any kind,  *)
(* beside an update of either environment, that may be a retry of it.      *)
EXTENDS EnvironmentRouting, TLC

CONSTANTS r1, r2

(* What an update is to is all that the body of a request says.            *)
AnyRequest == {q \in Request: q.op # "upsertPNActivation" => q.to = "on"}
AnUpdate ==
    {[op |-> "upsertPNActivation", test |-> "absent", to |-> "on"],
     [op |-> "upsertPNActivation", test |-> "TRUE", to |-> "off"]}

MCTraffic == {r1 :> q @@ r2 :> u: q \in AnyRequest, u \in AnUpdate}
=============================================================================
