------------------------------ MODULE MCCgnCard ------------------------------
(* A small instance of CgnCard for TLC: a request of any kind beside one   *)
(* that changes its card, or two that burn a code.                        *)
EXTENDS CgnCard, TLC

CONSTANTS r1, r2

Pairs == {<<o, p>> \in Operations \X (Activations \union {"startCgnUnsubscription"}):
            p \in Activations => CardOf(p) = CardOf(o)}

MCTraffic ==
    {r1 :> t[1] @@ r2 :> t[2]: t \in Pairs \union {<<"getDiscountBucketCode", "getDiscountBucketCode">>}}
=============================================================================
