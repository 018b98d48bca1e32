--------------------------- MODULE MCProfileRequests ---------------------------
(* A small instance of ProfileRequests for TLC: two requests on the        *)
(* profile, of one device or of two, or one of any other kind and one on   *)
(* the profile.  Two that do not touch the profile have nothing in common. *)
EXTENDS ProfileRequests, TLC

CONSTANTS r1, r2, d1, d2, e1, e2

ProfileTraffic == {q \in Request: q.op \in {"getProfile", "updateProfile"}
                                 /\ (q.op = "getProfile" => q.email = e1)}
Reading(d) == [op |-> "getProfile", device |-> d, email |-> e1]

(* Beside a request that wants a validated email, updates; beside one that *)
(* does not touch the profile, none.                                       *)
MCTraffic ==
    {r1 :> p @@ r2 :> q: p \in {x \in ProfileTraffic: x.device = d1}, q \in ProfileTraffic}
    \union {r1 :> p @@ r2 :> q:
              p \in {x \in Request: x.op \in ForValidatedEmail /\ x.device = d1 /\ x.email = e1},
              q \in {x \in ProfileTraffic: x.op = "updateProfile" /\ x.device = d1}}
    \union {r1 :> p @@ r2 :> Reading(d1):
              p \in {x \in Request: /\ x.device = d1 /\ x.email = e1
                                   /\ x.op \notin ForValidatedEmail
                                   /\ x.op \notin {"getProfile", "updateProfile"}}}
=============================================================================
