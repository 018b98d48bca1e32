---------------------------- MODULE MCSignedRequests ----------------------------
(* Small instances of SignedRequests for TLC: a request of every route and *)
(* path that has everything, requests that lack or mistake something, and  *)
(* the messages and the configurations that are handled differently.       *)
EXTENDS SignedRequests

CONSTANTS k1, k2, r1

MCKeys == {k1, k2}

Plain == [fromPN |-> FALSE, configured |-> TRUE, attachments |-> FALSE, remote |-> FALSE]
Full == [Plain EXCEPT !.attachments = TRUE, !.remote = TRUE]
FromPN == [Plain EXCEPT !.fromPN = TRUE, !.attachments = TRUE]
Signed == [lollipop |-> TRUE, disabledFor |-> FALSE, pn |-> FALSE]
Unsigned == [Signed EXCEPT !.lollipop = FALSE]

Good(route, path) ==
    [route |-> route, path |-> path, token |-> k1, keyid |-> k1,
     xUser |-> path = "identity", assertionRef |-> TRUE, headers |-> TRUE, body |-> TRUE,
     message |-> Plain, configuration |-> Signed]

Sound == {Good(route, path): route \in Routes, path \in {"legacy", "identity"}}
\* signed with the key of another login, or with none
OtherKey ==
    {[Good("sign", "legacy") EXCEPT !.keyid = k2], [Good("sign", "identity") EXCEPT !.keyid = k2],
     [Good("precondition", "identity") EXCEPT !.keyid = NoKey]}
Lacking ==
    {[Good(route, "identity") EXCEPT !.headers = FALSE]: route \in {"sign", "precondition"}}
    \union {[Good("sign", "legacy") EXCEPT !.body = FALSE],
            [Good("sign", "legacy") EXCEPT !.xUser = TRUE],
            [Good("sign", "identity") EXCEPT !.xUser = FALSE],
            [Good("sign", "identity") EXCEPT !.assertionRef = FALSE]}
Promising ==
    {[Good("message", "identity") EXCEPT !.message = m]:
        m \in {Full, FromPN, [Full EXCEPT !.attachments = FALSE], [Full EXCEPT !.remote = FALSE],
               [Full EXCEPT !.configured = FALSE]}}
Configured ==
    {[Good(route, "identity") EXCEPT !.configuration = c]:
        route \in {"precondition", "attachment"},
        c \in {Unsigned, [Signed EXCEPT !.disabledFor = TRUE], [Signed EXCEPT !.pn = TRUE]}}

MCTraffic == Sound \union OtherKey \union Lacking \union Promising \union Configured
=============================================================================
