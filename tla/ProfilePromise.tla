--------------------------- MODULE ProfilePromise ---------------------------
(***************************************************************************)
(* What the devices of a citizen are promised of the updates of his        *)
(* profile.  It is a register of versions: an update names a version that  *)
(* it knows and replaces just that one, at once, or never.  Whoever is     *)
(* told that it was done, or refused, can rely on it for ever; whoever is  *)
(* told nothing certain may repeat it.                                     *)
(***************************************************************************)
EXTENDS Integers

CONSTANTS Requests, MaxVersion

VARIABLES
    version,   \* the latest
    exists,
    made,      \* updates that have been done
    named,     \* version each update replaces, or NoVersion
    told       \* what its device was told: nothing, done, refused or doubt

NoVersion == -1
vars == <<version, exists, made, named, told>>

Init ==
    /\ version = 0
    /\ exists = TRUE
    /\ made = {}
    /\ named = [r \in Requests |-> NoVersion]
    /\ told = [r \in Requests |-> "nothing"]

(* A device may be behind, it is never ahead. *)
Name(r) ==
    /\ named[r] = NoVersion
    /\ \E v \in 0..version: named' = [named EXCEPT ![r] = v]
    /\ UNCHANGED <<version, exists, made>>

(* What was done goes on being done, what was refused is not done later.   *)
Tell(r, what) ==
    /\ told[r] = "nothing"
    /\ what = "done" => r \in made
    /\ what = "refused" => r \notin made
    /\ told' = [told EXCEPT ![r] = what]
    /\ UNCHANGED <<version, exists, made>>

Outcomes == {"done", "refused", "doubt"}

(* An update may be refused, or fail, before it names a version that counts. *)
Ask(r) ==
    /\ Name(r)
    /\ UNCHANGED told \/ \E what \in Outcomes: Tell(r, what)

Answer(r) ==
    /\ named[r] # NoVersion
    /\ \E what \in Outcomes: Tell(r, what)
    /\ UNCHANGED named

Make(r) ==
    /\ exists /\ named[r] = version /\ version < MaxVersion
    /\ r \notin made /\ told[r] # "refused"
    /\ version' = version + 1
    /\ made' = made \union {r}
    /\ UNCHANGED <<exists, named, told>>

(* The citizen validates his email, or his profile is deleted. *)
Validate ==
    /\ exists /\ version < MaxVersion
    /\ version' = version + 1
    /\ UNCHANGED <<exists, made, named, told>>

Delete ==
    /\ exists
    /\ exists' = FALSE
    /\ UNCHANGED <<version, made, named, told>>

Next ==
    \/ Validate \/ Delete
    \/ \E r \in Requests: Ask(r) \/ Answer(r) \/ Make(r)

Safe == Init /\ [][Next]_vars
=============================================================================
