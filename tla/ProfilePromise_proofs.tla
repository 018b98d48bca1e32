----------------------- MODULE ProfilePromise_proofs -----------------------
(***************************************************************************)
(* What the register of versions of ProfilePromise comes to, for any       *)
(* requests: the reason to want it implemented.                            *)
(***************************************************************************)
EXTENDS ProfilePromise, FiniteSetTheorems, TLAPS

(* An update that was made replaced a version of the past, and no other    *)
(* update did.                                                             *)
Replaced ==
    /\ version \in Nat
    /\ made \subseteq Requests
    /\ named \in [Requests -> Nat \union {NoVersion}]
    /\ told \in [Requests -> Outcomes \union {"nothing"}]
    /\ \A r \in made: named[r] \in 0 .. version - 1
    /\ \A r \in Requests: named[r] <= version

(* Of the updates that name one version at most one is made. *)
OneUpdatePerVersion == \A r, s \in made: named[r] = named[s] => r = s

(* What was told is true, and stays so. *)
ToldIsTrue ==
    \A r \in Requests:
        /\ told[r] = "done" => r \in made
        /\ told[r] = "refused" => r \notin made

IInv == Replaced /\ OneUpdatePerVersion /\ ToldIsTrue

LEMMA InitIInv == Init => IInv
  BY DEF Init, IInv, Replaced, OneUpdatePerVersion, ToldIsTrue, NoVersion

LEMMA NextIInv == IInv /\ [Next]_vars => IInv'
  <1> SUFFICES ASSUME IInv, [Next]_vars PROVE IInv'
    OBVIOUS
  <1> USE DEF IInv, Replaced, OneUpdatePerVersion, ToldIsTrue, NoVersion, Outcomes
  <1>1. CASE Validate \/ Delete
    BY <1>1 DEF Validate, Delete
  <1>2. ASSUME NEW r \in Requests, Make(r) PROVE IInv'
    <2>1. \A s \in made: named[s] # named[r]
      BY <1>2 DEF Make
    <2> QED
      BY <1>2, <2>1 DEF Make
  <1>3. ASSUME NEW r \in Requests, NEW what \in Outcomes, Tell(r, what)
        PROVE  told' \in [Requests -> Outcomes \union {"nothing"}] /\ ToldIsTrue'
    BY <1>3 DEF Tell
  <1>4. ASSUME NEW r \in Requests, Answer(r) PROVE IInv'
    BY <1>3, <1>4 DEF Answer, Tell
  <1>5. ASSUME NEW r \in Requests, Ask(r) PROVE IInv'
    <2>1. r \notin made
      BY <1>5 DEF Ask, Name
    <2>2. PICK v \in 0 .. version: named' = [named EXCEPT ![r] = v]
      BY <1>5 DEF Ask, Name
    <2>3. version' = version /\ made' = made
      BY <1>5 DEF Ask, Name
    <2>4. told' \in [Requests -> Outcomes \union {"nothing"}] /\ ToldIsTrue'
      BY <1>3, <1>5, <2>3 DEF Ask
    <2>5. named' \in [Requests -> Nat \union {NoVersion}] /\ named'[r] <= version
      BY <2>2
    <2>6. \A s \in Requests: s # r => named'[s] = named[s]
      BY <2>2
    <2>7. OneUpdatePerVersion'
      BY <2>1, <2>3, <2>6
    <2>8. Replaced'
      <3>1. \A s \in made': named'[s] \in 0 .. version' - 1
        BY <2>1, <2>3, <2>6
      <3>2. \A s \in Requests: named'[s] <= version'
        BY <2>3, <2>5, <2>6
      <3> QED
        BY <2>3, <2>4, <2>5, <3>1, <3>2
    <2> QED
      BY <2>4, <2>7, <2>8
  <1>6. CASE UNCHANGED vars
    BY <1>6 DEF vars
  <1> QED
    BY <1>1, <1>2, <1>4, <1>5, <1>6 DEF Next

LEMMA Invariance == Safe => []IInv
  BY InitIInv, NextIInv, PTL DEF Safe

(* Two devices never replace the same version. *)
THEOREM VersionsAreReplacedOnce == Safe => []OneUpdatePerVersion
  <1>1. IInv => OneUpdatePerVersion
    BY DEF IInv
  <1> QED
    BY <1>1, Invariance, PTL

(* Who was told that an update was done, or refused, can rely on it. *)
THEOREM PromiseIsTrue == Safe => []ToldIsTrue
  <1>1. IInv => ToldIsTrue
    BY DEF IInv
  <1> QED
    BY <1>1, Invariance, PTL

(* Every update that was made is a version of its own: the latest version  *)
(* counts at least as many.                                                *)
THEOREM VersionsCountUpdates == Safe => [](IsFiniteSet(made) /\ Cardinality(made) <= version)
  <1>1. IInv => IsFiniteSet(made) /\ Cardinality(made) <= version
    <2> SUFFICES ASSUME IInv PROVE IsFiniteSet(made) /\ Cardinality(made) <= version
      OBVIOUS
    <2> DEFINE replaced == [r \in made |-> named[r]]
               past == 0 .. version - 1
    <2>1. version \in Nat /\ replaced \in [made -> past]
      BY DEF IInv, Replaced
    <2>2. replaced \in Injection(made, past)
      BY <2>1 DEF IInv, OneUpdatePerVersion, Injection, IsInjective
    <2>3. IsFiniteSet(past) /\ Cardinality(past) = version
      BY <2>1, FS_Interval
    <2> QED
      BY <2>2, <2>3, FS_Injection
  <1> QED
    BY <1>1, Invariance, PTL
=============================================================================
