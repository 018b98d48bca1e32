---------------------------- MODULE CgnCard_proofs ----------------------------
(***************************************************************************)
(* Proofs of the safety properties of CgnCard.  They rest on one invariant *)
(* of each request: what an answer not yet taken says is true, and who is  *)
(* past the check of his card had an active one while he was handled.      *)
(***************************************************************************)
EXTENDS CgnCard, TLAPS

USE TrafficAssumption

(* What a status says to the request that is told it.                      *)
Tells(r, status) ==
    /\ op[r] \in Writes =>
        /\ status \in {"200", "201"} => r \in performed
        /\ status \in Refused \union {"202"} => r \notin performed
    /\ op[r] \in StatusReads =>
        /\ status = "200" => got[r] \in during[r]
        /\ status \in {"404", "409"} => "none" \in during[r]
    /\ op[r] \in Activations =>
        /\ status = "202" => "PENDING" \in during[r]
        /\ status = "409" => during[r] \intersect {"ACTIVATED", "EXPIRED"} # {}
    /\ op[r] = "generateOtp" /\ status = "403" => during[r] \ {"ACTIVATED"} # {}

Seen(r) == Handled(r) => card[CardOf(op[r])] \in during[r]

Untouched(r) == pc[r] = "idle" => call[r] = "none" /\ r \notin performed /\ r \notin shown

Checking(r) ==
    pc[r] = "eligible" =>
        /\ op[r] \in ForEligible
        /\ r \notin performed
        /\ call[r] = "200" => got[r] \in during[r]

Checked(r) ==
    /\ op[r] \in ForEligible /\ (pc[r] = "await" \/ (call[r] = "sent" /\ pc[r] = "done") \/ r \in performed) =>
        "ACTIVATED" \in during[r]
    /\ r \in shown => "ACTIVATED" \in during[r]

CallTold(r) ==
    /\ call[r] = "sent" => r \notin performed
    /\ pc[r] = "await" /\ call[r] \in Statuses => Tells(r, call[r])
    /\ pc[r] = "done" /\ call[r] # "none" => call[r] = "sent" /\ answer[r] = "500"

Answered(r) ==
    /\ pc[r] # "done" => answer[r] = "none"
    /\ Tells(r, answer[r])
    /\ op[r] \in ForEligible /\ answer[r] = "403" => during[r] \ {"ACTIVATED"} # {}

Sound(r) ==
    /\ Seen(r)
    /\ Untouched(r)
    /\ Checking(r)
    /\ Checked(r)
    /\ CallTold(r)
    /\ Answered(r)

CardInv == TypeOK /\ \A r \in Requests: Sound(r)

-----------------------------------------------------------------------------
(* The type invariant. *)

LEMMA ResponseIsStatus ==
    ASSUME NEW o, NEW status \in Statuses
    PROVE  responseOf(o, status) \in Statuses /\ responseOf(o, status) \in {status, "500"}
BY DEF responseOf, Statuses

LEMMA CardOfType ==
    ASSUME NEW o
    PROVE  CardOf(o) \in Cards
BY DEF CardOf, Cards

LEMMA SetCardsType ==
    ASSUME TypeOK, NEW c \in [Cards -> CardStatus], SetCards(c)
    PROVE  /\ card' \in [Cards -> CardStatus]
           /\ during' \in [Requests -> SUBSET CardStatus]
<1>1. \A r \in Requests: c[CardOf(op[r])] \in CardStatus
  BY CardOfType
<1> QED BY <1>1 DEF TypeOK, SetCards

LEMMA CallAnsweredType ==
    ASSUME TypeOK, NEW r \in Requests, NEW status \in Statuses, CallAnswered(r, status)
    PROVE  call' \in [Requests -> {"none", "sent"} \union Statuses]
BY DEF TypeOK, CallAnswered

LEMMA StatusesAre == \A s \in {"200", "201", "202", "400", "403", "404", "409", "429", "500"}: s \in Statuses
BY DEF Statuses, Done, Refused

LEMMA CardStatusesAre == \A s \in {"none", "PENDING", "ACTIVATED", "EXPIRED"}: s \in CardStatus
BY DEF CardStatus

LEMMA InitType == Init => TypeOK
<1> SUFFICES ASSUME Init PROVE TypeOK OBVIOUS
<1>1. card \in [Cards -> CardStatus]
  BY DEF Init
<1>2. op \in [Requests -> Operations]
  BY DEF Init
<1>3. got \in [Requests -> CardStatus] /\ during \in [Requests -> SUBSET CardStatus]
  BY CardStatusesAre DEF Init
<1> QED BY <1>1, <1>2, <1>3 DEF Init, TypeOK

LEMMA EnvironmentType ==
    ASSUME TypeOK, UnsubscriptionEnds \/ \E c \in Cards: ActivationEnds(c) \/ CardExpires(c)
    PROVE  TypeOK'
<1>1. card' \in [Cards -> CardStatus] /\ during' \in [Requests -> SUBSET CardStatus]
  <2>1. CASE UnsubscriptionEnds
    <3>1. [c \in Cards |-> "none"] \in [Cards -> CardStatus]
      BY DEF CardStatus
    <3> QED BY <2>1, <3>1, SetCardsType DEF UnsubscriptionEnds
  <2>2. CASE \E c \in Cards: ActivationEnds(c)
    <3>1. PICK c \in Cards: ActivationEnds(c)
      BY <2>2
    <3>2. PICK status \in {"ACTIVATED", "none"}: SetCards([card EXCEPT ![c] = status])
      BY <3>1 DEF ActivationEnds
    <3>3. [card EXCEPT ![c] = status] \in [Cards -> CardStatus]
      BY DEF TypeOK, CardStatus
    <3> QED BY <3>2, <3>3, SetCardsType
  <2>3. CASE \E c \in Cards: CardExpires(c)
    <3>1. PICK c \in Cards: CardExpires(c)
      BY <2>3
    <3>2. [card EXCEPT ![c] = "EXPIRED"] \in [Cards -> CardStatus]
      BY DEF TypeOK, CardStatus
    <3> QED BY <3>1, <3>2, SetCardsType DEF CardExpires
  <2> QED BY <2>1, <2>2, <2>3
<1>2. leaving' \in BOOLEAN /\ KeepRequests
  BY DEF TypeOK, UnsubscriptionEnds, ActivationEnds, CardExpires
<1> QED BY <1>1, <1>2 DEF TypeOK, KeepRequests

LEMMA HandlerType ==
    ASSUME TypeOK, NEW r \in Requests, Arrive(r) \/ Handle(r)
    PROVE  TypeOK'
<1>1. CASE Arrive(r)
  <2>1. card[CardOf(op[r])] \in CardStatus
    BY CardOfType DEF TypeOK
  <2>2. during' \in [Requests -> SUBSET CardStatus]
    BY <1>1, <2>1 DEF TypeOK, Arrive
  <2> QED BY <1>1, <2>2, StatusesAre DEF TypeOK, Arrive, Goto, Finish, cardVars
<1>2. CASE eligibleUserOrError(r)
  BY <1>2, StatusesAre DEF TypeOK, eligibleUserOrError, Goto, Finish, cardVars
<1>3. CASE Receive(r)
  BY <1>3, ResponseIsStatus DEF TypeOK, Receive, Goto, Finish, cardVars
<1>4. CASE withCatchAsInternalError(r)
  BY <1>4, StatusesAre DEF TypeOK, withCatchAsInternalError, Goto, Finish, cardVars
<1> QED BY <1>1, <1>2, <1>3, <1>4 DEF Handle

LEMMA PerformType ==
    ASSUME TypeOK, NEW r \in Requests, Perform(r)
    PROVE  TypeOK'
<1>1. \A s \in CardStatus, c \in Cards: [card EXCEPT ![c] = s] \in [Cards -> CardStatus]
  BY DEF TypeOK
<1>2. CASE TellStatus(r)
  <2>1. card[CardOf(Asked(r))] \in CardStatus
    BY CardOfType DEF TypeOK
  <2> QED BY <1>2, <2>1, CallAnsweredType, StatusesAre DEF TypeOK, TellStatus, cardVars
<1>3. CASE TellOther(r)
  BY <1>3, CallAnsweredType, StatusesAre DEF TypeOK, TellOther, cardVars
<1>4. CASE PerformActivation(r)
  <2>1. call' \in [Requests -> {"none", "sent"} \union Statuses]
    BY <1>4, CallAnsweredType, StatusesAre DEF PerformActivation
  <2>2. card' \in [Cards -> CardStatus] /\ during' \in [Requests -> SUBSET CardStatus]
    BY <1>4, <1>1, CardOfType, CardStatusesAre, SetCardsType DEF PerformActivation, TypeOK
  <2>3. performed' \subseteq Requests
    BY <1>4 DEF PerformActivation, TypeOK
  <2> QED BY <1>4, <2>1, <2>2, <2>3 DEF TypeOK, PerformActivation
<1>5. CASE PerformUnsubscription(r)
  BY <1>5, CallAnsweredType, StatusesAre DEF TypeOK, PerformUnsubscription
<1>6. CASE PerformOtp(r)
  BY <1>6, CallAnsweredType, StatusesAre DEF TypeOK, PerformOtp, cardVars
<1>7. CASE BurnCode(r)
  BY <1>7, CallAnsweredType, StatusesAre DEF TypeOK, BurnCode, cardVars
<1>8. CASE Refuse(r)
  BY <1>8, CallAnsweredType, StatusesAre DEF TypeOK, Refuse, cardVars
<1> QED BY <1>2, <1>3, <1>4, <1>5, <1>6, <1>7, <1>8 DEF Perform

LEMMA NextType == TypeOK /\ [Next]_vars => TypeOK'
<1>1. ASSUME TypeOK, UNCHANGED vars PROVE TypeOK'
  BY <1>1 DEF TypeOK, vars, cardVars
<1> QED BY <1>1, EnvironmentType, HandlerType, PerformType DEF Next

(* Every variable of a request and of the cards keeps its type, whatever   *)
(* the cards and the calls become.                                         *)
THEOREM TypeCorrect == Safe => []TypeOK
BY InitType, NextType, PTL DEF Safe

-----------------------------------------------------------------------------
(* The invariant of a request. *)

\* What each action writes, one request at a time.
LEMMA SetCardsSees ==
    ASSUME TypeOK, NEW c, SetCards(c), NEW r \in Requests
    PROVE  /\ during[r] \subseteq during'[r]
           /\ Handled(r) => card'[CardOf(op[r])] \in during'[r]
BY DEF TypeOK, SetCards

\* A request no step is about stays sound when its card changes.
LEMMA Kept ==
    ASSUME TypeOK, NEW r \in Requests, Sound(r),
           op'[r] = op[r], pc'[r] = pc[r], call'[r] = call[r], got'[r] = got[r],
           answer'[r] = answer[r],
           r \in performed' <=> r \in performed, r \in shown' <=> r \in shown,
           during[r] \subseteq during'[r],
           Handled(r) => card'[CardOf(op[r])] \in during'[r]
    PROVE  Sound(r)'
<1>1. \A s: Tells(r, s) => Tells(r, s)'
  BY DEF Tells
<1>2. Handled(r)' <=> Handled(r)
  BY DEF Handled
<1>3. CardOf(op'[r]) = CardOf(op[r])
  OBVIOUS
<1>4. Seen(r)'
  BY <1>2, <1>3 DEF Seen
<1>5. Untouched(r)' /\ Checking(r)' /\ Checked(r)'
  BY DEF Sound, Untouched, Checking, Checked
<1>6. CallTold(r)'
  BY <1>1 DEF Sound, CallTold
<1>7. Answered(r)'
  BY <1>1 DEF Sound, Answered
<1> QED BY <1>4, <1>5, <1>6, <1>7 DEF Sound

LEMMA InitSound == Init => \A r \in Requests: Sound(r)
<1> SUFFICES ASSUME Init, NEW r \in Requests PROVE Sound(r)
  OBVIOUS
<1>1. /\ pc[r] = "idle" /\ call[r] = "none" /\ answer[r] = "none"
      /\ r \notin performed /\ r \notin shown
  BY DEF Init
<1>2. Tells(r, answer[r])
  BY <1>1 DEF Tells, Refused
<1> QED BY <1>1, <1>2 DEF Sound, Seen, Handled, Untouched, Checking, Checked, CallTold, Answered

\* What is relayed tells what was answered; 500 tells nothing.
LEMMA RelayedTells ==
    ASSUME NEW r, NEW s \in Statuses, Tells(r, s)
    PROVE  Tells(r, responseOf(op[r], s))
<1>1. Tells(r, "500")
  BY DEF Tells, Refused
<1> QED BY <1>1, ResponseIsStatus

\* The operator search refuses nobody.
LEMMA SearchRefusesNobody ==
    ASSUME NEW o \in ForEligible, NEW s \in Statuses
    PROVE  responseOf(o, s) # "403"
BY DEF responseOf, Relayed, operatorSearch, ForEligible, Searches, Statuses, Done, Refused

LEMMA ArriveSound ==
    ASSUME CardInv, NEW r \in Requests, Arrive(r)
    PROVE  Sound(r)'
<1>1. /\ pc[r] = "idle" /\ call[r] = "none" /\ answer[r] = "none"
      /\ r \notin performed /\ r \notin shown
  BY DEF CardInv, Sound, Untouched, Answered, Arrive, Goto, Finish
<1>2. /\ op' = op /\ performed' = performed /\ shown' = shown /\ card' = card
      /\ during'[r] = {card[CardOf(op[r])]}
  BY DEF Arrive, cardVars, CardInv, TypeOK
<1>3. \/ /\ pc'[r] = IF op[r] \in ForEligible THEN "eligible" ELSE "await"
         /\ call'[r] = "sent" /\ answer'[r] = "none"
      \/ pc'[r] = "done" /\ call'[r] = "none" /\ answer'[r] = "400"
  BY <1>1 DEF Arrive, Goto, Finish, CardInv, TypeOK
<1>4. Tells(r, "none")' /\ Tells(r, "400")'
  BY <1>1, <1>2 DEF Tells, Refused
<1>5. Seen(r)' /\ Untouched(r)' /\ Checking(r)' /\ Checked(r)'
  BY <1>1, <1>2, <1>3 DEF Seen, Untouched, Checking, Checked, Handled
<1>6. CallTold(r)' /\ Answered(r)'
  BY <1>1, <1>2, <1>3, <1>4 DEF CallTold, Answered, Statuses, Done, Refused
<1> QED BY <1>5, <1>6 DEF Sound

LEMMA CheckSound ==
    ASSUME CardInv, NEW r \in Requests, eligibleUserOrError(r)
    PROVE  Sound(r)'
<1>1. /\ pc[r] = "eligible" /\ op[r] \in ForEligible /\ r \notin performed
      /\ card[CardOf(op[r])] \in during[r] /\ answer[r] = "none" /\ call[r] \in Statuses
      /\ call[r] = "200" => got[r] \in during[r]
      /\ r \in shown => "ACTIVATED" \in during[r]
  BY DEF CardInv, Sound, Seen, Handled, Checking, Checked, Answered, eligibleUserOrError, Goto, Finish
<1>2. op' = op /\ performed' = performed /\ card' = card /\ got' = got /\ during' = during
  BY DEF eligibleUserOrError, cardVars
<1>3. Tells(r, "none")' /\ \A s \in {"500", "403", "400"}: Tells(r, s)'
  BY <1>1, <1>2 DEF Tells, Refused, StatusReads, ForEligible
<1>4. \/ /\ pc'[r] = "done" /\ call'[r] = "none" /\ shown' = shown
         /\ \/ answer'[r] \in {"500", "400"}
            \/ answer'[r] = "403" /\ call[r] = "200" /\ got[r] # "ACTIVATED"
      \/ /\ pc'[r] = "await" /\ call'[r] = "sent" /\ answer'[r] = "none"
         /\ call[r] = "200" /\ got[r] = "ACTIVATED"
  BY <1>1 DEF eligibleUserOrError, isEligible, Goto, Finish, CardInv, TypeOK
<1>5. Seen(r)' /\ Untouched(r)' /\ Checking(r)' /\ Checked(r)'
  BY <1>1, <1>2, <1>4 DEF Seen, Untouched, Checking, Checked, Handled
<1>6. CallTold(r)' /\ Answered(r)'
  BY <1>1, <1>2, <1>3, <1>4 DEF CallTold, Answered, Statuses, Done, Refused
<1> QED BY <1>5, <1>6 DEF Sound

LEMMA ReceiveSound ==
    ASSUME CardInv, NEW r \in Requests, Receive(r)
    PROVE  Sound(r)'
<1>1. /\ pc[r] = "await" /\ call[r] \in Statuses /\ Tells(r, call[r])
      /\ card[CardOf(op[r])] \in during[r]
  BY DEF CardInv, Sound, Seen, Handled, CallTold, Receive, Goto, Finish
<1>2. UNCHANGED <<op, performed, shown, card, got, during>>
  BY DEF Receive, cardVars
<1>3. pc'[r] = "done" /\ call'[r] = "none" /\ answer'[r] = responseOf(op[r], call[r])
  BY <1>1 DEF Receive, Goto, Finish, CardInv, TypeOK
<1>4. Answered(r)'
  <2>1. PICK s: s = responseOf(op[r], call[r])
    OBVIOUS
  <2>2. Tells(r, s)
    BY <1>1, <2>1, RelayedTells
  <2>3. Tells(r, s)'
    BY <2>2, <1>2 DEF Tells
  <2>4. op[r] \in ForEligible => s # "403"
    BY <1>1, <2>1, SearchRefusesNobody
  <2> QED BY <2>1, <2>3, <2>4, <1>2, <1>3 DEF Answered
<1>5. Seen(r)' /\ Untouched(r)' /\ Checking(r)'
  BY <1>1, <1>2, <1>3 DEF Seen, Untouched, Checking, Handled
<1>6. Checked(r)'
  BY <1>1, <1>2, <1>3 DEF CardInv, Sound, Checked
<1>7. CallTold(r)'
  BY <1>3 DEF CallTold
<1> QED BY <1>4, <1>5, <1>6, <1>7 DEF Sound

LEMMA FailSound ==
    ASSUME CardInv, NEW r \in Requests, withCatchAsInternalError(r)
    PROVE  Sound(r)'
<1>1. /\ pc[r] \in {"eligible", "await"} /\ card[CardOf(op[r])] \in during[r]
      /\ pc[r] = "eligible" => r \notin performed
      /\ call[r] = "sent" => r \notin performed
  BY DEF CardInv, Sound, Seen, Handled, Checking, CallTold, withCatchAsInternalError, Goto, Finish
<1>2. UNCHANGED <<op, performed, shown, card, got, during>>
  BY DEF withCatchAsInternalError, cardVars
<1>3. pc'[r] = "done" /\ answer'[r] = "500"
  BY <1>1 DEF withCatchAsInternalError, Goto, Finish, CardInv, TypeOK
<1>4. call'[r] = IF call[r] = "sent" /\ Asked(r) \in Writes THEN "sent" ELSE "none"
  BY DEF withCatchAsInternalError, CardInv, TypeOK
<1>5. call'[r] = "sent" => call[r] = "sent" /\ pc[r] = "await"
  <2>1. "getCgnStatus" \notin Writes
    BY DEF Writes, Activations
  <2> QED BY <1>1, <1>4, <2>1 DEF Asked
<1>6. Tells(r, "500")'
  BY DEF Tells, Refused
<1>7. Seen(r)' /\ Untouched(r)' /\ Checking(r)'
  BY <1>1, <1>2, <1>3 DEF Seen, Untouched, Checking, Handled
<1>8. Checked(r)'
  BY <1>1, <1>2, <1>3, <1>5 DEF CardInv, Sound, Checked
<1>9. CallTold(r)' /\ Answered(r)'
  BY <1>1, <1>2, <1>3, <1>4, <1>5, <1>6 DEF CallTold, Answered
<1> QED BY <1>7, <1>8, <1>9 DEF Sound

-----------------------------------------------------------------------------
(* Steps of the function apps: they answer a call that was sent.           *)

\* What holds of a request once its call is answered, whatever was done.
LEMMA PerformedSound ==
    ASSUME CardInv, NEW r \in Requests, call[r] = "sent",
           UNCHANGED <<op, pc, shown, answer>>,
           NEW s \in Statuses,
           call'[r] = IF Handled(r) THEN s ELSE "none",
           during[r] \subseteq during'[r],
           Handled(r) => card'[CardOf(op[r])] \in during'[r],
           r \in performed' => pc[r] # "eligible",
           pc[r] = "eligible" /\ s = "200" => got'[r] \in during'[r],
           pc[r] = "await" => Tells(r, s)'
    PROVE  Sound(r)'
<1>1. Sound(r) /\ pc[r] \in {"eligible", "await", "done"}
  BY DEF CardInv, Sound, Untouched, TypeOK
<1>2. r \notin performed /\ (pc[r] = "done" => answer[r] = "500")
  BY <1>1 DEF Sound, CallTold
<1>3. call'[r] # "sent" /\ Handled(r)' = Handled(r)
  BY DEF Statuses, Done, Refused, Handled
<1>4. Seen(r)' /\ Untouched(r)' /\ Checking(r)'
  BY <1>1, <1>3 DEF Seen, Untouched, Checking, Sound, Handled
<1>5. Checked(r)'
  BY <1>1, <1>3 DEF Checked, Sound
<1>6. CallTold(r)'
  BY <1>1, <1>3 DEF CallTold, Handled
<1>7. Answered(r)'
  <2>1. Tells(r, answer[r])'
    <3>1. answer[r] \in {"none", "500"}
      BY <1>1, <1>2 DEF Sound, Answered
    <3> QED BY <3>1 DEF Tells, Refused
  <2>2. answer[r] # "403"
    BY <1>1, <1>2 DEF Sound, Answered
  <2> QED BY <1>1, <2>1, <2>2 DEF Sound, Answered
<1> QED BY <1>4, <1>5, <1>6, <1>7 DEF Sound

\* While a request is handled and has passed the check, what it asks is its operation.
LEMMA AskedIs ==
    ASSUME NEW r, pc[r] # "eligible"
    PROVE  Asked(r) = op[r]
BY DEF Asked

\* The answer reaches the request, and the others keep theirs.
LEMMA AnsweredCall ==
    ASSUME TypeOK, NEW r \in Requests, NEW s \in Statuses, CallAnswered(r, s)
    PROVE  /\ call[r] = "sent"
           /\ call'[r] = IF Handled(r) THEN s ELSE "none"
           /\ \A q \in Requests: q # r => call'[q] = call[q]
BY DEF CallAnswered, TypeOK

\* One step at the function app, as the requests see it.
PerformedOne(r, s) ==
    /\ CallAnswered(r, s)
    /\ UNCHANGED <<op, pc, shown, answer>>
    /\ \A q \in Requests:
        /\ during[q] \subseteq during'[q]
        /\ Handled(q) => card'[CardOf(op[q])] \in during'[q]
        /\ q # r => got'[q] = got[q] /\ (q \in performed' <=> q \in performed)
    /\ r \in performed' => pc[r] # "eligible"
    /\ pc[r] = "eligible" /\ s = "200" => got'[r] \in during'[r]
    /\ pc[r] = "await" => Tells(r, s)'

LEMMA PerformedAll ==
    ASSUME CardInv, NEW r \in Requests, NEW s \in Statuses, PerformedOne(r, s)
    PROVE  \A q \in Requests: Sound(q)'
<1>1. /\ call[r] = "sent"
      /\ call'[r] = IF Handled(r) THEN s ELSE "none"
      /\ \A q \in Requests: q # r => call'[q] = call[q]
  BY AnsweredCall DEF PerformedOne, CardInv
<1>2. Sound(r)'
  BY <1>1, PerformedSound DEF PerformedOne
<1>3. ASSUME NEW q \in Requests, q # r PROVE Sound(q)'
  BY <1>1, <1>3, Kept DEF PerformedOne, CardInv
<1> QED BY <1>2, <1>3

LEMMA PerformSound ==
    ASSUME CardInv, NEW r \in Requests, Perform(r)
    PROVE  \A q \in Requests: Sound(q)'
<1> USE DEF CardInv
<1>0. \A q \in Requests: Handled(q) => card[CardOf(op[q])] \in during[q]
  BY DEF Sound, Seen
<1>a. pc[r] = "eligible" => op[r] \in ForEligible /\ r \notin performed
  BY DEF Sound, Checking
<1>b. call[r] = "sent" => r \notin performed
  BY DEF Sound, CallTold
<1>c. pc[r] = "await" => Handled(r) /\ Asked(r) = op[r]
  BY DEF Handled, Asked
<1>1. CASE TellStatus(r)
  <2>1. /\ UNCHANGED <<card, op, pc, during, performed, shown, answer>>
        /\ \A q \in Requests: q # r => got'[q] = got[q]
    BY <1>1 DEF TellStatus, cardVars, TypeOK
  <2>2. PICK s \in Statuses:
          /\ CallAnswered(r, s)
          /\ Asked(r) \in StatusReads
          /\ s = "200" => got'[r] = card[CardOf(Asked(r))]
          /\ s \in {"404", "409"} => card[CardOf(Asked(r))] = "none"
          /\ s \in {"200", "404", "409", "403"}
    BY <1>1, StatusesAre DEF TellStatus, TypeOK
  <2>3. pc[r] = "eligible" => CardOf(Asked(r)) = CardOf(op[r]) /\ Handled(r)
    BY <1>a DEF Asked, CardOf, ForEligible, Handled
  <2>4. pc[r] = "await" => Tells(r, s)'
    BY <1>0, <1>c, <2>1, <2>2 DEF Tells, StatusReads, Writes, Activations
  <2>5. pc[r] = "eligible" /\ s = "200" => got'[r] \in during'[r]
    BY <1>0, <2>1, <2>2, <2>3
  <2>6. PerformedOne(r, s)
    BY <1>0, <1>a, <2>1, <2>2, <2>4, <2>5 DEF PerformedOne
  <2> QED BY <2>6, PerformedAll
<1>2. CASE TellOther(r)
  <2>1. UNCHANGED <<card, op, pc, got, during, performed, shown, answer>>
    BY <1>2 DEF TellOther, cardVars
  <2>2. PICK s \in Statuses: CallAnswered(r, s)
    BY <1>2, StatusesAre DEF TellOther
  <2>3. Asked(r) \notin StatusReads /\ Asked(r) \notin Writes /\ Asked(r) \notin Activations /\ Asked(r) # "generateOtp"
    BY <1>2 DEF TellOther, StatusReads, Writes, Activations, ActivationReads, Searches
  <2>4. pc[r] = "await" => Tells(r, s)'
    BY <1>c, <2>1, <2>3 DEF Tells
  <2>5. pc[r] # "eligible"
    BY <2>3 DEF Asked, StatusReads
  <2>6. PerformedOne(r, s)
    BY <1>0, <1>a, <2>1, <2>2, <2>4, <2>5 DEF PerformedOne
  <2> QED BY <2>6, PerformedAll
<1>3. CASE PerformActivation(r)
  <2>1. /\ UNCHANGED <<op, pc, got, shown, answer>>
        /\ op[r] \in Activations
        /\ pc[r] # "eligible"
    BY <1>3, <1>a DEF PerformActivation, Activations, ForEligible
  <2>2. /\ \A q \in Requests: during[q] \subseteq during'[q] /\ (Handled(q) => card'[CardOf(op[q])] \in during'[q])
        /\ \A q \in Requests: q # r => (q \in performed' <=> q \in performed)
    BY <1>3, <1>0, SetCardsSees DEF PerformActivation
  <2>3. PICK s \in Statuses:
          /\ CallAnswered(r, s)
          /\ \/ s \in {"201", "500"} /\ r \in performed'
             \/ s = "202" /\ performed' = performed /\ during' = during /\ card[CardOf(op[r])] = "PENDING"
             \/ /\ s = "409" /\ performed' = performed /\ during' = during
                /\ card[CardOf(op[r])] \in {"ACTIVATED", "EXPIRED"}
    BY <1>3, StatusesAre DEF PerformActivation
  <2>4. pc[r] = "await" => Tells(r, s)'
    BY <1>0, <1>b, <1>c, <2>1, <2>3 DEF Tells, Activations, StatusReads, Refused, CallAnswered
  <2>5. PerformedOne(r, s)
    BY <2>1, <2>2, <2>3, <2>4 DEF PerformedOne
  <2> QED BY <2>5, PerformedAll
<1>4. CASE PerformUnsubscription(r)
  <2>1. /\ UNCHANGED <<card, op, pc, got, during, shown, answer>>
        /\ op[r] = "startCgnUnsubscription"
        /\ pc[r] # "eligible"
        /\ \A q \in Requests: q # r => (q \in performed' <=> q \in performed)
    BY <1>4, <1>a DEF PerformUnsubscription, ForEligible
  <2>2. PICK s \in Statuses:
          /\ CallAnswered(r, s)
          /\ \/ s \in {"201", "500"} /\ r \in performed'
             \/ s \in {"202", "409"} /\ performed' = performed
    BY <1>4, StatusesAre DEF PerformUnsubscription
  <2>3. pc[r] = "await" => Tells(r, s)'
    BY <1>b, <2>1, <2>2 DEF Tells, Activations, StatusReads, Refused, CallAnswered
  <2>4. PerformedOne(r, s)
    BY <1>0, <2>1, <2>2, <2>3 DEF PerformedOne
  <2> QED BY <2>4, PerformedAll
<1>5. CASE PerformOtp(r)
  <2>1. /\ UNCHANGED <<card, op, pc, got, during, shown, answer>>
        /\ op[r] = "generateOtp"
        /\ pc[r] # "eligible"
        /\ \A q \in Requests: q # r => (q \in performed' <=> q \in performed)
    BY <1>5, <1>a DEF PerformOtp, ForEligible, cardVars
  <2>2. PICK s \in Statuses:
          /\ CallAnswered(r, s)
          /\ \/ s \in {"200", "500"} /\ r \in performed'
             \/ s = "403" /\ performed' = performed /\ card[CardOf(op[r])] # "ACTIVATED"
    BY <1>5, StatusesAre DEF PerformOtp, CardOf
  <2>3. pc[r] = "await" => Tells(r, s)'
    BY <1>0, <1>b, <1>c, <2>1, <2>2 DEF Tells, Activations, StatusReads, Refused, CallAnswered
  <2>4. PerformedOne(r, s)
    BY <1>0, <2>1, <2>2, <2>3 DEF PerformedOne
  <2> QED BY <2>4, PerformedAll
<1>6. CASE BurnCode(r)
  <2>1. /\ UNCHANGED <<card, op, pc, got, during, shown, answer>>
        /\ op[r] = "getDiscountBucketCode"
        /\ pc[r] # "eligible"
        /\ \A q \in Requests: q # r => (q \in performed' <=> q \in performed)
    BY <1>6 DEF BurnCode, Asked, cardVars
  <2>2. PICK s \in Statuses:
          /\ CallAnswered(r, s)
          /\ \/ s \in {"200", "500"} /\ r \in performed'
             \/ s = "404" /\ performed' = performed
    BY <1>6, StatusesAre DEF BurnCode
  <2>3. pc[r] = "await" => Tells(r, s)'
    BY <1>b, <2>1, <2>2 DEF Tells, Activations, StatusReads, Refused, CallAnswered
  <2>4. PerformedOne(r, s)
    BY <1>0, <2>1, <2>2, <2>3 DEF PerformedOne
  <2> QED BY <2>4, PerformedAll
<1>7. CASE Refuse(r)
  <2>1. UNCHANGED <<card, op, pc, got, during, performed, shown, answer>>
    BY <1>7 DEF Refuse, cardVars
  <2>2. PICK s \in {"429", "500", "403"}:
          /\ CallAnswered(r, s)
          /\ s = "403" => Asked(r) \in Activations \union {"startCgnUnsubscription"}
    BY <1>7 DEF Refuse
  <2>3. pc[r] = "await" => Tells(r, s)'
    BY <1>b, <1>c, <2>1, <2>2 DEF Tells, Activations, StatusReads, Refused, CallAnswered
  <2>4. PerformedOne(r, s)
    BY <1>0, <1>a, <2>1, <2>2, <2>3 DEF PerformedOne
  <2> QED BY <2>2, <2>4, PerformedAll, StatusesAre
<1> QED BY <1>1, <1>2, <1>3, <1>4, <1>5, <1>6, <1>7 DEF Perform

-----------------------------------------------------------------------------
(* Every step keeps every request sound. *)

LEMMA HandlerSound ==
    ASSUME CardInv, NEW r \in Requests, Arrive(r) \/ Handle(r)
    PROVE  \A q \in Requests: Sound(q)'
<1>1. Sound(r)'
  BY ArriveSound, CheckSound, ReceiveSound, FailSound DEF Handle
<1>2. ASSUME NEW q \in Requests, q # r PROVE Sound(q)'
  <2>1. /\ op'[q] = op[q] /\ pc'[q] = pc[q] /\ call'[q] = call[q] /\ got'[q] = got[q]
        /\ answer'[q] = answer[q] /\ card' = card /\ during'[q] = during[q]
        /\ q \in performed' <=> q \in performed
        /\ q \in shown' <=> q \in shown
    <3>1. CASE Arrive(r)
      BY <1>2, <3>1 DEF CardInv, TypeOK, Arrive, Goto, Finish, cardVars
    <3>2. CASE eligibleUserOrError(r)
      <4>1. call'[q] = call[q] /\ pc'[q] = pc[q] /\ answer'[q] = answer[q]
        BY <1>2, <3>2 DEF CardInv, TypeOK, eligibleUserOrError, Goto, Finish
      <4>2. q \in shown' <=> q \in shown
        BY <1>2, <3>2 DEF eligibleUserOrError
      <4> QED BY <3>2, <4>1, <4>2 DEF eligibleUserOrError, cardVars
    <3>3. CASE Receive(r)
      BY <1>2, <3>3 DEF CardInv, TypeOK, Receive, Goto, Finish, cardVars
    <3>4. CASE withCatchAsInternalError(r)
      BY <1>2, <3>4 DEF CardInv, TypeOK, withCatchAsInternalError, Goto, Finish, cardVars
    <3> QED BY <3>1, <3>2, <3>3, <3>4 DEF Handle
  <2>2. Handled(q) => card[CardOf(op[q])] \in during[q]
    BY DEF CardInv, Sound, Seen
  <2> QED BY <2>1, <2>2, Kept DEF CardInv
<1> QED BY <1>1, <1>2

LEMMA EnvironmentSound ==
    ASSUME CardInv, UnsubscriptionEnds \/ \E c \in Cards: ActivationEnds(c) \/ CardExpires(c)
    PROVE  \A q \in Requests: Sound(q)'
<1>1. KeepRequests /\ \E c: SetCards(c)
  BY DEF UnsubscriptionEnds, ActivationEnds, CardExpires
<1> SUFFICES ASSUME NEW q \in Requests PROVE Sound(q)'
  OBVIOUS
<1>2. during[q] \subseteq during'[q] /\ (Handled(q) => card'[CardOf(op[q])] \in during'[q])
  BY <1>1, SetCardsSees DEF CardInv
<1> QED BY <1>1, <1>2, Kept DEF CardInv, KeepRequests

LEMMA InvariantStep == CardInv /\ [Next]_vars => CardInv'
<1>1. ASSUME CardInv, UNCHANGED vars PROVE \A q \in Requests: Sound(q)'
  <2> SUFFICES ASSUME NEW q \in Requests PROVE Sound(q)'
    OBVIOUS
  <2>1. Handled(q) => card[CardOf(op[q])] \in during[q]
    BY <1>1 DEF CardInv, Sound, Seen
  <2>2. UNCHANGED <<op, pc, call, got, answer, performed, shown, during, card>>
    BY <1>1 DEF vars, cardVars
  <2>3. TypeOK /\ Sound(q)
    BY <1>1 DEF CardInv
  <2> QED BY <2>1, <2>2, <2>3, Kept
<1>2. ASSUME CardInv, Next PROVE \A q \in Requests: Sound(q)'
  BY <1>2, HandlerSound, EnvironmentSound, PerformSound DEF Next
<1> QED BY <1>1, <1>2, NextType DEF CardInv

LEMMA AlwaysSound == Safe => []CardInv
<1>1. Init => CardInv
  BY InitType, InitSound DEF CardInv
<1> QED BY <1>1, InvariantStep, PTL DEF Safe

(* Whatever the number of requests and what they ask for, a discount code  *)
(* is burnt and a merchant asked for only for who had an active card while *)
(* the request was handled.                                                *)
THEOREM EligibleOnly == Safe => []EligibleWhenAsked
<1>1. CardInv => EligibleWhenAsked
  BY DEF CardInv, Sound, Checked, EligibleWhenAsked, ForEligible
<1> QED BY <1>1, AlwaysSound, PTL

(* A success tells that the operation was done, a refusal that it was not  *)
(* and will not be.                                                        *)
THEOREM AnswersTellEffect == Safe => []AnswerTellsEffect
<1>1. ASSUME CardInv, NEW r \in Requests, op[r] \in Writes
      PROVE  /\ answer[r] \in {"200", "201"} => r \in performed
             /\ answer[r] \in Refused \union {"202"} => r \notin performed /\ call[r] # "sent"
  <2>1. Tells(r, answer[r]) /\ (answer[r] # "none" => pc[r] = "done")
    BY <1>1 DEF CardInv, Sound, Answered
  <2>2. pc[r] = "done" /\ call[r] = "sent" => answer[r] = "500"
    BY <1>1 DEF CardInv, Sound, CallTold
  <2> QED BY <1>1, <2>1, <2>2 DEF Tells, Refused
<1>2. CardInv => AnswerTellsEffect
  BY <1>1 DEF AnswerTellsEffect
<1> QED BY <1>2, AlwaysSound, PTL

(* What an answer says of the card was the case while the request was      *)
(* handled.                                                                *)
THEOREM AnswersWereTrue == Safe => []AnswerWasTrue
<1>1. CardInv => AnswerWasTrue
  BY DEF CardInv, Sound, Answered, Tells, AnswerWasTrue
<1> QED BY <1>1, AlwaysSound, PTL

-----------------------------------------------------------------------------
(* Every request is answered.                                              *)

(* A request that is handled can always be: its client may give up.  The   *)
(* only fact about ENABLED the argument needs.                             *)
HandledIsEnabled == \A r \in Requests: Handled(r) => ENABLED <<Handle(r)>>_vars

Told(r) == answer[r] # "none"

\* A handler passes the check or answers, and leaves the others alone.
LEMMA HandleMoves ==
    ASSUME TypeOK, NEW r \in Requests, Handle(r)
    PROVE  /\ \/ pc[r] = "eligible" /\ pc'[r] = "await"
              \/ Told(r)'
           /\ \A q \in Requests: q # r => pc'[q] = pc[q] /\ answer'[q] = answer[q]
<1>1. CASE eligibleUserOrError(r)
  BY <1>1 DEF eligibleUserOrError, Goto, Finish, TypeOK, Told
<1>2. CASE Receive(r)
  <2>1. responseOf(op[r], call[r]) # "none"
    BY <1>2, ResponseIsStatus DEF Receive, Statuses, Done, Refused
  <2> QED BY <1>2, <2>1 DEF Receive, Goto, Finish, TypeOK, Told
<1>3. CASE withCatchAsInternalError(r)
  BY <1>3 DEF withCatchAsInternalError, Goto, Finish, TypeOK, Told
<1> QED BY <1>1, <1>2, <1>3 DEF Handle

\* Only its handler moves a request that is handled.
LEMMA HandledStays ==
    ASSUME TypeOK, [Next]_vars, NEW r \in Requests, Handled(r)
    PROVE  Handle(r) \/ (pc'[r] = pc[r] /\ answer'[r] = answer[r])
<1>1. CASE UNCHANGED vars
  BY <1>1 DEF vars
<1>2. CASE UnsubscriptionEnds \/ \E c \in Cards: ActivationEnds(c) \/ CardExpires(c)
  BY <1>2 DEF UnsubscriptionEnds, ActivationEnds, CardExpires, KeepRequests
<1>3. ASSUME NEW q \in Requests, Arrive(q) PROVE pc'[r] = pc[r] /\ answer'[r] = answer[r]
  <2>1. q # r
    BY <1>3 DEF Arrive, Goto, Finish, Handled
  <2> QED BY <1>3, <2>1 DEF Arrive, Goto, Finish, TypeOK
<1>4. ASSUME NEW q \in Requests, Handle(q), q # r PROVE pc'[r] = pc[r] /\ answer'[r] = answer[r]
  BY <1>4, HandleMoves
<1>5. ASSUME NEW q \in Requests, Perform(q) PROVE pc'[r] = pc[r] /\ answer'[r] = answer[r]
  BY <1>5 DEF Perform, TellStatus, TellOther, PerformActivation, PerformUnsubscription, PerformOtp, BurnCode, Refuse
<1> QED BY <1>1, <1>2, <1>3, <1>4, <1>5 DEF Next

(* Provided a request that is handled can be, fairness of the handlers     *)
(* alone has every request answered, with the check of the card or without *)
(* it: nothing is asked of the function apps.                              *)
THEOREM RequestsAreAnswered == Spec /\ []HandledIsEnabled => RequestsAnswered
<1> DEFINE Checks(r) == pc[r] = "eligible"
           Asks(r) == pc[r] = "await"
<1>1. ASSUME NEW r \in Requests
      PROVE  Spec /\ []HandledIsEnabled => (Handled(r) ~> Told(r))
  <2>0. (Checks(r) \/ Asks(r) => Handled(r)) /\ (TypeOK /\ Handled(r) => Checks(r) \/ Asks(r))
    BY DEF Handled, TypeOK
  <2>1. TypeOK /\ Checks(r) /\ [Next]_vars => Checks(r)' \/ Asks(r)' \/ Told(r)'
    BY <2>0, HandledStays, HandleMoves
  <2>2. TypeOK /\ Checks(r) /\ <<Handle(r)>>_vars => Asks(r)' \/ Told(r)'
    BY HandleMoves
  <2>3. TypeOK /\ Asks(r) /\ [Next]_vars => Asks(r)' \/ Told(r)'
    BY <2>0, HandledStays, HandleMoves
  <2>4. TypeOK /\ Asks(r) /\ <<Handle(r)>>_vars => Told(r)'
    BY HandleMoves
  <2>5. Spec => GoesOn(r)
    BY DEF Spec, Fairness
  <2>6. GoesOn(r) => []<>(~ENABLED <<Handle(r)>>_vars) \/ []<><<Handle(r)>>_vars
    BY PTL DEF GoesOn
  <2>7. HandledIsEnabled => (Handled(r) => ENABLED <<Handle(r)>>_vars)
    BY DEF HandledIsEnabled
  <2> HIDE DEF Checks, Asks
  <2> QED BY <2>0, <2>1, <2>2, <2>3, <2>4, <2>5, <2>6, <2>7, TypeCorrect, PTL DEF Spec, Safe
<1>2. Spec /\ []HandledIsEnabled => \A r \in Requests: (Handled(r) ~> Told(r))
  BY <1>1
<1> QED BY <1>2 DEF RequestsAnswered, Told
=============================================================================
