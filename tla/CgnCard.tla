------------------------------- MODULE CgnCard -------------------------------
(***************************************************************************)
(* Requests of one citizen about his youth card (CGN), its european        *)
(* sibling (EYCA) and the discounts they give right to.  The cards live at *)
(* the CGN function app, the discount codes at the operator search (both   *)
(* external, and the search does not know who asks): the backend alone     *)
(* makes sure, one call before, that a merchant is shown and a discount    *)
(* code is burnt for the holder of an active card only.                    *)
(***************************************************************************)
CONSTANTS
    Requests,
    Traffic      \* what they may ask for together, see Operations

Activations == {"startCgnActivation", "startEycaActivation"}
StatusReads == {"getCgnStatus", "getEycaStatus"}
ActivationReads == {"getCgnActivation", "getEycaActivation"}
(* What wants an active card ...                                           *)
ForEligible == {"getMerchant", "getDiscountBucketCode"}
(* ... and what anybody who has logged in may ask.                         *)
Searches == {"getPublishedProductCategories", "count", "search", "getOnlineMerchants",
             "getOfflineMerchants"}
Writes == Activations \union {"startCgnUnsubscription", "generateOtp", "getDiscountBucketCode"}
Operations == Writes \union StatusReads \union ActivationReads \union ForEligible \union Searches

ASSUME TrafficAssumption == Traffic \subseteq [Requests -> Operations]

Cards == {"cgn", "eyca"}
(* REVOKED is to the backend what EXPIRED is.                              *)
CardStatus == {"none", "PENDING", "ACTIVATED", "EXPIRED"}

Done == {"200", "201", "202"}
Refused == {"400", "403", "404", "409"}
Statuses == Done \union Refused \union {"429", "500"}

VARIABLES
    card,      \* at the function app: status of each card
    leaving,   \* an unsubscription is going on
    op,        \* what each request asks for
    pc,        \* next step of each request
    call,      \* its call: none, sent, or answered and the answer not taken yet
    got,       \* status of the card it was told
    during,    \* auxiliary: statuses its card had while it was handled
    performed, \* auxiliary: requests whose call that writes took effect
    shown,     \* auxiliary: requests a merchant was asked for
    answer     \* HTTP status it was answered

cardVars == <<card, leaving>>
vars == <<card, leaving, op, pc, call, got, during, performed, shown, answer>>

TypeOK ==
    /\ card \in [Cards -> CardStatus]
    /\ leaving \in BOOLEAN
    /\ op \in [Requests -> Operations]
    /\ pc \in [Requests -> {"idle", "eligible", "await", "done"}]
    /\ call \in [Requests -> {"none", "sent"} \union Statuses]
    /\ got \in [Requests -> CardStatus]
    /\ during \in [Requests -> SUBSET CardStatus]
    /\ performed \subseteq Requests
    /\ shown \subseteq Requests
    /\ answer \in [Requests -> {"none"} \union Statuses]

Init ==
    /\ card \in {c \in [Cards -> CardStatus]: c["cgn"] = "none" => c["eyca"] = "none"}
    /\ leaving = FALSE
    /\ op \in Traffic
    /\ pc = [r \in Requests |-> "idle"]
    /\ call = [r \in Requests |-> "none"]
    /\ got = [r \in Requests |-> "none"]
    /\ during = [r \in Requests |-> {}]
    /\ performed = {}
    /\ shown = {}
    /\ answer = [r \in Requests |-> "none"]

Handled(r) == pc[r] \notin {"idle", "done"}
CardOf(o) == IF o \in {"startEycaActivation", "getEycaActivation", "getEycaStatus"} THEN "eyca" ELSE "cgn"

-----------------------------------------------------------------------------
(* The cards at the CGN function app, external.                            *)

SetCards(c) ==
    /\ card' = c
    /\ during' = [r \in Requests |->
                    IF Handled(r) THEN during[r] \union {c[CardOf(op[r])]} ELSE during[r]]

KeepRequests == UNCHANGED <<op, pc, call, got, performed, shown, answer>>

\* An activation goes on after it was answered; it succeeds or it fails.
ActivationEnds(c) ==
    /\ card[c] = "PENDING"
    /\ \E status \in {"ACTIVATED", "none"}: SetCards([card EXCEPT ![c] = status])
    /\ UNCHANGED leaving /\ KeepRequests

CardExpires(c) ==
    /\ card[c] = "ACTIVATED"
    /\ SetCards([card EXCEPT ![c] = "EXPIRED"])
    /\ UNCHANGED leaving /\ KeepRequests

UnsubscriptionEnds ==
    /\ leaving
    /\ leaving' = FALSE
    /\ SetCards([c \in Cards |-> "none"])
    /\ KeepRequests

-----------------------------------------------------------------------------
(* Handlers. *)

Goto(r, from, to) == pc[r] = from /\ pc' = [pc EXCEPT ![r] = to]
Finish(r, from, status) == Goto(r, from, "done") /\ answer' = [answer EXCEPT ![r] = status]

(* The first call is the one of the service, or the one that tells whether *)
(* the user is eligible; 400 when he or his parameters do not decode.      *)
Arrive(r) ==
    /\ during' = [during EXCEPT ![r] = {card[CardOf(op[r])]}]
    /\ \/ /\ Goto(r, "idle", IF op[r] \in ForEligible THEN "eligible" ELSE "await")
          /\ call' = [call EXCEPT ![r] = "sent"]
          /\ UNCHANGED answer
       \/ Finish(r, "idle", "400") /\ UNCHANGED call
    /\ UNCHANGED <<cardVars, op, got, performed, shown>>

(* Operators named Bug... are plausible mistakes, not part of the model:   *)
(* each shows that a property can tell the model from the mistake.         *)
BugNotRefused(status) == status # "EXPIRED"

isEligible(status) == status = "ACTIVATED"

(* The answer to the first call is taken: 500 when it tells no status, 403 *)
(* unless the card is active.  The parameter is decoded only now.          *)
eligibleUserOrError(r) ==
    /\ call[r] \in Statuses
    /\ \/ /\ call[r] # "200"
          /\ Finish(r, "eligible", "500")
          /\ call' = [call EXCEPT ![r] = "none"]
          /\ UNCHANGED shown
       \/ /\ call[r] = "200" /\ ~isEligible(got[r])
          /\ Finish(r, "eligible", "403")
          /\ call' = [call EXCEPT ![r] = "none"]
          /\ UNCHANGED shown
       \/ /\ call[r] = "200" /\ isEligible(got[r])
          /\ Finish(r, "eligible", "400")
          /\ call' = [call EXCEPT ![r] = "none"]
          /\ UNCHANGED shown
       \/ /\ call[r] = "200" /\ isEligible(got[r])
          /\ Goto(r, "eligible", "await")
          /\ call' = [call EXCEPT ![r] = "sent"]
          /\ shown' = IF op[r] = "getMerchant" THEN shown \union {r} ELSE shown
          /\ UNCHANGED answer
    /\ UNCHANGED <<cardVars, op, got, during, performed>>

-----------------------------------------------------------------------------
(* The function apps, external: what they do when a call reaches them, and *)
(* what they answer.  A 429 or a 500 says nothing.                         *)

Asked(r) == IF pc[r] = "eligible" THEN "getCgnStatus" ELSE op[r]

\* Nobody takes the answer that comes too late.
CallAnswered(r, status) ==
    /\ call[r] = "sent"
    /\ call' = [call EXCEPT ![r] = IF Handled(r) THEN status ELSE "none"]

TellStatus(r) ==
    LET status == card[CardOf(Asked(r))] IN
    /\ Asked(r) \in StatusReads
    /\ \/ status # "none" /\ CallAnswered(r, "200") /\ got' = [got EXCEPT ![r] = status]
       \/ status = "none" /\ CallAnswered(r, "404") /\ UNCHANGED got
       \/ Asked(r) = "getEycaStatus" /\ UNCHANGED got
          /\ \/ status = "none" /\ CallAnswered(r, "409")
             \/ CallAnswered(r, "403")
    /\ UNCHANGED <<cardVars, op, pc, during, performed, shown, answer>>

TellOther(r) ==
    /\ Asked(r) \in ActivationReads \union Searches \union {"getMerchant"}
    /\ CallAnswered(r, "200") \/ CallAnswered(r, "404")
    /\ UNCHANGED <<cardVars, op, pc, got, during, performed, shown, answer>>

PerformActivation(r) ==
    LET c == CardOf(op[r]) IN
    /\ op[r] \in Activations
    /\ \/ /\ card[c] = "none" /\ (c = "eyca" => card["cgn"] = "ACTIVATED")
          /\ CallAnswered(r, "201") \/ CallAnswered(r, "500")
          /\ SetCards([card EXCEPT ![c] = "PENDING"])
          /\ performed' = performed \union {r}
       \/ /\ card[c] = "PENDING"
          /\ CallAnswered(r, "202")
          /\ UNCHANGED <<card, during, performed>>
       \/ /\ card[c] \in {"ACTIVATED", "EXPIRED"}
          /\ CallAnswered(r, "409")
          /\ UNCHANGED <<card, during, performed>>
    /\ UNCHANGED <<leaving, op, pc, got, shown, answer>>

PerformUnsubscription(r) ==
    /\ op[r] = "startCgnUnsubscription"
    /\ \/ /\ card["cgn"] # "none" /\ ~leaving
          /\ CallAnswered(r, "201") \/ CallAnswered(r, "500")
          /\ leaving' = TRUE
          /\ performed' = performed \union {r}
       \/ leaving /\ CallAnswered(r, "202") /\ UNCHANGED <<leaving, performed>>
       \/ card["cgn"] = "none" /\ CallAnswered(r, "409") /\ UNCHANGED <<leaving, performed>>
    /\ UNCHANGED <<card, op, pc, got, during, shown, answer>>

\* An OTP is made by the CGN function app, which knows the card ...
PerformOtp(r) ==
    /\ op[r] = "generateOtp"
    /\ \/ /\ card["cgn"] = "ACTIVATED"
          /\ CallAnswered(r, "200") \/ CallAnswered(r, "500")
          /\ performed' = performed \union {r}
       \/ card["cgn"] # "ACTIVATED" /\ CallAnswered(r, "403") /\ UNCHANGED performed
    /\ UNCHANGED <<cardVars, op, pc, got, during, shown, answer>>

\* ... a discount code is burnt by the search, which does not.
BurnCode(r) ==
    /\ Asked(r) = "getDiscountBucketCode"
    /\ \/ /\ CallAnswered(r, "200") \/ CallAnswered(r, "500")
          /\ performed' = performed \union {r}
       \/ CallAnswered(r, "404") /\ UNCHANGED performed
    /\ UNCHANGED <<cardVars, op, pc, got, during, shown, answer>>

Refuse(r) ==
    /\ \/ CallAnswered(r, "429") \/ CallAnswered(r, "500")
       \/ Asked(r) \in Activations \union {"startCgnUnsubscription"} /\ CallAnswered(r, "403")
    /\ UNCHANGED <<cardVars, op, pc, got, during, performed, shown, answer>>

-----------------------------------------------------------------------------
(* Answers: the statuses each service relays, any other becomes 500.       *)

getCgnStatus == {"200", "404"}
getEycaStatus == {"200", "403", "404", "409"}
startCgnActivation == {"201", "202", "403", "409"}
getCgnActivation == {"200", "404"}
startEycaActivation == {"201", "202", "403", "409"}
getEycaActivation == {"200", "404"}
startCgnUnsubscription == {"201", "202", "403", "409"}
generateOtp == {"200", "403"}
operatorSearch == {"200", "404"}

Relayed(o) ==
    CASE o = "getCgnStatus" -> getCgnStatus
      [] o = "getEycaStatus" -> getEycaStatus
      [] o = "startCgnActivation" -> startCgnActivation
      [] o = "getCgnActivation" -> getCgnActivation
      [] o = "startEycaActivation" -> startEycaActivation
      [] o = "getEycaActivation" -> getEycaActivation
      [] o = "startCgnUnsubscription" -> startCgnUnsubscription
      [] o = "generateOtp" -> generateOtp
      [] o \in Searches \union ForEligible -> operatorSearch

BugNoDefault(o, status) == IF status \in Relayed(o) THEN status ELSE "undefined"
BugFailureIsRefusal(o, status) == IF status \in Relayed(o) THEN status ELSE "409"
BugConflictIsAccepted(o, status) ==
    IF status = "409" /\ o \in Activations THEN "202"
    ELSE IF status \in Relayed(o) THEN status ELSE "500"

responseOf(o, status) == IF status \in Relayed(o) THEN status ELSE "500"

Receive(r) ==
    /\ call[r] \in Statuses
    /\ Finish(r, "await", responseOf(op[r], call[r]))
    /\ call' = [call EXCEPT ![r] = "none"]
    /\ UNCHANGED <<cardVars, op, got, during, performed, shown>>

BugOnlyAnAnswerFails(r) ==
    /\ call[r] \in Statuses
    /\ Finish(r, "await", "500")
    /\ call' = [call EXCEPT ![r] = "none"]
    /\ UNCHANGED <<cardVars, op, got, during, performed, shown>>

(* The client gives up after its timeout, or its answer does not decode.   *)
(* A call that writes may still arrive.                                    *)
withCatchAsInternalError(r) ==
    /\ Finish(r, "eligible", "500") \/ Finish(r, "await", "500")
    /\ call' = [call EXCEPT ![r] = IF @ = "sent" /\ Asked(r) \in Writes THEN "sent" ELSE "none"]
    /\ UNCHANGED <<cardVars, op, got, during, performed, shown>>

-----------------------------------------------------------------------------
Handle(r) ==
    \/ eligibleUserOrError(r)
    \/ Receive(r)
    \/ withCatchAsInternalError(r)

Perform(r) ==
    \/ TellStatus(r)
    \/ TellOther(r)
    \/ PerformActivation(r)
    \/ PerformUnsubscription(r)
    \/ PerformOtp(r)
    \/ BurnCode(r)
    \/ Refuse(r)

Next ==
    \/ \E c \in Cards: ActivationEnds(c) \/ CardExpires(c)
    \/ UnsubscriptionEnds
    \/ \E r \in Requests: Arrive(r) \/ Handle(r) \/ Perform(r)

(* A handler goes on: its clients have a timeout.  Nothing is assumed of   *)
(* the function apps.                                                      *)
GoesOn(r) == WF_vars(Handle(r))
Fairness == \A r \in Requests: GoesOn(r)

Safe == Init /\ [][Next]_vars
Spec == Safe /\ Fairness

-----------------------------------------------------------------------------
(* Properties. *)

(* No discount code is burnt, and no merchant asked for, unless the card   *)
(* was active at some time while the request was handled.  It need not be  *)
(* any more when the code is burnt: the card is read a call before.        *)
EligibleWhenAsked ==
    \A r \in Requests:
        (op[r] = "getDiscountBucketCode" /\ r \in performed) \/ r \in shown => "ACTIVATED" \in during[r]

(* The answer tells what was done, and goes on being true: 200 and 201     *)
(* mean that it was, a refusal that it was not and will not be.  After 500 *)
(* the citizen may not know, and the code may be burnt.                    *)
AnswerTellsEffect ==
    \A r \in Requests: op[r] \in Writes =>
        /\ answer[r] \in {"200", "201"} => r \in performed
        /\ answer[r] \in Refused \union {"202"} => r \notin performed /\ call[r] # "sent"

(* What the answer says of the card was the case at some time while the    *)
(* request was handled: the status that is told, that there is none, that  *)
(* an activation is going on (202) or has no sense any more (409), and     *)
(* that the card gives no right to discounts (403).                        *)
AnswerWasTrue ==
    \A r \in Requests:
        /\ op[r] \in StatusReads =>
            /\ answer[r] = "200" => got[r] \in during[r]
            /\ answer[r] \in {"404", "409"} => "none" \in during[r]
        /\ op[r] \in Activations =>
            /\ answer[r] = "202" => "PENDING" \in during[r]
            /\ answer[r] = "409" => during[r] \intersect {"ACTIVATED", "EXPIRED"} # {}
        /\ op[r] \in ForEligible /\ answer[r] = "403" => during[r] \ {"ACTIVATED"} # {}
        /\ op[r] = "generateOtp" /\ answer[r] = "403" => during[r] \ {"ACTIVATED"} # {}

(* Every request is answered, even when its call is lost.                  *)
RequestsAnswered == \A r \in Requests: Handled(r) ~> answer[r] # "none"
=============================================================================
