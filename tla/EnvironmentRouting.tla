-------------------------- MODULE EnvironmentRouting --------------------------
(***************************************************************************)
(* Requests of one citizen to services that have a test environment beside *)
(* production: the activation of SEND notifications (PN), which he reads   *)
(* and sets, and the payment notices of pagoPA ecommerce, which he reads.  *)
(* A query parameter selects the environment, read differently by each     *)
(* controller; the services are external.                                  *)
(***************************************************************************)
CONSTANTS
    Requests,
    Traffic      \* what they may ask for together, see Request

Environments == {"PRODUCTION", "UAT"}
Operations == {"getPNActivation", "upsertPNActivation", "getPaymentInfo"}
(* The query parameter, as the string both parsers make of it: absent,     *)
(* "true" in lower or other case, or anything else.  An array reads as its *)
(* elements with commas between them: one element as itself, two or more   *)
(* as something else.                                                      *)
Params == {"absent", "true", "TRUE", "other"}
Request == [op: Operations, test: Params, to: {"on", "off"}]

ASSUME TrafficAssumption == Traffic \subseteq [Requests -> Request]

Activation == {"missing", "on", "off"}
Payment == {"unknown", "payable", "paid"}
Facts == Activation \union Payment

Done == {"200", "204"}
PaymentErrors == {"409", "502", "503"}
Statuses == Done \union PaymentErrors \union {"400", "401", "404", "500"}

VARIABLES
    activation, \* at PN, by environment
    payment,    \* the payment notice at pagoPA, by environment
    req,        \* what each request asks for
    pc,         \* next step of each request
    target,     \* environment its client was made for
    call,       \* its call: none, sent, or answered and the answer not taken yet
    told,       \* activation the answer tells
    during,     \* auxiliary: what was the case in the environment it means, meanwhile
    performed,  \* auxiliary: requests whose update took effect
    rivals,     \* auxiliary: other updates of that environment that may come after it
    answer      \* HTTP status it was answered

worldVars == <<activation, payment>>
vars == <<activation, payment, req, pc, target, call, told, during, performed, rivals, answer>>

TypeOK ==
    /\ activation \in [Environments -> Activation]
    /\ payment \in [Environments -> Payment]
    /\ req \in [Requests -> Request]
    /\ pc \in [Requests -> {"idle", "await", "done"}]
    /\ target \in [Requests -> Environments]
    /\ call \in [Requests -> {"none", "sent"} \union Statuses]
    /\ told \in [Requests -> Activation]
    /\ during \in [Requests -> SUBSET Facts]
    /\ performed \subseteq Requests
    /\ rivals \in [Requests -> SUBSET Requests]
    /\ answer \in [Requests -> {"none"} \union Statuses]

Init ==
    /\ activation \in [Environments -> Activation]
    /\ payment = [e \in Environments |-> "unknown"]
    /\ req \in Traffic
    /\ pc = [r \in Requests |-> "idle"]
    /\ target = [r \in Requests |-> "PRODUCTION"]
    /\ call = [r \in Requests |-> "none"]
    /\ told = [r \in Requests |-> "missing"]
    /\ during = [r \in Requests |-> {}]
    /\ performed = {}
    /\ rivals = [r \in Requests |-> {}]
    /\ answer = [r \in Requests |-> "none"]

Handled(r) == pc[r] = "await"
IsPayment(r) == req[r].op = "getPaymentInfo"
IsUpdate(r) == req[r].op = "upsertPNActivation"

(* The environment a request means, whatever becomes of it.                *)
Meant(r) == IF req[r].test \in {"true", "TRUE"} THEN "UAT" ELSE "PRODUCTION"
Fact(r, a, p) == IF IsPayment(r) THEN p[Meant(r)] ELSE a[Meant(r)]

\* Updates of the same environment that may still take effect after r has.
MayFollow(r) == {s \in Requests \ {r}: IsUpdate(s) /\ Meant(s) = Meant(r) /\ call[s] = "sent"}

-----------------------------------------------------------------------------
(* The services, external. *)

SetWorld(a, p) ==
    /\ activation' = a
    /\ payment' = p
    /\ during' = [r \in Requests |-> IF Handled(r) THEN during[r] \union {Fact(r, a, p)} ELSE during[r]]

\* A notice that is asked for is issued, or paid, by any channel.
PaymentMoves(e) ==
    /\ payment[e] # "paid"
    /\ \E r \in Requests: IsPayment(r)
    /\ SetWorld(activation, [payment EXCEPT ![e] = IF @ = "unknown" THEN "payable" ELSE "paid"])
    /\ UNCHANGED <<req, pc, target, call, told, performed, rivals, answer>>

\* Nobody takes the answer that comes too late.
CallAnswered(r, status) ==
    /\ call[r] = "sent"
    /\ call' = [call EXCEPT ![r] = IF Handled(r) THEN status ELSE "none"]

setCourtesyAddressIo(r) ==
    /\ IsUpdate(r)
    /\ CallAnswered(r, "204") \/ CallAnswered(r, "500")
    /\ SetWorld([activation EXCEPT ![target[r]] = req[r].to], payment)
    /\ performed' = performed \union {r}
    /\ UNCHANGED <<req, pc, target, told, rivals, answer>>

getCourtesyAddressIo(r) ==
    LET now == activation[target[r]] IN
    /\ req[r].op = "getPNActivation"
    /\ \/ now # "missing" /\ CallAnswered(r, "200") /\ told' = [told EXCEPT ![r] = now]
       \/ now = "missing" /\ CallAnswered(r, "404") /\ UNCHANGED told
    /\ UNCHANGED <<worldVars, req, pc, target, during, performed, rivals, answer>>

getPaymentRequestInfo(r) ==
    LET now == payment[target[r]] IN
    /\ IsPayment(r)
    /\ \/ now = "payable" /\ CallAnswered(r, "200")
       \/ now = "paid" /\ CallAnswered(r, "409")
       \/ now = "unknown" /\ CallAnswered(r, "404")
       \/ CallAnswered(r, "502") \/ CallAnswered(r, "503")
    /\ UNCHANGED <<worldVars, req, pc, target, told, during, performed, rivals, answer>>

Refuse(r) ==
    /\ \E status \in {"400", "401", "500"}: CallAnswered(r, status)
    /\ UNCHANGED <<worldVars, req, pc, target, told, during, performed, rivals, answer>>

-----------------------------------------------------------------------------
(* Handlers. *)

Lower(param) == IF param = "TRUE" THEN "true" ELSE param

(* Operators named Bug... are plausible mistakes, not part of the model:   *)
(* each shows that a property can tell the model from the mistake.         *)
BugCaseMatters(param) == param = "true"

\* The controllers of PN skip a parameter that is absent ...
isTest(param) == param # "absent" /\ Lower(param) = "true"
\* ... the one of payments makes the string "undefined" of it.
parsePagopaTestParam(param) == Lower(param) = "true"

pnEnvironment(r) == IF isTest(req[r].test) THEN "UAT" ELSE "PRODUCTION"
paymentEnvironment(r) == IF parsePagopaTestParam(req[r].test) THEN "UAT" ELSE "PRODUCTION"

(* The client is made, and called; 400 when the user or the body does not  *)
(* decode, which cannot happen to a payment.                               *)
Arrive(r) ==
    /\ pc[r] = "idle"
    /\ \/ /\ ~IsPayment(r)
          /\ pc' = [pc EXCEPT ![r] = "done"]
          /\ answer' = [answer EXCEPT ![r] = "400"]
          /\ UNCHANGED <<target, call, during, rivals>>
       \/ /\ pc' = [pc EXCEPT ![r] = "await"]
          /\ target' = [target EXCEPT ![r] = IF IsPayment(r) THEN paymentEnvironment(r) ELSE pnEnvironment(r)]
          /\ call' = [call EXCEPT ![r] = "sent"]
          /\ during' = [during EXCEPT ![r] = {Fact(r, activation, payment)}]
          /\ rivals' = [s \in Requests |->
                          IF s = r THEN MayFollow(r)
                          ELSE IF IsUpdate(r) /\ Meant(s) = Meant(r) THEN rivals[s] \union {r} ELSE rivals[s]]
          /\ UNCHANGED answer
    /\ UNCHANGED <<worldVars, req, told, performed>>

Finish(r, status) ==
    /\ pc[r] = "await"
    /\ pc' = [pc EXCEPT ![r] = "done"]
    /\ answer' = [answer EXCEPT ![r] = status]
    /\ UNCHANGED <<worldVars, req, target, told, during, performed, rivals>>

BugNoDefault(r, status) == IF status \in {"200", "204", "404"} THEN status ELSE "undefined"
BugRefusedIsDone(r, status) ==
    CASE IsUpdate(r) -> "204"
      [] IsPayment(r) -> IF status \in {"400", "401"} THEN "500" ELSE status
      [] OTHER -> IF status \in {"200", "404"} THEN "200" ELSE "500"
BugConflictIsNotFound(r, status) ==
    CASE IsUpdate(r) -> IF status = "204" THEN "204" ELSE "500"
      [] IsPayment(r) -> IF status = "409" THEN "404" ELSE IF status \in {"400", "401"} THEN "500" ELSE status
      [] OTHER -> IF status \in {"200", "404"} THEN "200" ELSE "500"

(* A missing activation is told as one that is off.  The switch of a       *)
(* payment has no default: every status its client decodes has a case.     *)
responseOf(r, status) ==
    CASE IsUpdate(r) -> IF status = "204" THEN "204" ELSE "500"
      [] IsPayment(r) -> IF status \in {"200", "404"} \union PaymentErrors THEN status ELSE "500"
      [] OTHER -> IF status \in {"200", "404"} THEN "200" ELSE "500"

Receive(r) ==
    /\ call[r] \in Statuses
    /\ Finish(r, responseOf(r, call[r]))
    /\ call' = [call EXCEPT ![r] = "none"]

\* The answer, or what is made of it, does not decode.
Undecodable(r) ==
    /\ call[r] \in Statuses
    /\ Finish(r, "500")
    /\ call' = [call EXCEPT ![r] = "none"]

BugNoTimeout(r) ==
    /\ Undecodable(r)
    /\ ~IsPayment(r)

(* The client of PN gives up after its timeout; the update may still       *)
(* arrive.                                                                 *)
PnTimesOut(r) ==
    /\ ~IsPayment(r) /\ call[r] = "sent"
    /\ Finish(r, "500")
    /\ call' = [call EXCEPT ![r] = IF IsUpdate(r) THEN "sent" ELSE "none"]

\* The one of payments has none: it fails when the connection breaks, if ever.
PaymentBreaks(r) ==
    /\ IsPayment(r) /\ call[r] = "sent"
    /\ Finish(r, "500")
    /\ call' = [call EXCEPT ![r] = "none"]

-----------------------------------------------------------------------------
Handle(r) == Receive(r) \/ Undecodable(r) \/ PnTimesOut(r)

Perform(r) ==
    \/ setCourtesyAddressIo(r)
    \/ getCourtesyAddressIo(r)
    \/ getPaymentRequestInfo(r)
    \/ Refuse(r)

Next ==
    \/ \E e \in Environments: PaymentMoves(e)
    \/ \E r \in Requests: Arrive(r) \/ Handle(r) \/ PaymentBreaks(r) \/ Perform(r)

(* A handler goes on once its client has an answer or gives up.  Nothing   *)
(* is assumed of the services or of connections.                           *)
GoesOn(r) == WF_vars(Handle(r))
Fairness == \A r \in Requests: GoesOn(r)

Safe == Init /\ [][Next]_vars
Spec == Safe /\ Fairness

-----------------------------------------------------------------------------
(* Properties. *)

(* What an environment holds was there before or set by an update that     *)
(* means that environment: no test reaches production, however late.       *)
EnvironmentsApart ==
    [][\A e \in Environments: activation'[e] # activation[e] =>
        \E r \in performed': IsUpdate(r) /\ Meant(r) = e /\ activation'[e] = req[r].to]_vars

(* The activation a citizen is told is the one of the environment he asked *)
(* for, at some time meanwhile, a missing one being off; so is what he is  *)
(* told of a payment.                                                      *)
AnswerWasTrue ==
    \A r \in Requests:
        /\ req[r].op = "getPNActivation" /\ answer[r] = "200" => told[r] \in during[r]
        /\ IsPayment(r) =>
            /\ answer[r] = "200" => "payable" \in during[r]
            /\ answer[r] = "404" => "unknown" \in during[r]
            /\ answer[r] = "409" => "paid" \in during[r]

(* An update that is acknowledged is what its environment holds, unless    *)
(* another update came meanwhile, came later, or had been given up and was *)
(* late.                                                                   *)
AcknowledgedHolds ==
    \A r \in Requests:
        IsUpdate(r) /\ answer[r] = "204" /\ rivals[r] = {} => activation[Meant(r)] = req[r].to

(* Every request about activations is answered, even when its call is      *)
(* lost; one about a payment only once the service answers.                *)
RequestsAnswered ==
    \A r \in Requests: Handled(r) /\ (IsPayment(r) => call[r] # "sent") ~> answer[r] # "none"
=============================================================================
