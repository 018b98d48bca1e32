---------------------- MODULE EnvironmentRouting_proofs ----------------------
(***************************************************************************)
(* Proofs of the safety properties of EnvironmentRouting.  Both parsers of *)
(* the query parameter choose the environment that is meant; from there,   *)
(* what is told was the case in it, and who may still overwrite an         *)
(* acknowledged update is among its rivals.                                *)
(***************************************************************************)
EXTENDS EnvironmentRouting, TLAPS

USE TrafficAssumption

(* A call goes where its request means, and is answered while it waits.    *)
Routed ==
    \A r \in Requests:
        /\ call[r] # "none" => target[r] = Meant(r)
        /\ pc[r] = "idle" => call[r] = "none"
        /\ pc[r] # "done" => answer[r] = "none"
        /\ call[r] \in Statuses => pc[r] = "await"
        /\ call[r] = "sent" /\ ~IsUpdate(r) => pc[r] = "await"

(* What a status tells of the environment a request means.                 *)
Tells(r, status) ==
    /\ req[r].op = "getPNActivation" /\ status \in {"200", "404"} => told[r] \in during[r]
    /\ IsPayment(r) =>
        /\ status = "200" => "payable" \in during[r]
        /\ status = "404" => "unknown" \in during[r]
        /\ status = "409" => "paid" \in during[r]

TruthOf(r) ==
    /\ Handled(r) => Fact(r, activation, payment) \in during[r]
    /\ pc[r] = "idle" \/ (pc[r] = "await" /\ call[r] = "sent") => told[r] = "missing"
    /\ call[r] \in Statuses => Tells(r, call[r])
    /\ Tells(r, answer[r])

Truth == \A r \in Requests: TruthOf(r)

(* Once an update was sent, every other one that may come after it is      *)
(* among its rivals; without any, its environment holds what it set.       *)
Acknowledged(r) == IsUpdate(r) /\ (call[r] = "204" \/ answer[r] = "204")

RivalsOf(r) ==
    \A s \in Requests \ {r}:
        /\ call[r] # "none" \/ answer[r] = "204"
        /\ IsUpdate(s) /\ Meant(s) = Meant(r) /\ call[s] = "sent"
        => s \in rivals[r]

Holds(r) == Acknowledged(r) /\ rivals[r] = {} => activation[Meant(r)] = req[r].to

Rivalry == \A r \in Requests: RivalsOf(r) /\ Holds(r)

RoutingInv == TypeOK /\ Routed /\ Truth /\ Rivalry

-----------------------------------------------------------------------------
(* The type invariant. *)

LEMMA StatusesAre == \A s \in {"200", "204", "400", "401", "404", "409", "500", "502", "503"}: s \in Statuses
BY DEF Statuses, Done, PaymentErrors

LEMMA MeantType ==
    ASSUME NEW r
    PROVE  Meant(r) \in Environments
BY DEF Meant, Environments

LEMMA ResponseType ==
    ASSUME NEW r, NEW s \in Statuses
    PROVE  responseOf(r, s) \in Statuses
BY DEF responseOf, Statuses, Done, PaymentErrors

\* What is answered is what the service said, unless an update or a reading
\* of the activation makes another of it.
LEMMA ResponseIs ==
    ASSUME NEW r, NEW s \in Statuses
    PROVE  /\ IsUpdate(r) => responseOf(r, s) = IF s = "204" THEN "204" ELSE "500"
           /\ IsPayment(r) => responseOf(r, s) \in {s, "500"}
           /\ ~IsUpdate(r) /\ ~IsPayment(r) => responseOf(r, s) = IF s \in {"200", "404"} THEN "200" ELSE "500"
BY DEF responseOf, IsUpdate, IsPayment

LEMMA FactType ==
    ASSUME NEW r, NEW a \in [Environments -> Activation], NEW p \in [Environments -> Payment]
    PROVE  Fact(r, a, p) \in Facts
BY MeantType DEF Fact, Facts

LEMMA SetWorldType ==
    ASSUME TypeOK, NEW a \in [Environments -> Activation], NEW p \in [Environments -> Payment], SetWorld(a, p)
    PROVE  /\ activation' \in [Environments -> Activation]
           /\ payment' \in [Environments -> Payment]
           /\ during' \in [Requests -> SUBSET Facts]
<1>1. \A r \in Requests: Fact(r, a, p) \in Facts
  BY FactType
<1> QED BY <1>1 DEF SetWorld, TypeOK

LEMMA InitType == Init => TypeOK
<1> SUFFICES ASSUME Init PROVE TypeOK OBVIOUS
<1>1. activation \in [Environments -> Activation] /\ payment \in [Environments -> Payment]
  BY DEF Init, Payment
<1>2. req \in [Requests -> Request]
  BY DEF Init
<1>3. target \in [Requests -> Environments] /\ told \in [Requests -> Activation]
  BY DEF Init, Environments, Activation
<1> QED BY <1>1, <1>2, <1>3 DEF Init, TypeOK

LEMMA ArriveType ==
    ASSUME TypeOK, NEW r \in Requests, Arrive(r)
    PROVE  TypeOK'
<1>1. target' \in [Requests -> Environments]
  <2>1. paymentEnvironment(r) \in Environments /\ pnEnvironment(r) \in Environments
    BY DEF paymentEnvironment, pnEnvironment, Environments
  <2> QED BY <2>1 DEF Arrive, TypeOK
<1>2. during' \in [Requests -> SUBSET Facts]
  BY FactType DEF Arrive, TypeOK
<1>3. rivals' \in [Requests -> SUBSET Requests]
  BY DEF Arrive, TypeOK, MayFollow
<1>4. /\ pc' \in [Requests -> {"idle", "await", "done"}]
      /\ call' \in [Requests -> {"none", "sent"} \union Statuses]
      /\ answer' \in [Requests -> {"none"} \union Statuses]
  BY StatusesAre DEF Arrive, TypeOK
<1> QED BY <1>1, <1>2, <1>3, <1>4 DEF Arrive, TypeOK, worldVars

LEMMA HandleType ==
    ASSUME TypeOK, NEW r \in Requests, Handle(r) \/ PaymentBreaks(r)
    PROVE  TypeOK'
<1>1. CASE Receive(r)
  BY <1>1, ResponseType DEF TypeOK, Receive, Finish, worldVars
<1>2. CASE Undecodable(r)
  BY <1>2, StatusesAre DEF TypeOK, Undecodable, Finish, worldVars
<1>3. CASE PnTimesOut(r)
  BY <1>3, StatusesAre DEF TypeOK, PnTimesOut, Finish, worldVars
<1>4. CASE PaymentBreaks(r)
  BY <1>4, StatusesAre DEF TypeOK, PaymentBreaks, Finish, worldVars
<1> QED BY <1>1, <1>2, <1>3, <1>4 DEF Handle

LEMMA CallAnsweredType ==
    ASSUME TypeOK, NEW r \in Requests, NEW s \in Statuses, CallAnswered(r, s)
    PROVE  call' \in [Requests -> {"none", "sent"} \union Statuses]
BY DEF TypeOK, CallAnswered

LEMMA ServiceType ==
    ASSUME TypeOK, (\E e \in Environments: PaymentMoves(e)) \/ \E r \in Requests: Perform(r)
    PROVE  TypeOK'
<1>1. ASSUME NEW e \in Environments, PaymentMoves(e) PROVE TypeOK'
  <2>1. [payment EXCEPT ![e] = IF @ = "unknown" THEN "payable" ELSE "paid"] \in [Environments -> Payment]
    BY DEF TypeOK, Payment
  <2>2. activation' \in [Environments -> Activation] /\ payment' \in [Environments -> Payment]
        /\ during' \in [Requests -> SUBSET Facts]
    BY <1>1, <2>1, SetWorldType DEF PaymentMoves, TypeOK
  <2> QED BY <1>1, <2>2 DEF PaymentMoves, TypeOK
<1>2. ASSUME NEW r \in Requests, setCourtesyAddressIo(r) PROVE TypeOK'
  <2>1. req[r].to \in Activation
    BY DEF TypeOK, Request, Activation
  <2>2. [activation EXCEPT ![target[r]] = req[r].to] \in [Environments -> Activation]
    BY <2>1 DEF TypeOK
  <2>3. activation' \in [Environments -> Activation] /\ payment' \in [Environments -> Payment]
        /\ during' \in [Requests -> SUBSET Facts]
    BY <1>2, <2>2, SetWorldType DEF setCourtesyAddressIo, TypeOK
  <2>4. call' \in [Requests -> {"none", "sent"} \union Statuses]
    BY <1>2, CallAnsweredType, StatusesAre DEF setCourtesyAddressIo
  <2> QED BY <1>2, <2>3, <2>4 DEF setCourtesyAddressIo, TypeOK
<1>3. ASSUME NEW r \in Requests, getCourtesyAddressIo(r) PROVE TypeOK'
  <2>1. activation[target[r]] \in Activation
    BY DEF TypeOK
  <2> QED BY <1>3, <2>1, CallAnsweredType, StatusesAre DEF getCourtesyAddressIo, TypeOK, worldVars
<1>4. ASSUME NEW r \in Requests, getPaymentRequestInfo(r) PROVE TypeOK'
  BY <1>4, CallAnsweredType, StatusesAre DEF getPaymentRequestInfo, TypeOK, worldVars
<1>5. ASSUME NEW r \in Requests, Refuse(r) PROVE TypeOK'
  BY <1>5, CallAnsweredType, StatusesAre DEF Refuse, TypeOK, worldVars
<1> QED BY <1>1, <1>2, <1>3, <1>4, <1>5 DEF Perform

LEMMA NextType == TypeOK /\ [Next]_vars => TypeOK'
<1>1. ASSUME TypeOK, UNCHANGED vars PROVE TypeOK'
  BY <1>1 DEF TypeOK, vars, worldVars
<1> QED BY <1>1, ArriveType, HandleType, ServiceType DEF Next

(* Every variable keeps its type, whatever is asked for together.          *)
THEOREM TypeCorrect == Safe => []TypeOK
BY InitType, NextType, PTL DEF Safe

-----------------------------------------------------------------------------
(* Routing. *)

\* The two parsers agree with what is meant, on every parameter.
LEMMA ParsersAgree ==
    ASSUME TypeOK, NEW r \in Requests
    PROVE  pnEnvironment(r) = Meant(r) /\ paymentEnvironment(r) = Meant(r)
<1>1. req[r].test \in Params
  BY DEF TypeOK, Request
<1> QED BY <1>1 DEF Params, pnEnvironment, paymentEnvironment, isTest, parsePagopaTestParam, Lower, Meant

LEMMA ReqFixed == [Next]_vars => req' = req
BY DEF Next, vars, Arrive, Handle, Receive, Undecodable, PnTimesOut, PaymentBreaks, Finish, Perform,
       setCourtesyAddressIo, getCourtesyAddressIo, getPaymentRequestInfo, Refuse, PaymentMoves

\* What a service does to a call, whatever it is asked.
LEMMA PerformCall ==
    ASSUME TypeOK, NEW r \in Requests, Perform(r)
    PROVE  /\ call[r] = "sent"
           /\ \E s \in Statuses: call'[r] = IF Handled(r) THEN s ELSE "none"
           /\ \A q \in Requests: q # r => call'[q] = call[q]
           /\ UNCHANGED <<req, pc, target, rivals, answer>>
<1>1. \E s \in Statuses: CallAnswered(r, s)
  BY StatusesAre DEF Perform, setCourtesyAddressIo, getCourtesyAddressIo, getPaymentRequestInfo, Refuse
<1>2. UNCHANGED <<req, pc, target, rivals, answer>>
  BY DEF Perform, setCourtesyAddressIo, getCourtesyAddressIo, getPaymentRequestInfo, Refuse
<1> QED BY <1>1, <1>2 DEF CallAnswered, TypeOK

\* What a handler does to its request: it ends, and nothing else changes.
LEMMA HandleCall ==
    ASSUME TypeOK, NEW r \in Requests, Handle(r) \/ PaymentBreaks(r)
    PROVE  /\ pc[r] = "await" /\ pc'[r] = "done"
           /\ \/ call'[r] = "none"
              \/ call'[r] = "sent" /\ call[r] = "sent" /\ IsUpdate(r)
           /\ \/ answer'[r] = "500"
              \/ call[r] \in Statuses /\ answer'[r] = responseOf(r, call[r])
           /\ \A q \in Requests: q # r => pc'[q] = pc[q] /\ call'[q] = call[q] /\ answer'[q] = answer[q]
           /\ UNCHANGED <<activation, payment, req, target, told, during, performed, rivals>>
<1>1. CASE Receive(r)
  BY <1>1 DEF Receive, Finish, TypeOK, worldVars
<1>2. CASE Undecodable(r)
  BY <1>2 DEF Undecodable, Finish, TypeOK, worldVars
<1>3. CASE PnTimesOut(r)
  BY <1>3 DEF PnTimesOut, Finish, TypeOK, worldVars
<1>4. CASE PaymentBreaks(r)
  BY <1>4 DEF PaymentBreaks, Finish, TypeOK, worldVars
<1> QED BY <1>1, <1>2, <1>3, <1>4 DEF Handle

\* What the arrival of a request changes.
LEMMA ArriveCall ==
    ASSUME TypeOK, NEW r \in Requests, Arrive(r)
    PROVE  /\ pc[r] = "idle"
           /\ \/ /\ pc'[r] = "done" /\ answer'[r] = "400" /\ ~IsPayment(r)
                 /\ UNCHANGED <<target, call, during, rivals>>
              \/ /\ pc'[r] = "await" /\ target'[r] = Meant(r) /\ call'[r] = "sent"
                 /\ during'[r] = {Fact(r, activation, payment)}
                 /\ rivals'[r] = MayFollow(r)
                 /\ \A q \in Requests: q # r /\ IsUpdate(r) /\ Meant(q) = Meant(r) => rivals'[q] = rivals[q] \union {r}
                 /\ UNCHANGED answer
           /\ \A q \in Requests: q # r =>
                /\ pc'[q] = pc[q] /\ call'[q] = call[q] /\ answer'[q] = answer[q]
                /\ target'[q] = target[q] /\ during'[q] = during[q]
                /\ rivals[q] \subseteq rivals'[q]
           /\ UNCHANGED <<activation, payment, req, told, performed>>
<1>1. pc[r] = "idle" /\ UNCHANGED <<activation, payment, req, told, performed>>
  BY DEF Arrive, worldVars
<1>2. CASE ~IsPayment(r) /\ pc' = [pc EXCEPT ![r] = "done"] /\ answer' = [answer EXCEPT ![r] = "400"]
           /\ UNCHANGED <<target, call, during, rivals>>
  BY <1>1, <1>2 DEF TypeOK
<1>3. CASE /\ pc' = [pc EXCEPT ![r] = "await"]
           /\ target' = [target EXCEPT ![r] = IF IsPayment(r) THEN paymentEnvironment(r) ELSE pnEnvironment(r)]
           /\ call' = [call EXCEPT ![r] = "sent"]
           /\ during' = [during EXCEPT ![r] = {Fact(r, activation, payment)}]
           /\ rivals' = [s \in Requests |->
                           IF s = r THEN MayFollow(r)
                           ELSE IF IsUpdate(r) /\ Meant(s) = Meant(r) THEN rivals[s] \union {r} ELSE rivals[s]]
           /\ UNCHANGED answer
  BY <1>1, <1>3, ParsersAgree DEF TypeOK
<1> QED BY <1>2, <1>3 DEF Arrive

LEMMA SentIsNoStatus == "sent" \notin Statuses /\ "none" \notin Statuses
BY DEF Statuses, Done, PaymentErrors

LEMMA RoutedStep == TypeOK /\ Routed /\ [Next]_vars => Routed'
<1> SUFFICES ASSUME TypeOK, Routed, [Next]_vars PROVE Routed' OBVIOUS
<1>1. \A q \in Requests: Meant(q)' = Meant(q) /\ IsUpdate(q)' = IsUpdate(q)
  BY ReqFixed DEF Meant, IsUpdate
<1>2. CASE UNCHANGED vars
  BY <1>1, <1>2 DEF Routed, vars
<1>3. ASSUME NEW e \in Environments, PaymentMoves(e) PROVE Routed'
  BY <1>1, <1>3 DEF Routed, PaymentMoves
<1>4. ASSUME NEW r \in Requests, Arrive(r) PROVE Routed'
  BY <1>1, <1>4, ArriveCall, SentIsNoStatus DEF Routed
<1>5. ASSUME NEW r \in Requests, Handle(r) \/ PaymentBreaks(r) PROVE Routed'
  BY <1>1, <1>5, HandleCall, SentIsNoStatus DEF Routed
<1>6. ASSUME NEW r \in Requests, Perform(r) PROVE Routed'
  BY <1>1, <1>6, PerformCall, SentIsNoStatus DEF Routed, Handled
<1> QED BY <1>2, <1>3, <1>4, <1>5, <1>6 DEF Next

-----------------------------------------------------------------------------
(* What is told is true. *)

LEMMA FactFixed ==
    ASSUME TypeOK, [Next]_vars, NEW q \in Requests
    PROVE  /\ Fact(q, activation, payment)' = Fact(q, activation', payment')
           /\ \A s: (req[q].op = req'[q].op /\ told'[q] = told[q] /\ during[q] \subseteq during'[q] /\ Tells(q, s)) => Tells(q, s)'
           /\ Handled(q)' <=> pc'[q] = "await"
<1>1. req' = req
  BY ReqFixed
<1>2. Meant(q)' = Meant(q) /\ IsPayment(q)' = IsPayment(q)
  BY <1>1 DEF Meant, IsPayment
<1> QED BY <1>1, <1>2 DEF Fact, Tells, Handled

LEMMA FactIs ==
    ASSUME NEW r
    PROVE  /\ IsPayment(r) => Fact(r, activation, payment) = payment[Meant(r)]
           /\ ~IsPayment(r) => Fact(r, activation, payment) = activation[Meant(r)]
BY DEF Fact

LEMMA SetWorldGrows ==
    ASSUME TypeOK, NEW a, NEW p, SetWorld(a, p), NEW q \in Requests
    PROVE  /\ during[q] \subseteq during'[q]
           /\ Handled(q) => Fact(q, activation', payment') \in during'[q]
BY DEF SetWorld, TypeOK

LEMMA ResponseTells ==
    ASSUME TypeOK, NEW r \in Requests, NEW s \in Statuses, Tells(r, s)
    PROVE  Tells(r, responseOf(r, s)) /\ Tells(r, "500") /\ Tells(r, "400") /\ Tells(r, "none")
<1>1. Tells(r, "500") /\ Tells(r, "400") /\ Tells(r, "none")
  BY DEF Tells
<1>2. CASE IsPayment(r)
  BY <1>1, <1>2, ResponseIs DEF Tells, IsPayment
<1>3. CASE IsUpdate(r)
  BY <1>3 DEF Tells, IsUpdate, IsPayment
<1>4. CASE ~IsUpdate(r) /\ ~IsPayment(r)
  BY <1>1, <1>4, ResponseIs DEF Tells
<1> QED BY <1>1, <1>2, <1>3, <1>4

\* A request stays truthful when the world moves and its own state does not.
LEMMA TruthKept ==
    ASSUME TypeOK, [Next]_vars, NEW q \in Requests, TruthOf(q),
           pc'[q] = pc[q], call'[q] = call[q], told'[q] = told[q], answer'[q] = answer[q],
           during[q] \subseteq during'[q],
           Handled(q) => Fact(q, activation', payment') \in during'[q]
    PROVE  TruthOf(q)'
<1>1. \A s: Tells(q, s) => Tells(q, s)'
  BY FactFixed, ReqFixed
<1>2. Handled(q)' <=> Handled(q)
  BY FactFixed DEF Handled
<1> QED BY <1>1, <1>2, FactFixed DEF TruthOf

LEMMA TruthPerform ==
    ASSUME TypeOK, Routed, Truth, [Next]_vars, NEW r \in Requests, Perform(r)
    PROVE  \A q \in Requests: TruthOf(q)'
<1>1. /\ call[r] = "sent" /\ target[r] = Meant(r)
      /\ \A q \in Requests: q # r => call'[q] = call[q]
      /\ UNCHANGED <<req, pc, answer>>
  BY PerformCall DEF Routed
<1>2. \A q \in Requests:
        /\ during[q] \subseteq during'[q]
        /\ Handled(q) => Fact(q, activation', payment') \in during'[q]
        /\ q # r => told'[q] = told[q]
  <2>1. CASE setCourtesyAddressIo(r)
    BY <2>1, SetWorldGrows DEF setCourtesyAddressIo
  <2>2. CASE getCourtesyAddressIo(r)
    BY <2>2 DEF getCourtesyAddressIo, worldVars, Truth, TruthOf, TypeOK
  <2>3. CASE getPaymentRequestInfo(r)
    BY <2>3 DEF getPaymentRequestInfo, worldVars, Truth, TruthOf
  <2>4. CASE Refuse(r)
    BY <2>4 DEF Refuse, worldVars, Truth, TruthOf
  <2> QED BY <2>1, <2>2, <2>3, <2>4 DEF Perform
<1>3. ASSUME NEW q \in Requests, q # r PROVE TruthOf(q)'
  BY <1>1, <1>2, <1>3, TruthKept DEF Truth
<1>4. PICK s \in Statuses: CallAnswered(r, s) /\ (pc[r] = "await" => Tells(r, s)')
  <2>0. pc[r] = "await" => Fact(r, activation, payment) \in during[r] /\ told[r] = "missing"
    BY <1>1 DEF Truth, TruthOf, Handled
  <2>1. CASE setCourtesyAddressIo(r)
    BY <1>1, <2>1, StatusesAre DEF setCourtesyAddressIo, IsUpdate, IsPayment, Tells
  <2>2. CASE getCourtesyAddressIo(r)
    <3>1. Fact(r, activation, payment) = activation[target[r]] /\ ~IsPayment(r) /\ UNCHANGED <<during, req>>
      BY <1>1, <2>2, FactIs DEF getCourtesyAddressIo, IsPayment
    <3>2. \/ activation[target[r]] # "missing" /\ CallAnswered(r, "200") /\ told'[r] = activation[target[r]]
          \/ activation[target[r]] = "missing" /\ CallAnswered(r, "404") /\ told' = told
      BY <2>2 DEF getCourtesyAddressIo, TypeOK
    <3> QED BY <2>0, <3>1, <3>2, StatusesAre DEF Tells, IsPayment
  <2>3. CASE getPaymentRequestInfo(r)
    <3>1. Fact(r, activation, payment) = payment[target[r]] /\ UNCHANGED <<during, req>>
          /\ req[r].op = "getPaymentInfo"
      BY <1>1, <2>3, FactIs DEF getPaymentRequestInfo, IsPayment
    <3> QED BY <2>0, <2>3, <3>1, StatusesAre DEF getPaymentRequestInfo, Tells, IsPayment
  <2>4. CASE Refuse(r)
    BY <2>4, StatusesAre DEF Refuse, Tells
  <2> QED BY <2>1, <2>2, <2>3, <2>4 DEF Perform
<1>5. TruthOf(r)'
  <2>1. Fact(r, activation, payment)' = Fact(r, activation', payment')
        /\ (Handled(r)' <=> Handled(r)) /\ (Handled(r) <=> pc[r] = "await")
    BY <1>1, FactFixed DEF Handled
  <2>2. call'[r] = IF pc[r] = "await" THEN s ELSE "none"
    BY <1>4, <2>1 DEF CallAnswered, TypeOK
  <2>3. Tells(r, answer[r])'
    <3>1. CASE pc[r] = "await"
      BY <1>1, <3>1 DEF Routed, Tells
    <3>2. CASE pc[r] # "await"
      <4>1. IsUpdate(r)'
        BY <1>1, <3>2 DEF Routed, IsUpdate
      <4> QED BY <4>1 DEF Tells, IsUpdate, IsPayment
    <3> QED BY <3>1, <3>2
  <2>4. Tells(r, call[r])' \/ call'[r] = "none"
    BY <1>4, <2>2
  <2>5. call'[r] # "sent" /\ pc[r] # "idle"
    BY <1>1, <2>2, SentIsNoStatus DEF Routed
  <2> QED BY <1>1, <1>2, <2>1, <2>3, <2>4, <2>5, SentIsNoStatus DEF TruthOf
<1> QED BY <1>3, <1>5

LEMMA TruthStep == TypeOK /\ Routed /\ Truth /\ [Next]_vars => Truth'
<1> SUFFICES ASSUME TypeOK, Routed, Truth, [Next]_vars, NEW q \in Requests PROVE TruthOf(q)'
  BY DEF Truth
<1>0. TruthOf(q) /\ (Handled(q) => Fact(q, activation, payment) \in during[q])
  BY DEF Truth, TruthOf
<1>1. CASE UNCHANGED vars
  <2>1. UNCHANGED <<pc, call, told, answer, during, activation, payment>>
    BY <1>1 DEF vars, worldVars
  <2> QED BY <1>0, <2>1, TruthKept
<1>2. ASSUME NEW e \in Environments, PaymentMoves(e) PROVE TruthOf(q)'
  <2>1. during[q] \subseteq during'[q] /\ (Handled(q) => Fact(q, activation', payment') \in during'[q])
    BY <1>2, SetWorldGrows DEF PaymentMoves
  <2>2. UNCHANGED <<pc, call, told, answer>>
    BY <1>2 DEF PaymentMoves
  <2> QED BY <1>0, <2>1, <2>2, TruthKept
<1>3. ASSUME NEW r \in Requests, Arrive(r), q # r PROVE TruthOf(q)'
  BY <1>0, <1>3, ArriveCall, TruthKept
<1>4. ASSUME Arrive(q) PROVE TruthOf(q)'
  <2>1. /\ pc[q] = "idle" /\ call[q] = "none" /\ answer[q] = "none" /\ told'[q] = "missing"
    BY <1>0, <1>4, ArriveCall DEF Routed, TruthOf
  <2>2. Fact(q, activation, payment)' = Fact(q, activation, payment) /\ (Handled(q)' <=> pc'[q] = "await")
    BY <1>4, ArriveCall, FactFixed
  <2>3. Tells(q, "none")' /\ (~IsPayment(q) => Tells(q, "400")')
    BY DEF Tells
  <2>4. ~IsPayment(q)' => Tells(q, "400")'
    BY DEF Tells
  <2> QED BY <1>4, <2>1, <2>2, <2>3, ArriveCall, SentIsNoStatus DEF TruthOf
<1>5. ASSUME NEW r \in Requests, Handle(r) \/ PaymentBreaks(r), q # r PROVE TruthOf(q)'
  BY <1>0, <1>5, HandleCall, TruthKept
<1>6. ASSUME Handle(q) \/ PaymentBreaks(q) PROVE TruthOf(q)'
  <2>1. pc'[q] = "done" /\ UNCHANGED <<told, during, req>> /\ call'[q] \in {"none", "sent"}
    BY <1>6, HandleCall
  <2>2. \A s: Tells(q, s) => Tells(q, s)'
    BY <2>1, FactFixed
  <2>3. PICK s: answer'[q] = s
    OBVIOUS
  <2>4. Tells(q, s)
    <3>1. CASE s = "500"
      BY <3>1 DEF Tells
    <3>2. CASE call[q] \in Statuses /\ s = responseOf(q, call[q])
      BY <1>0, <3>2, ResponseTells DEF TruthOf
    <3> QED BY <1>6, <2>3, <3>1, <3>2, HandleCall
  <2>5. Tells(q, answer[q])'
    BY <2>2, <2>3, <2>4 DEF Tells
  <2> QED BY <2>1, <2>5, FactFixed, SentIsNoStatus DEF TruthOf
<1>7. ASSUME NEW r \in Requests, Perform(r) PROVE TruthOf(q)'
  BY <1>7, TruthPerform
<1> QED BY <1>1, <1>2, <1>3, <1>4, <1>5, <1>6, <1>7 DEF Next

-----------------------------------------------------------------------------
(* Who may overwrite an acknowledged update. *)

LEMMA MeansFixed ==
    ASSUME [Next]_vars, NEW q
    PROVE  IsUpdate(q)' = IsUpdate(q) /\ Meant(q)' = Meant(q) /\ req'[q] = req[q]
BY ReqFixed DEF IsUpdate, Meant

LEMMA RivalsArrive ==
    ASSUME TypeOK, Routed, Rivalry, [Next]_vars, NEW a \in Requests, Arrive(a), NEW r \in Requests
    PROVE  RivalsOf(r)' /\ Holds(r)'
<1>1. CASE r = a
  <2>1. answer[r] = "none" /\ call[r] = "none"
    BY <1>1, ArriveCall DEF Routed
  <2>2. ~Acknowledged(r)'
    BY <1>1, <2>1, ArriveCall DEF Acknowledged
  <2>3. ASSUME NEW s \in Requests \ {r}, call'[r] # "none" \/ answer'[r] = "204",
               IsUpdate(s), Meant(s) = Meant(r), call'[s] = "sent"
        PROVE  s \in rivals'[r]
    <3>1. rivals'[r] = MayFollow(r) /\ call[s] = "sent"
      BY <1>1, <2>1, <2>3, ArriveCall
    <3> QED BY <2>3, <3>1 DEF MayFollow
  <2> QED BY <2>2, <2>3, MeansFixed DEF RivalsOf, Holds
<1>2. CASE r # a
  <2>1. /\ call'[r] = call[r] /\ answer'[r] = answer[r] /\ rivals[r] \subseteq rivals'[r]
        /\ activation' = activation
    BY <1>2, ArriveCall
  <2>2. Holds(r)'
    BY <2>1, MeansFixed DEF Rivalry, Holds, Acknowledged
  <2>3. ASSUME NEW s \in Requests \ {r}, call'[r] # "none" \/ answer'[r] = "204",
               IsUpdate(s), Meant(s) = Meant(r), call'[s] = "sent"
        PROVE  s \in rivals'[r]
    <3>1. CASE s = a
      <4>1. call[a] = "none"
        BY ArriveCall DEF Routed
      <4> QED BY <1>2, <2>3, <3>1, <4>1, ArriveCall
    <3>2. CASE s # a
      BY <2>1, <2>3, <3>2, ArriveCall DEF Rivalry, RivalsOf
    <3> QED BY <3>1, <3>2
  <2> QED BY <2>2, <2>3, MeansFixed DEF RivalsOf
<1> QED BY <1>1, <1>2

LEMMA RivalsHandle ==
    ASSUME TypeOK, Rivalry, [Next]_vars, NEW a \in Requests, Handle(a) \/ PaymentBreaks(a), NEW r \in Requests
    PROVE  RivalsOf(r)' /\ Holds(r)'
<1>1. /\ activation' = activation /\ rivals' = rivals
      /\ \A q \in Requests: call'[q] = "sent" => call[q] = "sent"
      /\ call'[r] = "204" => call[r] = "204"
      /\ call'[r] # "none" => call[r] # "none"
  BY HandleCall
<1>2. ASSUME answer'[r] = "204" PROVE answer[r] = "204" \/ (call[r] # "none" /\ (IsUpdate(r) => call[r] = "204"))
  <2>1. CASE r # a
    BY <1>2, <2>1, HandleCall
  <2>2. CASE r = a
    <3>1. call[r] \in Statuses /\ answer'[r] = responseOf(r, call[r])
      BY <1>2, <2>2, HandleCall
    <3> QED BY <1>2, <3>1, ResponseIs, SentIsNoStatus
  <2> QED BY <2>1, <2>2
<1>3. Acknowledged(r)' => Acknowledged(r)
  BY <1>1, <1>2, MeansFixed DEF Acknowledged
<1>4. Holds(r)'
  BY <1>1, <1>3, MeansFixed DEF Rivalry, Holds
<1>5. RivalsOf(r)'
  BY <1>1, <1>2, MeansFixed DEF Rivalry, RivalsOf
<1> QED BY <1>4, <1>5

LEMMA RivalsPerform ==
    ASSUME TypeOK, Routed, Rivalry, [Next]_vars, NEW a \in Requests, Perform(a), NEW r \in Requests
    PROVE  RivalsOf(r)' /\ Holds(r)'
<1>1. /\ call[a] = "sent" /\ target[a] = Meant(a) /\ call'[a] # "sent"
      /\ \A q \in Requests: q # a => call'[q] = call[q]
      /\ UNCHANGED <<req, rivals, answer>>
  BY PerformCall, SentIsNoStatus DEF Routed
<1>2. RivalsOf(r)'
  BY <1>1, MeansFixed DEF Rivalry, RivalsOf
<1>3. CASE setCourtesyAddressIo(a)
  <2>1. IsUpdate(a) /\ activation' = [activation EXCEPT ![Meant(a)] = req[a].to]
    BY <1>1, <1>3 DEF setCourtesyAddressIo, SetWorld
  <2>2. Meant(a) \in Environments /\ Meant(r) \in Environments
    BY MeantType
  <2>3. CASE r = a
    BY <1>2, <2>1, <2>2, <2>3, MeansFixed DEF Holds, TypeOK
  <2>4. CASE r # a /\ Meant(r) # Meant(a)
    <3>1. activation'[Meant(r)] = activation[Meant(r)]
      BY <2>1, <2>2, <2>4 DEF TypeOK
    <3> QED BY <1>1, <1>2, <2>4, <3>1, MeansFixed DEF Rivalry, Holds, Acknowledged
  <2>5. CASE r # a /\ Meant(r) = Meant(a)
    <3>1. Acknowledged(r)' => a \in rivals[r]
      BY <1>1, <2>1, <2>5, MeansFixed DEF Rivalry, RivalsOf, Acknowledged
    <3> QED BY <1>1, <1>2, <3>1 DEF Holds
  <2> QED BY <2>3, <2>4, <2>5
<1>4. CASE ~setCourtesyAddressIo(a)
  <2>1. activation' = activation
    BY <1>4 DEF Perform, getCourtesyAddressIo, getPaymentRequestInfo, Refuse, worldVars
  <2>2. IsUpdate(a) => call'[a] # "204"
    BY <1>4 DEF Perform, getCourtesyAddressIo, getPaymentRequestInfo, Refuse, CallAnswered, IsUpdate, IsPayment, TypeOK
  <2>3. Acknowledged(r)' => Acknowledged(r)
    BY <1>1, <2>2, MeansFixed DEF Acknowledged
  <2> QED BY <1>1, <1>2, <2>1, <2>3, MeansFixed DEF Rivalry, Holds
<1> QED BY <1>2, <1>3, <1>4

LEMMA RivalryStep == TypeOK /\ Routed /\ Rivalry /\ [Next]_vars => Rivalry'
<1> SUFFICES ASSUME TypeOK, Routed, Rivalry, [Next]_vars, NEW r \in Requests PROVE RivalsOf(r)' /\ Holds(r)'
  BY DEF Rivalry
<1>1. CASE UNCHANGED vars \/ \E e \in Environments: PaymentMoves(e)
  <2>1. UNCHANGED <<activation, call, rivals, answer>>
    BY <1>1 DEF vars, worldVars, PaymentMoves, SetWorld
  <2> QED BY <2>1, MeansFixed DEF Rivalry, RivalsOf, Holds, Acknowledged
<1>2. ASSUME NEW a \in Requests, Arrive(a) PROVE RivalsOf(r)' /\ Holds(r)'
  BY <1>2, RivalsArrive
<1>3. ASSUME NEW a \in Requests, Handle(a) \/ PaymentBreaks(a) PROVE RivalsOf(r)' /\ Holds(r)'
  BY <1>3, RivalsHandle
<1>4. ASSUME NEW a \in Requests, Perform(a) PROVE RivalsOf(r)' /\ Holds(r)'
  BY <1>4, RivalsPerform
<1> QED BY <1>1, <1>2, <1>3, <1>4 DEF Next

-----------------------------------------------------------------------------
LEMMA InitInvariant == Init => RoutingInv
<1> SUFFICES ASSUME Init PROVE RoutingInv OBVIOUS
<1>1. \A r \in Requests: pc[r] = "idle" /\ call[r] = "none" /\ told[r] = "missing" /\ answer[r] = "none"
  BY DEF Init
<1>2. Routed /\ Truth
  BY <1>1, SentIsNoStatus DEF Routed, Truth, TruthOf, Handled, Tells
<1>3. Rivalry
  BY <1>1 DEF Rivalry, RivalsOf, Holds, Acknowledged
<1> QED BY <1>2, <1>3, InitType DEF RoutingInv

LEMMA AlwaysRouted == Safe => []RoutingInv
<1>1. RoutingInv /\ [Next]_vars => RoutingInv'
  BY NextType, RoutedStep, TruthStep, RivalryStep DEF RoutingInv
<1> QED BY <1>1, InitInvariant, PTL DEF Safe

(* Whatever is asked for together, the activation and the payment that are *)
(* told are those of the environment that is meant.                        *)
THEOREM AnswersWereTrue == Safe => []AnswerWasTrue
<1>1. RoutingInv => AnswerWasTrue
  BY DEF RoutingInv, Truth, TruthOf, Tells, AnswerWasTrue
<1> QED BY <1>1, AlwaysRouted, PTL

(* An acknowledged update holds as long as nobody could have overwritten   *)
(* it: a late update of a request that was answered 500 is the only one    *)
(* that no later request explains.                                         *)
THEOREM AcknowledgedUpdatesHold == Safe => []AcknowledgedHolds
<1>1. RoutingInv => AcknowledgedHolds
  BY DEF RoutingInv, Rivalry, Holds, Acknowledged, AcknowledgedHolds
<1> QED BY <1>1, AlwaysRouted, PTL

(* No step of a request that means an environment changes the other one.   *)
THEOREM EnvironmentsStayApart == Safe => EnvironmentsApart
<1> DEFINE Apart ==
      \A e \in Environments: activation'[e] # activation[e] =>
        \E r \in performed': IsUpdate(r) /\ Meant(r) = e /\ activation'[e] = req[r].to
<1>1. ASSUME RoutingInv, Next PROVE Apart
  <2> SUFFICES ASSUME NEW e \in Environments, activation'[e] # activation[e]
               PROVE  \E r \in performed': IsUpdate(r) /\ Meant(r) = e /\ activation'[e] = req[r].to
    OBVIOUS
  <2>1. PICK r \in Requests: setCourtesyAddressIo(r)
    <3>1. ASSUME NEW d \in Environments, PaymentMoves(d) PROVE FALSE
      BY <3>1 DEF PaymentMoves, SetWorld
    <3>2. ASSUME NEW a \in Requests, Arrive(a) PROVE FALSE
      BY <3>2 DEF Arrive, worldVars
    <3>3. ASSUME NEW a \in Requests, Handle(a) \/ PaymentBreaks(a) PROVE FALSE
      BY <1>1, <3>3, HandleCall DEF RoutingInv
    <3>4. ASSUME NEW a \in Requests, Perform(a) PROVE setCourtesyAddressIo(a)
      BY <3>4 DEF Perform, getCourtesyAddressIo, getPaymentRequestInfo, Refuse, worldVars
    <3> QED BY <1>1, <3>1, <3>2, <3>3, <3>4 DEF Next
  <2>2. target[r] = Meant(r) /\ IsUpdate(r) /\ r \in performed'
        /\ activation' = [activation EXCEPT ![target[r]] = req[r].to]
    BY <1>1, <2>1 DEF setCourtesyAddressIo, SetWorld, CallAnswered, RoutingInv, Routed
  <2>3. e = Meant(r) /\ activation'[e] = req[r].to
    BY <1>1, <2>2 DEF RoutingInv, TypeOK
  <2> QED BY <2>2, <2>3
<1>2. RoutingInv /\ [Next]_vars => [Apart]_vars
  BY <1>1
<1> QED BY <1>2, AlwaysRouted, PTL DEF Safe, EnvironmentsApart

-----------------------------------------------------------------------------
(* Every request is answered.                                              *)

\* The step of a handler that is due: its client has the answer, or may give up.
Due(r) == pc[r] = "await" /\ (call[r] \in Statuses \/ (~IsPayment(r) /\ call[r] = "sent"))

(* A handler whose step is due can take it: the only fact about ENABLED    *)
(* the argument needs.                                                     *)
DueIsEnabled == \A r \in Requests: Due(r) => ENABLED <<Handle(r)>>_vars

Waiting == \A r \in Requests: pc[r] = "await" => call[r] # "none"

LEMMA AlwaysWaiting == Safe => []Waiting
<1>1. Init => Waiting
  BY DEF Init, Waiting
<1>2. RoutingInv /\ Waiting /\ [Next]_vars => Waiting'
  <2> SUFFICES ASSUME RoutingInv, Waiting, [Next]_vars PROVE Waiting'
    OBVIOUS
  <2> USE DEF RoutingInv, Waiting
  <2>1. CASE UNCHANGED vars \/ \E e \in Environments: PaymentMoves(e)
    BY <2>1 DEF vars, PaymentMoves
  <2>2. ASSUME NEW q \in Requests, Arrive(q) PROVE Waiting'
    BY <2>2, ArriveCall
  <2>3. ASSUME NEW q \in Requests, Handle(q) \/ PaymentBreaks(q) PROVE Waiting'
    BY <2>3, HandleCall
  <2>4. ASSUME NEW q \in Requests, Perform(q) PROVE Waiting'
    BY <2>4, PerformCall, SentIsNoStatus DEF Handled
  <2> QED BY <2>1, <2>2, <2>3, <2>4 DEF Next
<1> QED BY <1>1, <1>2, AlwaysRouted, PTL DEF Safe

\* A request to answer; a payment only once the service has answered.
Pending(r) == Handled(r) /\ (IsPayment(r) => call[r] # "sent")
Answered(r) == answer[r] # "none"

LEMMA PendingIsDue ==
    ASSUME RoutingInv, Waiting, NEW r \in Requests, Pending(r)
    PROVE  Due(r)
BY DEF RoutingInv, TypeOK, Waiting, Pending, Due, Handled

\* A request that is to be answered stays so until it is.
LEMMA PendingStays ==
    ASSUME RoutingInv, [Next]_vars, NEW r \in Requests, Pending(r)
    PROVE  Pending(r)' \/ Answered(r)'
<1>0. IsPayment(r)' = IsPayment(r) /\ pc[r] = "await"
  BY ReqFixed DEF IsPayment, Pending, Handled
<1> USE DEF RoutingInv, Pending, Answered, Handled
<1>1. CASE UNCHANGED vars \/ \E e \in Environments: PaymentMoves(e)
  BY <1>0, <1>1 DEF vars, PaymentMoves
<1>2. ASSUME NEW q \in Requests, Arrive(q) PROVE Pending(r)'
  BY <1>0, <1>2, ArriveCall
<1>3. ASSUME NEW q \in Requests, Handle(q) \/ PaymentBreaks(q) PROVE Pending(r)' \/ Answered(r)'
  <2>1. q = r => answer'[r] \in Statuses
    BY <1>3, HandleCall, ResponseType, StatusesAre
  <2> QED BY <1>0, <1>3, <2>1, HandleCall, SentIsNoStatus
<1>4. ASSUME NEW q \in Requests, Perform(q) PROVE Pending(r)'
  BY <1>0, <1>4, PerformCall, SentIsNoStatus
<1> QED BY <1>1, <1>2, <1>3, <1>4 DEF Next

LEMMA HandleAnswers ==
    ASSUME RoutingInv, NEW r \in Requests, Handle(r)
    PROVE  Answered(r)'
<1>1. answer'[r] \in Statuses
  BY HandleCall, ResponseType, StatusesAre DEF RoutingInv
<1> QED BY <1>1, SentIsNoStatus DEF Answered

\* Weak fairness of a handler, with its guard written out.
LEMMA DueIsDone ==
    ASSUME NEW r \in Requests
    PROVE  GoesOn(r) /\ []DueIsEnabled => []<>(~Due(r)) \/ []<><<Handle(r)>>_vars
<1>1. DueIsEnabled => (Due(r) => ENABLED <<Handle(r)>>_vars)
  BY DEF DueIsEnabled
<1>2. GoesOn(r) => []<>(~ENABLED <<Handle(r)>>_vars) \/ []<><<Handle(r)>>_vars
  BY PTL DEF GoesOn
<1> QED BY <1>1, <1>2, PTL

(* Provided a handler whose step is due can take it, fairness of the       *)
(* handlers alone has every request answered: nothing is asked of PN, and  *)
(* of pagoPA only an answer.                                               *)
THEOREM RequestsAreAnswered == Spec /\ []DueIsEnabled => RequestsAnswered
<1>1. ASSUME NEW r \in Requests
      PROVE  Spec /\ []DueIsEnabled => (Pending(r) ~> Answered(r))
  <2>1. RoutingInv /\ Pending(r) /\ [Next]_vars => Pending(r)' \/ Answered(r)'
    BY PendingStays
  <2>2. RoutingInv /\ <<Handle(r)>>_vars => Answered(r)'
    BY HandleAnswers
  <2>3. RoutingInv /\ Waiting /\ Pending(r) => Due(r)
    BY PendingIsDue
  <2>4. Spec => GoesOn(r)
    BY DEF Spec, Fairness
  <2>5. GoesOn(r) /\ []DueIsEnabled => []<>(~Due(r)) \/ []<><<Handle(r)>>_vars
    BY DueIsDone
  <2> QED BY <2>1, <2>2, <2>3, <2>4, <2>5, AlwaysRouted, AlwaysWaiting, PTL DEF Spec, Safe
<1>2. Spec /\ []DueIsEnabled => \A r \in Requests: (Pending(r) ~> Answered(r))
  BY <1>1
<1> QED BY <1>2 DEF RequestsAnswered, Pending, Answered
=============================================================================
