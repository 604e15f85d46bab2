------------------------ MODULE PaymentServiceProofs -------------------------
(***************************************************************************)
(* What a key answers for, with any requests, keys, installments, amounts  *)
(* and faults: a request that holds a row holds the one it asked for, from *)
(* the statement that read or wrote it to the answer.  It rests on rows    *)
(* never being removed and on nobody rewriting what was asked for, though  *)
(* every status is written by key, whatever the row holds by then.         *)
(***************************************************************************)
EXTENDS PaymentService, TLAPS

------------------------------------------------------------------------------
\* The inductive invariant.

\* The fields of a row and of a request, whatever their values.
IsAttempt(x) ==
  x \in [status : {x.status}, installment : {x.installment}, amount : {x.amount},
         method : {x.method}, id : {x.id}, confirmed : {x.confirmed}]

IsRequest(x) == x \in [pc : {x.pc}, base : {x.base}, answer : {x.answer}]

\* Where a creating request has its row, and where it never is.
Holding == {"readPending", "markSubmitted", "call", "persist", "audit", "catch", "hook", "ok"}
Elsewhere == {"cancelCall", "cancelWrite", "refundCall", "refundWrite"}

AskedFor(r, row) ==
  /\ row.status # "absent"
  /\ row.installment = InstallmentOf[r] /\ row.amount = AmountOf[r] /\ row.method = MethodOf(r)

Fits(r, pc, row) ==
  Op[r] \in Creates => pc \notin Elsewhere /\ (pc \in Holding => AskedFor(r, row))

RowsOK == attempt = [k \in Key |-> attempt[k]] /\ \A k \in Key : IsAttempt(attempt[k])

RequestsOK ==
  /\ request = [r \in Request |-> request[r]]
  /\ \A r \in Request : IsRequest(request[r]) /\ request[r].answer \in ChargeStatus
  /\ \A r \in Request : Fits(r, request[r].pc, Row(r))

\* What the provider answers and reports is never the absence of a row.
ProviderOK ==
  /\ charge = [k \in Key |-> charge[k]] /\ \A k \in Key : charge[k] \in ChargeStatus
  /\ event = [k \in Key |-> event[k]] /\ \A k \in Key : event[k] \subseteq Outcomes

ServiceInv == RowsOK /\ RequestsOK /\ ProviderOK

------------------------------------------------------------------------------
\* What a step does to the rows and to the request that takes it.

\* Rows are added and never removed, and keep what was asked for.
RowsStay ==
  \A k \in Key : Exists(k) =>
    /\ attempt'[k].status # "absent"
    /\ attempt'[k].installment = attempt[k].installment
    /\ attempt'[k].amount = attempt[k].amount /\ attempt'[k].method = attempt[k].method

\* Request r has moved, and no other.
Moved(r, pc) ==
  /\ request' = [q \in Request |-> request'[q]]
  /\ IsRequest(request'[r]) /\ request'[r].pc = pc
  /\ \A q \in Request : q # r => request'[q] = request[q]

LEMMA KeysAndRequests ==
  ASSUME NEW r \in Request
  PROVE  KeyOf[r] \in Key /\ Op[r] \in Operation
BY ServiceAssumption

LEMMA WentTo ==
  ASSUME RequestsOK, NEW r \in Request, NEW pc, Goto(r, pc)
  PROVE  Moved(r, pc) /\ request'[r].answer \in ChargeStatus
BY DEF RequestsOK, Goto, Moved, IsRequest

LEMMA RowsKept ==
  ASSUME RowsOK, attempt' = attempt
  PROVE  RowsOK' /\ RowsStay
BY DEF RowsOK, RowsStay, Exists, IsAttempt

LEMMA StatusWritten ==
  ASSUME RowsOK, NEW k \in Key, NEW s, s # "absent",
         attempt' = [attempt EXCEPT ![k].status = s]
  PROVE  RowsOK' /\ RowsStay
<1> DEFINE row == attempt[k]
           new == [row EXCEPT !.status = s]
<1>1. IsAttempt(row)
  BY DEF RowsOK
<1>2. attempt'[k] = new /\ \A j \in Key : j # k => attempt'[j] = attempt[j]
  BY DEF RowsOK
<1>3. attempt' = [j \in Key |-> attempt'[j]]
  BY DEF RowsOK
<1> HIDE DEF row
<1>4. /\ IsAttempt(new) /\ new.status = s /\ new.installment = row.installment
      /\ new.amount = row.amount /\ new.method = row.method
  BY <1>1 DEF IsAttempt
<1> HIDE DEF new
<1>5. \A j \in Key : IsAttempt(attempt'[j])
  BY <1>2, <1>4 DEF RowsOK
<1>6. ASSUME NEW j \in Key, Exists(j)
      PROVE  /\ attempt'[j].status # "absent"
             /\ attempt'[j].installment = attempt[j].installment
             /\ attempt'[j].amount = attempt[j].amount /\ attempt'[j].method = attempt[j].method
  <2>1. CASE j = k
    BY <1>2, <1>4, <2>1 DEF row
  <2>2. CASE j # k
    BY <1>2, <1>6, <2>2 DEF Exists
  <2> QED BY <2>1, <2>2
<1> QED BY <1>3, <1>5, <1>6 DEF RowsOK, RowsStay

\* The step of one request.
LEMMA OneSteps ==
  ASSUME ServiceInv, NEW r \in Request, NEW pc, Moved(r, pc), request'[r].answer \in ChargeStatus,
         RowsOK', RowsStay, Fits(r, pc, attempt'[KeyOf[r]]), ProviderOK'
  PROVE  ServiceInv'
<1>1. ASSUME NEW q \in Request
      PROVE  /\ IsRequest(request'[q]) /\ request'[q].answer \in ChargeStatus
             /\ Fits(q, request'[q].pc, attempt'[KeyOf[q]])
  <2>1. CASE q = r
    BY <2>1 DEF Moved
  <2>2. CASE q # r
    <3>1. /\ request'[q] = request[q] /\ IsRequest(request[q])
          /\ request[q].answer \in ChargeStatus /\ Fits(q, request[q].pc, attempt[KeyOf[q]])
      BY <2>2 DEF Moved, ServiceInv, RequestsOK, Row
    <3>2. Fits(q, request[q].pc, attempt'[KeyOf[q]])
      BY <3>1, KeysAndRequests DEF Fits, AskedFor, RowsStay, Exists
    <3> QED BY <3>1, <3>2
  <2> QED BY <2>1, <2>2
<1>2. RequestsOK'
  BY <1>1 DEF RequestsOK, Row, Moved
<1> QED BY <1>2 DEF ServiceInv

\* The row a request holds is still there, and still what it asked for.
LEMMA StillFits ==
  ASSUME ServiceInv, NEW r \in Request, RowsStay, NEW pc, pc \notin Elsewhere,
         request[r].pc \in Holding \/ pc \notin Holding
  PROVE  Fits(r, pc, attempt'[KeyOf[r]])
<1>1. Fits(r, request[r].pc, attempt[KeyOf[r]])
  BY DEF ServiceInv, RequestsOK, Row
<1> QED BY <1>1, KeysAndRequests DEF Fits, AskedFor, RowsStay, Exists

\* A request moves on, and the rows are left alone or get a status.
LEMMA MovesOn ==
  ASSUME ServiceInv, NEW r \in Request, NEW pc, Goto(r, pc), RowsOK', RowsStay, ProviderOK',
         pc \notin Elsewhere \/ Op[r] \notin Creates,
         request[r].pc \in Holding \/ pc \notin Holding \/ Op[r] \notin Creates
  PROVE  ServiceInv'
<1>1. Moved(r, pc) /\ request'[r].answer \in ChargeStatus
  BY WentTo DEF ServiceInv
<1>2. Fits(r, pc, attempt'[KeyOf[r]])
  BY StillFits DEF Fits
<1> QED BY <1>1, <1>2, OneSteps

\* Nothing but the request's place changes.
LEMMA OnlyMoves ==
  ASSUME ServiceInv, NEW r \in Request, NEW pc, Goto(r, pc), UNCHANGED <<attempt, charge, event>>,
         pc \notin Elsewhere \/ Op[r] \notin Creates,
         request[r].pc \in Holding \/ pc \notin Holding \/ Op[r] \notin Creates
  PROVE  ServiceInv'
<1>1. RowsOK' /\ RowsStay
  BY RowsKept DEF ServiceInv
<1>2. ProviderOK'
  BY DEF ServiceInv, ProviderOK
<1> QED BY <1>1, <1>2, MovesOn

\* A request takes over the row it finds under its key.
LEMMA Replayed ==
  ASSUME ServiceInv, NEW r \in Request, Op[r] \in Creates, Exists(KeyOf[r]),
         Goto(r, AfterReplay(r)), UNCHANGED <<attempt, charge, event>>
  PROVE  ServiceInv'
<1>1. CASE MatchesRequest(r)
  <2>1. AskedFor(r, attempt'[KeyOf[r]])
    BY <1>1 DEF AskedFor, MatchesRequest, Row, Exists
  <2>2. PICK pc \in {"readPending", "ok"} : Goto(r, pc)
    BY <1>1 DEF AfterReplay
  <2>3. Fits(r, pc, attempt'[KeyOf[r]])
    BY <2>1 DEF Fits, Elsewhere
  <2>4. RowsOK' /\ RowsStay /\ ProviderOK'
    BY RowsKept DEF ServiceInv, ProviderOK
  <2>5. Moved(r, pc) /\ request'[r].answer \in ChargeStatus
    BY <2>2, WentTo DEF ServiceInv
  <2> QED BY <2>3, <2>4, <2>5, OneSteps
<1>2. CASE ~MatchesRequest(r)
  <2>1. Goto(r, "refused")
    BY <1>2 DEF AfterReplay
  <2> QED BY <2>1, OnlyMoves DEF Elsewhere, Holding
<1> QED BY <1>1, <1>2

------------------------------------------------------------------------------
\* The requests' steps.

\* A new row under a free key.
LEMMA RowAdded ==
  ASSUME RowsOK, NEW r \in Request, NEW status, status # "absent", ~Exists(KeyOf[r]),
         attempt' = [attempt EXCEPT ![KeyOf[r]] = NewRow(r, status)]
  PROVE  RowsOK' /\ RowsStay /\ AskedFor(r, attempt'[KeyOf[r]])
<1> DEFINE i == CHOOSE x \in Installment : TRUE
           none == [status |-> "absent", installment |-> i, amount |-> 0, method |-> "generic",
                    id |-> FALSE, confirmed |-> FALSE]
           m == MethodOf(r)
           row == [none EXCEPT !.status = status, !.installment = InstallmentOf[r],
                               !.amount = AmountOf[r], !.method = m]
<1>0. KeyOf[r] \in Key
  BY KeysAndRequests
<1>1. NewRow(r, status) = row
  BY DEF NewRow, NoRow
<1> HIDE DEF i, m
<1>2. /\ IsAttempt(row) /\ row.status = status /\ row.installment = InstallmentOf[r]
      /\ row.amount = AmountOf[r] /\ row.method = m
  BY DEF IsAttempt
<1> HIDE DEF row
<1>3. /\ attempt'[KeyOf[r]] = row /\ \A k \in Key : k # KeyOf[r] => attempt'[k] = attempt[k]
      /\ attempt' = [k \in Key |-> attempt'[k]]
  BY <1>0, <1>1 DEF RowsOK
<1>4. AskedFor(r, row)
  BY <1>2 DEF AskedFor, m
<1>5. RowsStay
  BY <1>3 DEF RowsStay, Exists
<1>6. \A k \in Key : IsAttempt(attempt'[k])
  BY <1>2, <1>3 DEF RowsOK
<1> QED BY <1>3, <1>4, <1>5, <1>6 DEF RowsOK

LEMMA Reserved ==
  ASSUME ServiceInv, NEW r \in Request, reserveWithinInstallmentCeiling(r)
  PROVE  ServiceInv'
<1>0. RowsOK /\ RequestsOK /\ ProviderOK
  BY DEF ServiceInv
<1>1. ProviderOK' /\ UNCHANGED <<charge, event>>
  BY <1>0 DEF reserveWithinInstallmentCeiling, ProviderOK
<1>2. CASE MayReserve(r)
  <2> DEFINE s == IF Op[r] = "create" THEN "pending" ELSE "scheduled"
  <2>1. s # "absent" /\ attempt' = [attempt EXCEPT ![KeyOf[r]] = NewRow(r, s)]
    BY <1>2 DEF reserveWithinInstallmentCeiling
  <2>2. ~Exists(KeyOf[r])
    BY <1>2 DEF MayReserve
  <2> HIDE DEF s
  <2>3. RowsOK' /\ RowsStay /\ AskedFor(r, attempt'[KeyOf[r]])
    BY <1>0, <2>1, <2>2, RowAdded
  <2>4. CASE Goto(r, "raced")
    BY <1>1, <2>3, <2>4, MovesOn DEF Elsewhere, Holding
  <2>5. CASE ~Goto(r, "raced")
    <3> DEFINE pc == CASE Op[r] = "create" -> "call"
                       [] Op[r] = "charge" -> "readPending"
                       [] OTHER            -> "ok"
               base == IF Op[r] = "create" THEN "pending" ELSE "none"
    <3>1. request' = [request EXCEPT ![r].pc = pc, ![r].base = base]
      BY <1>2, <2>5 DEF reserveWithinInstallmentCeiling
    <3>2. pc \in {"call", "readPending", "ok"}
      OBVIOUS
    <3> HIDE DEF pc, base
    <3>3. Moved(r, pc) /\ request'[r].answer \in ChargeStatus
      BY <1>0, <3>1 DEF RequestsOK, Moved, IsRequest
    <3>4. Fits(r, pc, attempt'[KeyOf[r]])
      BY <2>3, <3>2 DEF Fits, Elsewhere
    <3> QED BY <1>1, <2>3, <3>3, <3>4, OneSteps
  <2> QED BY <2>4, <2>5
<1>3. CASE ~MayReserve(r)
  <2>1. Goto(r, "raced") /\ attempt' = attempt
    BY <1>3 DEF reserveWithinInstallmentCeiling
  <2> QED BY <1>1, <2>1, OnlyMoves DEF Elsewhere, Holding
<1> QED BY <1>2, <1>3

LEMMA ManuallyPosted ==
  ASSUME ServiceInv, NEW r \in Request, postManualPaymentAtomically(r)
  PROVE  ServiceInv'
<1>0. RowsOK /\ RequestsOK /\ ProviderOK
  BY DEF ServiceInv
<1>1. ProviderOK' /\ UNCHANGED <<charge, event>>
  BY <1>0 DEF postManualPaymentAtomically, ProviderOK, provider
<1>2. CASE MayReserve(r) /\ AmountOf[r] <= AgreementRemaining
  <2>1. attempt' = [attempt EXCEPT ![KeyOf[r]] = NewRow(r, "succeeded")] /\ Goto(r, "hook")
    BY <1>2 DEF postManualPaymentAtomically
  <2>2. ~Exists(KeyOf[r])
    BY <1>2 DEF MayReserve
  <2>3. RowsOK' /\ RowsStay /\ AskedFor(r, attempt'[KeyOf[r]])
    BY <1>0, <2>1, <2>2, RowAdded
  <2>4. Fits(r, "hook", attempt'[KeyOf[r]])
    BY <2>3 DEF Fits, Elsewhere
  <2>5. Moved(r, "hook") /\ request'[r].answer \in ChargeStatus
    BY <1>0, <2>1, WentTo
  <2> QED BY <1>1, <2>3, <2>4, <2>5, OneSteps
<1>3. CASE ~(MayReserve(r) /\ AmountOf[r] <= AgreementRemaining)
  <2>1. Goto(r, "raced") /\ attempt' = attempt
    BY <1>3 DEF postManualPaymentAtomically
  <2> QED BY <1>1, <2>1, OnlyMoves DEF Elsewhere, Holding
<1> QED BY <1>2, <1>3

\* Looking up, adopting the winner's row, and the steps that only read.
LEMMA LookedUp ==
  ASSUME ServiceInv, NEW r \in Request, findOpenByInstallment(r) \/ reserveAttempt(r) \/ adoptRaced(r)
  PROVE  ServiceInv'
<1>1. UNCHANGED <<attempt, charge, event>>
  BY DEF findOpenByInstallment, reserveAttempt, adoptRaced, provider
<1>2. CASE findOpenByInstallment(r)
  <2>1. PICK pc \in {"refused", "lookup"} : Goto(r, pc)
    BY <1>2 DEF findOpenByInstallment
  <2> QED BY <1>1, <2>1, OnlyMoves DEF Elsewhere, Holding
<1>3. CASE reserveAttempt(r)
  <2>1. CASE Exists(KeyOf[r])
    BY <1>1, <1>3, <2>1, Replayed DEF reserveAttempt
  <2>2. CASE ~Exists(KeyOf[r])
    <3>1. PICK pc \in {"refused", "reserve"} : Goto(r, pc)
      BY <1>3, <2>2 DEF reserveAttempt
    <3> QED BY <1>1, <3>1, OnlyMoves DEF Elsewhere, Holding
  <2> QED BY <2>1, <2>2
<1>4. CASE adoptRaced(r)
  <2>1. CASE ~Exists(KeyOf[r])
    <3>1. Goto(r, "refused")
      BY <1>4, <2>1 DEF adoptRaced
    <3> QED BY <1>1, <3>1, OnlyMoves DEF Elsewhere, Holding
  <2>2. CASE Exists(KeyOf[r]) /\ Op[r] \in Creates
    BY <1>1, <1>4, <2>2, Replayed DEF adoptRaced
  <2>3. CASE Exists(KeyOf[r]) /\ Op[r] \notin Creates
    <3>1. Goto(r, AfterReplay(r))
      BY <1>4, <2>3 DEF adoptRaced
    <3> QED BY <1>1, <2>3, <3>1, OnlyMoves
  <2> QED BY <2>1, <2>2, <2>3
<1> QED BY <1>2, <1>3, <1>4

LEMMA Confirmed ==
  ASSUME ServiceInv, NEW r \in Request, confirmManualPayment(r)
  PROVE  ServiceInv'
<1>0. RowsOK /\ RequestsOK /\ ProviderOK /\ KeyOf[r] \in Key
  BY KeysAndRequests DEF ServiceInv
<1>1. ProviderOK' /\ UNCHANGED <<charge, event>> /\ Op[r] \notin Creates
  BY <1>0 DEF confirmManualPayment, ProviderOK, provider, Creates
<1>2. CASE attempt' = attempt
  <2>1. PICK pc : Goto(r, pc)
    BY DEF confirmManualPayment
  <2> QED BY <1>1, <1>2, <2>1, OnlyMoves
<1>3. CASE attempt' # attempt
  <2>1. attempt' = [attempt EXCEPT ![KeyOf[r]].confirmed = TRUE] /\ Goto(r, "ok")
    BY <1>3 DEF confirmManualPayment
  <2> DEFINE row == attempt[KeyOf[r]]
             new == [row EXCEPT !.confirmed = TRUE]
  <2>2. /\ attempt'[KeyOf[r]] = new /\ \A k \in Key : k # KeyOf[r] => attempt'[k] = attempt[k]
        /\ attempt' = [k \in Key |-> attempt'[k]]
    BY <1>0, <2>1 DEF RowsOK
  <2>3. IsAttempt(row)
    BY <1>0 DEF RowsOK
  <2> HIDE DEF row
  <2>4. /\ IsAttempt(new) /\ new.status = row.status /\ new.installment = row.installment
        /\ new.amount = row.amount /\ new.method = row.method
    BY <2>3 DEF IsAttempt
  <2> HIDE DEF new
  <2>5. \A k \in Key : IsAttempt(attempt'[k])
    BY <1>0, <2>2, <2>4 DEF RowsOK
  <2>6. RowsStay
    <3>1. attempt[KeyOf[r]] = row
      BY DEF row
    <3> QED BY <2>2, <2>4, <3>1 DEF RowsStay, Exists
  <2>7. RowsOK'
    BY <2>2, <2>5 DEF RowsOK
  <2> QED BY <1>1, <2>1, <2>6, <2>7, MovesOn
<1> QED BY <1>2, <1>3

\* The provider's record and its reports change at one key.
LEMMA ChargeWritten ==
  ASSUME ProviderOK, NEW k \in Key, NEW s \in ChargeStatus,
         charge' = [charge EXCEPT ![k] = s], event' = event
  PROVE  ProviderOK' /\ charge'[k] = s
<1>1. /\ charge'[k] = s /\ \A j \in Key : j # k => charge'[j] = charge[j]
      /\ charge' = [j \in Key |-> charge'[j]]
  BY DEF ProviderOK
<1> QED BY <1>1 DEF ProviderOK

LEMMA EventWritten ==
  ASSUME ProviderOK, NEW k \in Key, NEW s \in SUBSET Outcomes,
         event' = [event EXCEPT ![k] = s], charge' = charge
  PROVE  ProviderOK'
<1>1. /\ event'[k] = s /\ \A j \in Key : j # k => event'[j] = event[j]
      /\ event' = [j \in Key |-> event'[j]]
  BY DEF ProviderOK
<1> QED BY <1>1 DEF ProviderOK

LEMMA Submitted ==
  ASSUME ServiceInv, NEW r \in Request,
         handlePaymentSucceeded(r) \/ submitPending(r) \/ markSubmitted(r)
  PROVE  ServiceInv'
<1>0. RowsOK /\ RequestsOK /\ ProviderOK /\ KeyOf[r] \in Key
  BY KeysAndRequests DEF ServiceInv
<1>1. ProviderOK' /\ UNCHANGED <<charge, event>>
  BY <1>0 DEF handlePaymentSucceeded, submitPending, markSubmitted, ProviderOK, provider
<1>2. CASE handlePaymentSucceeded(r)
  <2>1. Goto(r, "ok") /\ request[r].pc = "hook" /\ attempt' = attempt
    BY <1>2 DEF handlePaymentSucceeded, At
  <2> QED BY <1>1, <2>1, OnlyMoves DEF Elsewhere, Holding
<1>3. CASE submitPending(r)
  <2>1. PICK pc \in {"markSubmitted", "refused"} : Goto(r, pc) /\ attempt' = attempt
    BY <1>3 DEF submitPending
  <2>2. Op[r] = "submit" \/ request[r].pc = "readPending"
    BY <1>3 DEF submitPending, At
  <2>3. Op[r] \notin Creates \/ request[r].pc \in Holding
    BY <2>2 DEF Creates, Holding
  <2> QED BY <1>1, <2>1, <2>3, OnlyMoves DEF Elsewhere
<1>4. CASE markSubmitted(r)
  <2>1. /\ request[r].pc = "markSubmitted"
        /\ attempt' = [attempt EXCEPT ![KeyOf[r]].status = "submitted"]
        /\ request' = [request EXCEPT ![r].pc = "call", ![r].base = "submitted"]
    BY <1>4 DEF markSubmitted, At, updateStatus
  <2>2. RowsOK' /\ RowsStay
    BY <1>0, <2>1, StatusWritten
  <2>3. Moved(r, "call") /\ request'[r].answer \in ChargeStatus
    BY <1>0, <2>1 DEF RequestsOK, Moved, IsRequest
  <2>4. Fits(r, "call", attempt'[KeyOf[r]])
    BY <2>1, <2>2, StillFits DEF Elsewhere, Holding
  <2> QED BY <1>1, <2>2, <2>3, <2>4, OneSteps
<1> QED BY <1>2, <1>3, <1>4

LEMMA Called ==
  ASSUME ServiceInv, NEW r \in Request, createPayment(r)
  PROVE  ServiceInv'
<1>0. RowsOK /\ RequestsOK /\ ProviderOK /\ KeyOf[r] \in Key
  BY KeysAndRequests DEF ServiceInv
<1>1. attempt' = attempt /\ event' = event /\ request[r].pc \in Holding
  BY DEF createPayment, At, Holding
<1>2. RowsOK' /\ RowsStay
  BY <1>0, <1>1, RowsKept
<1>3. CASE charge' = charge
  <2>1. ProviderOK'
    BY <1>0, <1>1, <1>3 DEF ProviderOK
  <2>2. CASE Goto(r, "catch")
    BY <1>1, <1>2, <2>1, <2>2, MovesOn DEF Elsewhere
  <2>3. CASE ~Goto(r, "catch")
    <3>1. request' = [request EXCEPT ![r].pc = "persist", ![r].answer = charge'[KeyOf[r]]]
      BY <2>3 DEF createPayment
    <3> DEFINE a == charge'[KeyOf[r]]
    <3>2. a \in ChargeStatus
      BY <1>0, <1>3 DEF ProviderOK
    <3>3. request' = [request EXCEPT ![r].pc = "persist", ![r].answer = a]
      BY <3>1
    <3> HIDE DEF a
    <3>4. Moved(r, "persist") /\ request'[r].answer \in ChargeStatus
      BY <1>0, <3>2, <3>3 DEF RequestsOK, Moved, IsRequest
    <3>5. Fits(r, "persist", attempt'[KeyOf[r]])
      BY <1>1, <1>2, StillFits DEF Elsewhere
    <3> QED BY <1>2, <2>1, <3>4, <3>5, OneSteps
  <2> QED BY <2>2, <2>3
<1>4. CASE charge' # charge
  <2> DEFINE s == IF charge[KeyOf[r]] = "none" THEN "pending" ELSE charge[KeyOf[r]]
  <2>1. charge' = [charge EXCEPT ![KeyOf[r]] = s]
    BY <1>4 DEF createPayment
  <2>2. s \in ChargeStatus
    BY <1>0 DEF ProviderOK, ChargeStatus
  <2> HIDE DEF s
  <2>3. ProviderOK' /\ charge'[KeyOf[r]] = s
    BY <1>0, <1>1, <2>1, <2>2, ChargeWritten
  <2>4. CASE Goto(r, "catch")
    BY <1>1, <1>2, <2>3, <2>4, MovesOn DEF Elsewhere
  <2>5. CASE ~Goto(r, "catch")
    <3>1. request' = [request EXCEPT ![r].pc = "persist", ![r].answer = charge'[KeyOf[r]]]
      BY <2>5 DEF createPayment
    <3>2. request' = [request EXCEPT ![r].pc = "persist", ![r].answer = s]
      BY <2>3, <3>1
    <3>3. Moved(r, "persist") /\ request'[r].answer \in ChargeStatus
      BY <1>0, <2>2, <3>2 DEF RequestsOK, Moved, IsRequest
    <3>4. Fits(r, "persist", attempt'[KeyOf[r]])
      BY <1>1, <1>2, StillFits DEF Elsewhere
    <3> QED BY <1>2, <2>3, <3>3, <3>4, OneSteps
  <2> QED BY <2>4, <2>5
<1> QED BY <1>3, <1>4

LEMMA Persisted ==
  ASSUME ServiceInv, NEW r \in Request, persistAnswer(r)
  PROVE  ServiceInv'
<1>0. RowsOK /\ RequestsOK /\ ProviderOK /\ KeyOf[r] \in Key
  BY KeysAndRequests DEF ServiceInv
<1>1. ProviderOK' /\ UNCHANGED <<charge, event>> /\ request[r].pc \in Holding
  BY <1>0 DEF persistAnswer, ProviderOK, provider, At, Holding
<1>2. CASE Goto(r, "catch") /\ attempt' = attempt
  BY <1>1, <1>2, OnlyMoves DEF Elsewhere
<1>3. CASE ~(Goto(r, "catch") /\ attempt' = attempt)
  <2> DEFINE s == IF request[r].answer = "pending" /\ request[r].base = "submitted"
                    THEN "processing" ELSE request[r].answer
             row == attempt[KeyOf[r]]
             new == [[row EXCEPT !.id = TRUE] EXCEPT !.status = s]
  <2>1. /\ Goto(r, "audit")
        /\ attempt' = [attempt EXCEPT ![KeyOf[r]].id = TRUE, ![KeyOf[r]].status = s]
    BY <1>3 DEF persistAnswer
  <2>2. s # "absent"
    BY <1>0 DEF RequestsOK, ChargeStatus
  <2> HIDE DEF s
  <2>3. /\ attempt'[KeyOf[r]] = new /\ \A k \in Key : k # KeyOf[r] => attempt'[k] = attempt[k]
        /\ attempt' = [k \in Key |-> attempt'[k]]
    BY <1>0, <2>1 DEF RowsOK
  <2>4. IsAttempt(row)
    BY <1>0 DEF RowsOK
  <2> HIDE DEF row
  <2>5. /\ IsAttempt(new) /\ new.status = s /\ new.installment = row.installment
        /\ new.amount = row.amount /\ new.method = row.method
    BY <2>4 DEF IsAttempt
  <2> HIDE DEF new
  <2>6. \A k \in Key : IsAttempt(attempt'[k])
    BY <1>0, <2>3, <2>5 DEF RowsOK
  <2>7. RowsStay
    <3>1. attempt[KeyOf[r]] = row
      BY DEF row
    <3> QED BY <2>2, <2>3, <2>5, <3>1 DEF RowsStay, Exists
  <2>8. RowsOK'
    BY <2>3, <2>6 DEF RowsOK
  <2> QED BY <1>1, <2>1, <2>7, <2>8, MovesOn DEF Elsewhere
<1> QED BY <1>2, <1>3

LEMMA Closed ==
  ASSUME ServiceInv, NEW r \in Request, recordAudit(r) \/ markFailed(r)
  PROVE  ServiceInv'
<1>0. RowsOK /\ RequestsOK /\ ProviderOK /\ KeyOf[r] \in Key
  BY KeysAndRequests DEF ServiceInv
<1>1. ProviderOK' /\ UNCHANGED <<charge, event>> /\ request[r].pc \in Holding
  BY <1>0 DEF recordAudit, markFailed, ProviderOK, provider, At, Holding
<1>2. CASE recordAudit(r)
  <2>1. PICK pc \in {"ok", "catch"} : Goto(r, pc) /\ attempt' = attempt
    BY <1>2 DEF recordAudit
  <2> QED BY <1>1, <2>1, OnlyMoves DEF Elsewhere
<1>3. CASE markFailed(r)
  <2>1. Goto(r, "refused") /\ attempt' = [attempt EXCEPT ![KeyOf[r]].status = "failed"]
    BY <1>3 DEF markFailed, updateStatus
  <2>2. RowsOK' /\ RowsStay
    BY <1>0, <2>1, StatusWritten
  <2> QED BY <1>1, <2>1, <2>2, MovesOn DEF Elsewhere
<1> QED BY <1>2, <1>3

\* Canceling and refunding are no creating request's business.
LEMMA CanceledOrRefunded ==
  ASSUME ServiceInv, NEW r \in Request,
         \/ cancelPayment(r) \/ cancelAtProvider(r) \/ markCanceled(r)
         \/ refundPayment(r) \/ refundAtProvider(r) \/ markRefunded(r)
  PROVE  ServiceInv'
<1>0. RowsOK /\ RequestsOK /\ ProviderOK /\ KeyOf[r] \in Key
  BY KeysAndRequests DEF ServiceInv
<1>1. Op[r] \notin Creates
  <2>1. request[r].pc \in Elsewhere => Op[r] \notin Creates
    BY <1>0 DEF RequestsOK, Fits
  <2>2. request[r].pc \in Elsewhere \/ Op[r] \in {"cancel", "refund"}
    BY DEF cancelPayment, cancelAtProvider, markCanceled, refundPayment, refundAtProvider,
           markRefunded, At, Elsewhere
  <2> QED BY <2>1, <2>2 DEF Creates
<1>2. \E pc : Goto(r, pc)
  BY DEF cancelPayment, cancelAtProvider, markCanceled, refundPayment, refundAtProvider,
         markRefunded
<1>3. RowsOK' /\ RowsStay
  <2>1. CASE attempt' = attempt
    BY <1>0, <2>1, RowsKept
  <2>2. CASE markCanceled(r) \/ markRefunded(r)
    <3>1. PICK s \in {"canceled", "refunded"} : attempt' = [attempt EXCEPT ![KeyOf[r]].status = s]
      BY <2>2 DEF markCanceled, markRefunded, updateStatus
    <3> QED BY <1>0, <3>1, StatusWritten
  <2> QED BY <2>1, <2>2 DEF cancelPayment, cancelAtProvider, refundPayment, refundAtProvider
<1>4. ProviderOK'
  <2>1. CASE UNCHANGED <<charge, event>>
    BY <1>0, <2>1 DEF ProviderOK
  <2>2. CASE cancelAtProvider(r) /\ charge' # charge
    <3>1. charge' = [charge EXCEPT ![KeyOf[r]] = "failed"] /\ event' = event
      BY <2>2 DEF cancelAtProvider
    <3> QED BY <1>0, <3>1, ChargeWritten DEF ChargeStatus
  <2>3. CASE refundAtProvider(r) /\ event' # event
    <3> DEFINE s == event[KeyOf[r]] \cup {"refunded"}
    <3>1. event' = [event EXCEPT ![KeyOf[r]] = s] /\ charge' = charge
      BY <2>3 DEF refundAtProvider
    <3>2. s \in SUBSET Outcomes
      BY <1>0 DEF ProviderOK, Outcomes
    <3> HIDE DEF s
    <3> QED BY <1>0, <3>1, <3>2, EventWritten
  <2>4. CASE cancelPayment(r) \/ markCanceled(r) \/ refundPayment(r) \/ markRefunded(r)
    BY <2>1, <2>4 DEF cancelPayment, markCanceled, refundPayment, markRefunded, provider
  <2>5. CASE cancelAtProvider(r) /\ charge' = charge
    BY <2>1, <2>5 DEF cancelAtProvider
  <2>6. CASE refundAtProvider(r) /\ event' = event
    BY <2>1, <2>6 DEF refundAtProvider
  <2> QED BY <2>2, <2>3, <2>4, <2>5, <2>6
<1> QED BY <1>1, <1>2, <1>3, <1>4, MovesOn

LEMMA Crashed ==
  ASSUME ServiceInv, NEW r \in Request, Crash(r)
  PROVE  ServiceInv'
<1>1. Goto(r, "crashed") /\ UNCHANGED <<attempt, charge, event>>
  BY DEF Crash, provider
<1> QED BY <1>1, OnlyMoves DEF Elsewhere, Holding

------------------------------------------------------------------------------
\* The provider and the event pipeline.

LEMMA NobodyMoves ==
  ASSUME ServiceInv, request' = request, RowsOK', RowsStay, ProviderOK'
  PROVE  ServiceInv'
<1>1. ASSUME NEW q \in Request PROVE Fits(q, request[q].pc, attempt'[KeyOf[q]])
  <2>1. Fits(q, request[q].pc, attempt[KeyOf[q]])
    BY DEF ServiceInv, RequestsOK, Row
  <2> QED BY <2>1, KeysAndRequests DEF Fits, AskedFor, RowsStay, Exists
<1>2. RequestsOK'
  BY <1>1 DEF ServiceInv, RequestsOK, Row
<1> QED BY <1>2 DEF ServiceInv

LEMMA Reported ==
  ASSUME ServiceInv, NEW k \in Key, Settle(k) \/ applyTransition(k) \/ postLedgerEntry(k)
  PROVE  ServiceInv'
<1>0. RowsOK /\ ProviderOK /\ event[k] \subseteq Outcomes
  BY DEF ServiceInv, ProviderOK
<1>1. CASE Settle(k)
  <2>1. PICK d \in {"succeeded", "failed"} :
          /\ charge' = [charge EXCEPT ![k] = d] /\ event' = [event EXCEPT ![k] = @ \cup {d}]
          /\ attempt' = attempt /\ request' = request
    BY <1>1 DEF Settle
  <2> DEFINE s == event[k] \cup {d}
  <2>2. event' = [event EXCEPT ![k] = s] /\ s \subseteq Outcomes /\ d \in ChargeStatus
    BY <1>0, <2>1 DEF Outcomes, ChargeStatus
  <2> HIDE DEF s
  <2>3. /\ charge'[k] = d /\ \A j \in Key : j # k => charge'[j] = charge[j]
        /\ charge' = [j \in Key |-> charge'[j]]
        /\ event'[k] = s /\ \A j \in Key : j # k => event'[j] = event[j]
        /\ event' = [j \in Key |-> event'[j]]
    BY <1>0, <2>1, <2>2 DEF ProviderOK
  <2>4. ProviderOK'
    BY <1>0, <2>2, <2>3 DEF ProviderOK
  <2>5. RowsOK' /\ RowsStay
    BY <1>0, <2>1, RowsKept
  <2> QED BY <2>1, <2>4, <2>5, NobodyMoves
<1>2. CASE applyTransition(k)
  <2>1. PICK d \in event[k] : /\ event' = [event EXCEPT ![k] = @ \ {d}]
                              /\ attempt' = attempt \/ attempt' = [attempt EXCEPT ![k].status = d]
    BY <1>2 DEF applyTransition
  <2> DEFINE s == event[k] \ {d}
  <2>2. event' = [event EXCEPT ![k] = s] /\ s \in SUBSET Outcomes /\ charge' = charge
    BY <1>0, <1>2, <2>1 DEF applyTransition
  <2> HIDE DEF s
  <2>3. ProviderOK'
    BY <1>0, <2>2, EventWritten
  <2>4. d # "absent"
    BY <1>0, <2>1 DEF Outcomes
  <2>5. RowsOK' /\ RowsStay
    BY <1>0, <2>1, <2>4, RowsKept, StatusWritten
  <2>6. request' = request
    BY <1>2 DEF applyTransition
  <2> QED BY <2>3, <2>5, <2>6, NobodyMoves
<1>3. CASE postLedgerEntry(k)
  <2>1. UNCHANGED <<attempt, charge, event, request>>
    BY <1>3 DEF postLedgerEntry
  <2>2. RowsOK' /\ RowsStay /\ ProviderOK'
    BY <1>0, <2>1, RowsKept DEF ProviderOK
  <2> QED BY <2>1, <2>2, NobodyMoves
<1> QED BY <1>1, <1>2, <1>3

------------------------------------------------------------------------------
LEMMA ServiceInitial ==
  ASSUME Init
  PROVE  ServiceInv
<1>1. \A k \in Key : IsAttempt(attempt[k])
  BY DEF Init, NoRow, IsAttempt
<1>2. RowsOK
  BY <1>1 DEF Init, RowsOK
<1>3. RequestsOK
  BY DEF Init, RequestsOK, IsRequest, ChargeStatus, Fits, Holding, Elsewhere
<1>4. ProviderOK
  BY DEF Init, ProviderOK, ChargeStatus
<1> QED BY <1>2, <1>3, <1>4 DEF ServiceInv

LEMMA ServiceStep ==
  ASSUME ServiceInv, [Next]_vars
  PROVE  ServiceInv'
<1>1. ASSUME NEW r \in Request, RequestStep(r) \/ Crash(r) PROVE ServiceInv'
  BY <1>1, LookedUp, Reserved, ManuallyPosted, Submitted, Confirmed, Called, Persisted, Closed,
     CanceledOrRefunded, Crashed DEF RequestStep
<1>2. CASE UNCHANGED vars
  <2>1. UNCHANGED <<attempt, charge, event, request>>
    BY <1>2 DEF vars
  <2>2. RowsOK' /\ RowsStay /\ ProviderOK'
    BY <2>1, RowsKept DEF ServiceInv, ProviderOK
  <2> QED BY <2>1, <2>2, NobodyMoves
<1> QED BY <1>1, <1>2, Reported DEF Next

\* However many requests use one idempotency key, for whatever amounts,
\* installments and rails, and whatever fails or crashes in between, a request
\* that PaymentService answers with a payment is answered with the one it asked
\* for: assertExistingPaymentMatchesRequest holds from the lookup to the answer.
THEOREM KeysAnswerForTheirRequest == Spec => []ReplayIsSame
<1>1. ASSUME ServiceInv PROVE ReplayIsSame
  <2> SUFFICES ASSUME NEW r \in Request, request[r].pc = "ok", Op[r] \in Creates
               PROVE  /\ Row(r).installment = InstallmentOf[r] /\ Row(r).amount = AmountOf[r]
                      /\ Row(r).method = "manual" <=> Op[r] = "manual"
    BY DEF ReplayIsSame, At
  <2>1. AskedFor(r, Row(r))
    BY <1>1 DEF ServiceInv, RequestsOK, Fits, Holding
  <2>2. MethodOf(r) = "manual" <=> Op[r] = "manual"
    BY DEF MethodOf
  <2> QED BY <2>1, <2>2 DEF AskedFor
<1> QED BY <1>1, ServiceInitial, ServiceStep, PTL DEF Spec
==============================================================================
