---------------------------- MODULE PaymentService ----------------------------
(***************************************************************************)
(* lib/payments/paymentService.ts and what it calls: how a payment attempt *)
(* is reserved against an installment, handed to the provider, canceled,   *)
(* refunded, or recorded as paid outside the platform.                     *)
(*                                                                         *)
(* A request is one HTTP request.  It runs its operation as a sequence of  *)
(* statements, transactions and provider calls, between which every other  *)
(* request, the provider and the event pipeline may act.  Rows are named   *)
(* by their idempotency key, which is unique.  "charge" is the ACH or      *)
(* debit-card createManualPayment (schedule, then submit), "schedule" its  *)
(* scheduleInstallmentPayment, "submit" submitScheduledPayment.  The event *)
(* pipeline, modelled in detail by PaymentWebhook, appears as its guarded  *)
(* transition and its ledger posting.                                      *)
(***************************************************************************)
EXTENDS PaymentStatus, Ledger

CONSTANTS
  Request, Key, Installment,
  Op,             \* [Request -> Operation]
  KeyOf,          \* [Request -> Key], the row it creates or works on
  InstallmentOf,  \* [Request -> Installment], asked for by a creating request
  AmountOf,       \* [Request -> Nat], likewise
  Due,            \* [Installment -> Nat], the amount of the schedule item
  DailyLimit,     \* what one payer may move in a rolling day
  MaxFaults       \* crashes, lost answers and failed writes

Creates   == {"create", "charge", "schedule", "manual"}
Operation == Creates \cup {"submit", "cancel", "refund", "confirm"}

ASSUME ServiceAssumption ==
  /\ Op \in [Request -> Operation]
  /\ KeyOf \in [Request -> Key]
  /\ InstallmentOf \in [Request -> Installment]
  /\ AmountOf \in [Request -> Nat \ {0}]
  /\ Due \in [Installment -> Nat]
  /\ DailyLimit \in Nat
  /\ MaxFaults \in Nat

VARIABLES
  attempt,      \* payment_attempt, by idempotency key
  ledger,       \* ledger_journal_entry
  paid,         \* the installments whose status is paid
  request,      \* where each request is, and what it has read
  charge,       \* the provider's own record of each key
  event,        \* what the provider has yet to report, by key
  applied,      \* events whose transition has committed, effects pending
  faults

vars == <<attempt, ledger, paid, request, charge, event, applied, faults>>
provider == <<charge, event>>
books    == <<ledger, paid, applied>>

Outcomes     == {"succeeded", "failed", "refunded"}
ChargeStatus == {"none", "pending", "succeeded", "failed"}
Method       == {"generic", "ach", "manual"}
PC == {"idle", "lookup", "reserve", "raced", "hook", "readPending",
       "markSubmitted", "call", "persist", "audit", "catch", "cancelCall",
       "cancelWrite", "refundCall", "refundWrite", "ok", "refused", "crashed"}
Ended == {"ok", "refused", "crashed"}

AttemptRow ==
  [status : PaymentAttemptStatus \cup {"absent"}, installment : Installment,
   amount : Nat, method : Method, id : BOOLEAN, confirmed : BOOLEAN]

\* `base` is the status of the record handed to submitToProvider, `answer`
\* the provider's answer.
RequestState == [pc : PC, base : {"none", "pending", "submitted"},
                 answer : ChargeStatus]

TypeOK ==
  /\ attempt \in [Key -> AttemptRow]
  /\ ledger \subseteq Entry(Key)
  /\ paid \subseteq Installment
  /\ request \in [Request -> RequestState]
  /\ charge \in [Key -> ChargeStatus]
  /\ event \in [Key -> SUBSET Outcomes]
  /\ applied \in [Key -> SUBSET Outcomes]
  /\ faults \in 0..MaxFaults

NoRow == [status |-> "absent", installment |-> CHOOSE i \in Installment : TRUE,
          amount |-> 0, method |-> "generic", id |-> FALSE, confirmed |-> FALSE]

Init ==
  /\ attempt = [k \in Key |-> NoRow]
  /\ ledger = {}
  /\ paid = {}
  /\ request = [r \in Request |->
                  [pc |-> "idle", base |-> "none", answer |-> "none"]]
  /\ charge = [k \in Key |-> "none"]
  /\ event = [k \in Key |-> {}]
  /\ applied = [k \in Key |-> {}]
  /\ faults = 0

------------------------------------------------------------------------------
\* What the requests read.

Row(r)        == attempt[KeyOf[r]]
Exists(k)     == attempt[k].status # "absent"
Attempts(i)   == {k \in Key : Exists(k) /\ attempt[k].installment = i}
Remaining(i)  == Due[i] - AmountPaid(ledger, Attempts(i))

\* BalanceService: the agreement's principal is what its schedule adds up to.
AgreementRemaining ==
  SumFunctionOnSet(Due, Installment) - AmountPaid(ledger, Key)

\* summarizeRecentActivity: failed and canceled attempts do not count.
RecentActivity ==
  SumFunctionOnSet([k \in Key |-> attempt[k].amount],
                   {k \in Key : attempt[k].status \notin {"absent", "failed", "canceled"}})

\* May still succeed, or succeeded and is not in the ledger yet.
FinanciallyUnresolved(k) ==
  \/ attempt[k].status \in Unresolved
  \/ attempt[k].status = "succeeded" /\ ~Posted(ledger, k, "payment_cleared")

\* Mutant: a success counts as resolved before its ledger entry is there.
OpenStatusOnly(r) ==
  \E k \in Attempts(InstallmentOf[r]) \ {KeyOf[r]} : attempt[k].status \in Unresolved

\* assertNoCompetingUnresolvedInstallmentAttemptWithinTx.
HasCompetingAttempt(r) ==
  \E k \in Attempts(InstallmentOf[r]) \ {KeyOf[r]} : FinanciallyUnresolved(k)

MethodOf(r) == CASE Op[r] = "create" -> "generic"
                 [] Op[r] = "manual" -> "manual"
                 [] OTHER            -> "ach"

\* assertExistingPaymentMatchesRequest and its manual counterpart.
MatchesRequest(r) ==
  /\ Row(r).installment = InstallmentOf[r]
  /\ Row(r).amount = AmountOf[r]
  /\ Row(r).method = MethodOf(r)

------------------------------------------------------------------------------
\* Creating an attempt.

At(r, where)   == request[r].pc = where
Goto(r, where) == request' = [request EXCEPT ![r].pc = where]
Fault          == faults < MaxFaults /\ faults' = faults + 1

\* Mutant: a row under the same key is taken for the same request.
AdoptAnyRow(r) ==
  IF Op[r] = "charge" /\ Row(r).status = "scheduled" THEN "readPending" ELSE "ok"

\* Where a replayed request goes with the row it found: a charge whose row is
\* still scheduled goes on to submit it.
AfterReplay(r) ==
  IF ~MatchesRequest(r) THEN "refused"
  ELSE IF Op[r] = "charge" /\ Row(r).status = "scheduled" THEN "readPending" ELSE "ok"

\* scheduleInstallmentPayment: no open attempt, checked outside any lock.
findOpenByInstallment(r) ==
  /\ At(r, "idle") /\ Op[r] = "schedule"
  /\ Goto(r, IF \E k \in Attempts(InstallmentOf[r]) : attempt[k].status \in Unresolved
               THEN "refused" ELSE "lookup")
  /\ UNCHANGED <<attempt, charge, event, ledger, paid, applied, faults>>

\* Not a manual payment: the limits of one payer's day.
WithinDailyLimit(r) ==
  Op[r] # "manual" => RecentActivity + AmountOf[r] <= DailyLimit

\* The first half of reserveAttempt and recordManualOffPlatformPayment: the
\* lookup by key, then the checks that hold no lock.  The kill switch, the
\* parties, verification, the mandate or card may refuse any new request.
reserveAttempt(r) ==
  /\ At(r, IF Op[r] = "schedule" THEN "lookup" ELSE "idle") /\ Op[r] \in Creates
  /\ IF Exists(KeyOf[r])
       THEN Goto(r, AfterReplay(r))
       ELSE \/ Goto(r, "refused")
            \/ /\ AmountOf[r] <= AgreementRemaining
               /\ WithinDailyLimit(r)
               /\ Goto(r, "reserve")
  /\ UNCHANGED <<attempt, charge, event, ledger, paid, applied, faults>>

\* Mutant: the ceiling of the installment is left to the checks before.
KeyIsFree(r) == ~Exists(KeyOf[r]) /\ ~HasCompetingAttempt(r)

\* What both transactions verify under the agreement's and the installment's
\* row locks.
MayReserve(r) ==
  /\ ~HasCompetingAttempt(r)
  /\ AmountOf[r] <= Remaining(InstallmentOf[r])
  /\ ~Exists(KeyOf[r])

NewRow(r, status) ==
  [NoRow EXCEPT !.status = status, !.installment = InstallmentOf[r],
                !.amount = AmountOf[r], !.method = MethodOf(r)]

\* DrizzleInstallmentAwarePaymentReserver: one transaction.  After it, the
\* audit row of a large payment may fail, which lands in the same catch block.
reserveWithinInstallmentCeiling(r) ==
  /\ At(r, "reserve") /\ Op[r] # "manual"
  /\ IF MayReserve(r)
       THEN /\ attempt' = [attempt EXCEPT ![KeyOf[r]] =
                 NewRow(r, IF Op[r] = "create" THEN "pending" ELSE "scheduled")]
            /\ \/ /\ request' = [request EXCEPT
                       ![r].pc = CASE Op[r] = "create" -> "call"
                                   [] Op[r] = "charge" -> "readPending"
                                   [] OTHER            -> "ok",
                       ![r].base = IF Op[r] = "create" THEN "pending" ELSE "none"]
                  /\ UNCHANGED faults
               \/ Fault /\ Goto(r, "raced")
       ELSE Goto(r, "raced") /\ UNCHANGED <<attempt, faults>>
  /\ UNCHANGED <<charge, event, books>>

\* DrizzleAtomicManualPaymentPoster: row and ledger entry in one transaction.
postManualPaymentAtomically(r) ==
  /\ At(r, "reserve") /\ Op[r] = "manual"
  /\ IF MayReserve(r) /\ AmountOf[r] <= AgreementRemaining
       THEN /\ attempt' = [attempt EXCEPT ![KeyOf[r]] = NewRow(r, "succeeded")]
            /\ ledger' = ledger \cup {ClearedPlan(KeyOf[r], AmountOf[r], 0, 0)}
            /\ Goto(r, "hook")
       ELSE Goto(r, "raced") /\ UNCHANGED <<attempt, ledger>>
  /\ UNCHANGED <<paid, applied, provider, faults>>

\* The catch block around both: the winner's row, if it is this request's.
adoptRaced(r) ==
  /\ At(r, "raced")
  /\ Goto(r, IF Exists(KeyOf[r]) THEN AfterReplay(r) ELSE "refused")
  /\ UNCHANGED <<attempt, books, provider, faults>>

PaidIfCovered(i) == IF Remaining(i) <= 0 THEN paid \cup {i} ELSE paid

\* installmentHook, completion and audit after a manual payment.
handlePaymentSucceeded(r) ==
  /\ At(r, "hook")
  /\ paid' = PaidIfCovered(InstallmentOf[r])
  /\ Goto(r, "ok")
  /\ UNCHANGED <<attempt, ledger, applied, provider, faults>>

\* confirmManualPayment: idempotent, and evidence only.
confirmManualPayment(r) ==
  /\ At(r, "idle") /\ Op[r] = "confirm"
  /\ IF Exists(KeyOf[r]) /\ Row(r).method = "manual"
       THEN /\ attempt' = [attempt EXCEPT ![KeyOf[r]].confirmed = TRUE]
            /\ Goto(r, "ok")
       ELSE Goto(r, "refused") /\ UNCHANGED attempt
  /\ UNCHANGED <<books, provider, faults>>

------------------------------------------------------------------------------
\* Handing an attempt to the provider.

\* updateStatus: by id, whatever the row holds by now.
updateStatus(r, status) ==
  attempt' = [attempt EXCEPT ![KeyOf[r]].status = status]

submitPending(r) ==
  /\ At(r, IF Op[r] = "submit" THEN "idle" ELSE "readPending")
  /\ Op[r] \in {"submit", "charge"}
  /\ Goto(r, IF Row(r).status = "scheduled" THEN "markSubmitted" ELSE "refused")
  /\ UNCHANGED <<attempt, books, provider, faults>>

markSubmitted(r) ==
  /\ At(r, "markSubmitted")
  /\ updateStatus(r, "submitted")
  /\ request' = [request EXCEPT ![r].pc = "call", ![r].base = "submitted"]
  /\ UNCHANGED <<books, provider, faults>>

\* SandboxPaymentProvider.createPayment: one payment for a key, however often
\* it is asked for.  A refusal and a lost answer are the same exception.
createPayment(r) ==
  /\ At(r, "call")
  /\ \/ /\ charge[KeyOf[r]] = "none"
        /\ Goto(r, "catch")
        /\ UNCHANGED <<charge, faults>>
     \/ /\ charge' = [charge EXCEPT ![KeyOf[r]] = IF @ = "none" THEN "pending" ELSE @]
        /\ \/ /\ request' = [request EXCEPT ![r].pc = "persist",
                                            ![r].answer = charge'[KeyOf[r]]]
              /\ UNCHANGED faults
           \/ Fault /\ Goto(r, "catch")
  /\ UNCHANGED <<attempt, books, event>>

\* Mutant: the provider's id is not stored.
PersistStatusOnly(r) ==
  /\ At(r, "persist")
  /\ updateStatus(r, request[r].answer)
  /\ Goto(r, "audit")
  /\ UNCHANGED <<books, provider, faults>>

\* The status and the provider's id, or a failed write.
persistAnswer(r) ==
  /\ At(r, "persist")
  /\ \/ /\ attempt' = [attempt EXCEPT
             ![KeyOf[r]].id = TRUE,
             ![KeyOf[r]].status =
                IF request[r].answer = "pending" /\ request[r].base = "submitted"
                  THEN "processing" ELSE request[r].answer]
        /\ Goto(r, "audit")
        /\ UNCHANGED faults
     \/ Fault /\ Goto(r, "catch") /\ UNCHANGED attempt
  /\ UNCHANGED <<books, provider>>

recordAudit(r) ==
  /\ At(r, "audit")
  /\ \/ Goto(r, "ok") /\ UNCHANGED faults
     \/ Fault /\ Goto(r, "catch")
  /\ UNCHANGED <<attempt, books, provider>>

markFailed(r) ==
  /\ At(r, "catch")
  /\ updateStatus(r, "failed")
  /\ Goto(r, "refused")
  /\ UNCHANGED <<books, provider, faults>>

------------------------------------------------------------------------------
\* Canceling and refunding.

cancelPayment(r) ==
  /\ At(r, "idle") /\ Op[r] = "cancel"
  /\ Goto(r, CASE Row(r).status = "scheduled"             -> "cancelWrite"
               [] Row(r).status = "pending" /\ Row(r).id  -> "cancelCall"
               [] OTHER                                   -> "refused")
  /\ UNCHANGED <<attempt, books, provider, faults>>

\* The provider cancels only what is pending with it.
cancelAtProvider(r) ==
  /\ At(r, "cancelCall")
  /\ IF charge[KeyOf[r]] = "pending"
       THEN charge' = [charge EXCEPT ![KeyOf[r]] = "failed"] /\ Goto(r, "cancelWrite")
       ELSE Goto(r, "refused") /\ UNCHANGED charge
  /\ UNCHANGED <<attempt, books, event, faults>>

markCanceled(r) ==
  /\ At(r, "cancelWrite")
  /\ updateStatus(r, "canceled")
  /\ Goto(r, "ok")
  /\ UNCHANGED <<books, provider, faults>>

refundPayment(r) ==
  /\ At(r, "idle") /\ Op[r] = "refund"
  /\ Goto(r, IF Row(r).status = "succeeded" /\ Row(r).id THEN "refundCall" ELSE "refused")
  /\ UNCHANGED <<attempt, books, provider, faults>>

\* The provider refunds and will report it.
refundAtProvider(r) ==
  /\ At(r, "refundCall")
  /\ IF charge[KeyOf[r]] = "succeeded"
       THEN /\ event' = [event EXCEPT ![KeyOf[r]] = @ \cup {"refunded"}]
            /\ Goto(r, "refundWrite")
       ELSE Goto(r, "refused") /\ UNCHANGED event
  /\ UNCHANGED <<attempt, books, charge, faults>>

markRefunded(r) ==
  /\ At(r, "refundWrite")
  /\ updateStatus(r, "refunded")
  /\ Goto(r, "ok")
  /\ UNCHANGED <<books, provider, faults>>

\* The process dies with the request.
Crash(r) ==
  /\ request[r].pc \notin Ended \cup {"idle"}
  /\ Fault
  /\ Goto(r, "crashed")
  /\ UNCHANGED <<attempt, books, provider>>

------------------------------------------------------------------------------
\* The provider and the event pipeline.

Settle(k) ==
  /\ charge[k] = "pending"
  /\ \E d \in {"succeeded", "failed"} :
       /\ charge' = [charge EXCEPT ![k] = d]
       /\ event' = [event EXCEPT ![k] = @ \cup {d}]
  /\ UNCHANGED <<attempt, books, request, faults>>

\* An event finds its payment by the provider's id, and is discarded only
\* when its transition can never become legal.
applyTransition(k) ==
  /\ attempt[k].id
  /\ \E d \in event[k] :
       \/ /\ attempt[k].status \in AllowedSources(d)
          /\ attempt' = [attempt EXCEPT ![k].status = d]
          /\ applied' = [applied EXCEPT ![k] = @ \cup {d}]
          /\ event' = [event EXCEPT ![k] = @ \ {d}]
       \/ /\ isTransitionPermanentlyIllegal(attempt[k].status, d)
          /\ event' = [event EXCEPT ![k] = @ \ {d}]
          /\ UNCHANGED <<attempt, applied>>
  /\ UNCHANGED <<ledger, paid, charge, request, faults>>

\* coordinateSuccess: paid once the ledger covers the installment.
MarkPaidIfCovered(k) ==
  LET i == attempt[k].installment
  IN paid' = IF Due[i] <= AmountPaid(ledger', Attempts(i)) THEN paid \cup {i} ELSE paid

postLedgerEntry(k) ==
  /\ \E d \in applied[k] :
       /\ \/ /\ d = "succeeded"
             /\ ledger' = InsertIdempotently(ledger, ClearedPlan(k, attempt[k].amount, 0, 0))
             /\ MarkPaidIfCovered(k)
          \/ /\ d = "refunded" /\ Posted(ledger, k, "payment_cleared")
             /\ ledger' = InsertIdempotently(ledger, ReversalPlan(ledger, k, "refund"))
             /\ paid' = {i \in paid : Due[i] <= AmountPaid(ledger', Attempts(i))}
          \/ d = "failed" /\ UNCHANGED <<ledger, paid>>
       /\ applied' = [applied EXCEPT ![k] = @ \ {d}]
  /\ UNCHANGED <<attempt, charge, event, request, faults>>

------------------------------------------------------------------------------
RequestStep(r) ==
  \/ findOpenByInstallment(r) \/ reserveAttempt(r)
  \/ reserveWithinInstallmentCeiling(r) \/ postManualPaymentAtomically(r)
  \/ adoptRaced(r) \/ handlePaymentSucceeded(r) \/ confirmManualPayment(r)
  \/ submitPending(r) \/ markSubmitted(r) \/ createPayment(r)
  \/ persistAnswer(r) \/ recordAudit(r) \/ markFailed(r)
  \/ cancelPayment(r) \/ cancelAtProvider(r) \/ markCanceled(r)
  \/ refundPayment(r) \/ refundAtProvider(r) \/ markRefunded(r)

Next ==
  \/ \E r \in Request : RequestStep(r) \/ Crash(r)
  \/ \E k \in Key : Settle(k) \/ applyTransition(k) \/ postLedgerEntry(k)

Spec == Init /\ [][Next]_vars

\* A request that has started runs on, the provider settles, the pipeline
\* retries an event until it is applied or dead.
Fairness ==
  /\ \A r \in Request : WF_vars(request[r].pc # "idle" /\ RequestStep(r))
  /\ \A k \in Key : WF_vars(Settle(k)) /\ WF_vars(applyTransition(k))
                    /\ WF_vars(postLedgerEntry(k))

FairSpec == Spec /\ Fairness
------------------------------------------------------------------------------
\* Properties.

\* At most one attempt of an installment may still move money: the check
\* under the row lock, the two rails and the gap between a success and its
\* ledger entry taken together.
OneUnresolvedAttempt ==
  \A i \in Installment :
    Cardinality({k \in Attempts(i) : FinanciallyUnresolved(k)}) <= 1

\* Has taken the debtor's money, or may yet take it.
Draws(k) ==
  /\ charge[k] \in {"pending", "succeeded"} \/ attempt[k].method = "manual"
  /\ Exists(k) /\ ~IsReversed(ledger, k)

\* As long as no fault happens, what an installment's attempts draw from the
\* debtor, at the provider and off the platform, does not exceed what is due.
NotOvercharged ==
  faults = 0 => \A i \in Installment :
    SumFunctionOnSet([k \in Key |-> attempt[k].amount], {k \in Attempts(i) : Draws(k)}) <= Due[i]

\* Not even the faults let the ledger credit an installment with more than is
\* due, whichever rail the payments come by.
NotOverpaid ==
  \A i \in Installment : AmountPaid(ledger, Attempts(i)) <= Due[i]

\* A creating request that is told "ok" is told about the payment it asked
\* for, however many requests used its key.
ReplayIsSame ==
  \A r \in Request : At(r, "ok") /\ Op[r] \in Creates =>
    /\ Row(r).installment = InstallmentOf[r] /\ Row(r).amount = AmountOf[r]
    /\ Row(r).method = "manual" <=> Op[r] = "manual"

\* Unless a fault got between, money the provider took reaches the ledger, and
\* no attempt holds its installment forever once a request has set out to
\* submit it.
EveryChargeResolves ==
  \A k \in Key :
    /\ charge[k] = "succeeded" ~> Posted(ledger, k, "payment_cleared") \/ faults > 0
    /\ attempt[k].status \in {"pending", "submitted", "processing"}
         ~> ~FinanciallyUnresolved(k) \/ faults > 0

==============================================================================
