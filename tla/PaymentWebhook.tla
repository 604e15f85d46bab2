---------------------------- MODULE PaymentWebhook ----------------------------
(***************************************************************************)
(* The inbound payment-event pipeline: PaymentWebhookService with the      *)
(* repositories and services it drives.                                    *)
(*                                                                         *)
(* Events reach the service in any order and any number of times.  Each    *)
(* has a durable row (payment_webhook_event) that one worker at a time     *)
(* claims under a lease; an expired lease or an elapsed backoff lets       *)
(* another worker claim it again, and a finalization by a worker whose     *)
(* claim token is no longer the row's has no effect.  Processing is a      *)
(* sequence of separate database transactions, so a worker may stop        *)
(* between any two of them, and two workers may interleave.                *)
(*                                                                         *)
(* A worker here is the processing of ONE claimed event.  A recovery batch *)
(* is several workers that claim at the same time.  A claim token is a     *)
(* fresh UUID that is only ever compared for equality, so the model keeps  *)
(* the result of that comparison: worker[w].owner.                         *)
(*                                                                         *)
(* The payments are provider-routed, belong to one agreement and its       *)
(* installments, and stem from no partial-payment proposal.                *)
(***************************************************************************)
EXTENDS PaymentStatus, Ledger

CONSTANTS
  Payment, Installment, Event, Worker,
  TypeOf,         \* [Event -> EventType]
  PaymentOf,      \* [Event -> Payment], the payload's providerPaymentId
  SourceOf,       \* [Event -> Source]
  AmountIn,       \* [Event -> Nat], the payload's amountMinorUnits
  FeeIn,          \* [Event -> Nat], the payload's processorFeeMinorUnits
  Foreign,        \* events whose provider is not the payment's
  InstallmentOf,  \* [Payment -> Installment]
  AmountOf,       \* [Payment -> Nat], payment_attempt.amount_minor_units
  DueOn,          \* [Installment -> Nat], the installment's amount
  MaxFaults       \* bound on crashes, thrown errors and overrun leases

EventTypeToStatus ==
  [t \in {"payment.succeeded", "payment.failed", "payment.refunded",
          "payment.disputed", "payment.returned", "payment.reversed"} |->
     CASE t = "payment.succeeded" -> "succeeded"
       [] t = "payment.failed"    -> "failed"
       [] t = "payment.refunded"  -> "refunded"
       [] t = "payment.disputed"  -> "disputed"
       [] t = "payment.returned"  -> "returned"
       [] t = "payment.reversed"  -> "reversed"]

ReversalEntryOf(t) ==
  CASE t = "payment.refunded" -> "refund"
    [] t = "payment.disputed" -> "dispute_adjustment"
    [] OTHER                  -> "reversal"

EventType == DOMAIN EventTypeToStatus \cup {"payout.paid", "unrecognized"}
Source    == {"webhook", "provider_lookup"}

\* The status an event asks for, and the events that reverse a success.
Dest(e)       == EventTypeToStatus[TypeOf[e]]
Supersedes(e) ==
  TypeOf[e] \in DOMAIN EventTypeToStatus /\ Dest(e) \in Superseding

\* DefaultPlatformFeePolicy: an explicit zero.
PlatformFee == 0

ASSUME ConstantsAssumption ==
  /\ IsFiniteSet(Payment) /\ IsFiniteSet(Installment)
  /\ "none" \notin Event
  /\ TypeOf \in [Event -> EventType]
  /\ PaymentOf \in [Event -> Payment]
  /\ SourceOf \in [Event -> Source]
  /\ AmountIn \in [Event -> Nat]
  /\ FeeIn \in [Event -> Nat]
  /\ Foreign \subseteq Event
  /\ InstallmentOf \in [Payment -> Installment]
  /\ AmountOf \in [Payment -> Nat \ {0}]
  /\ DueOn \in [Installment -> Nat \ {0}]
  /\ MaxFaults \in Nat

VARIABLES
  event,        \* payment_webhook_event rows
  worker,       \* the workers, each with its own stale copies
  payment,      \* payment_attempt rows
  ledger,       \* ledger_journal_entry rows
  installment,  \* installment_schedule_item.status
  retry,        \* payment_retry.status of the retry of each failed payment
  agreement,    \* agreement.status
  audit,        \* <<event, action>> of the audit rows with a provider_event_id
  exceptions,   \* open reconciliation exceptions <<type, event>>
  overdue,      \* installments whose due date has passed
  arrivals,     \* number of event rows inserted so far
  faults        \* crashes, errors and overrun leases so far

schedule == <<installment, retry, agreement>>
clock    == <<overdue, arrivals, faults>>
vars     ==
  <<event, worker, payment, ledger, schedule, audit, exceptions, clock>>

------------------------------------------------------------------------------
\* Rows and local state.

\* processing_status, whether the lease is live, next_retry_at, the
\* transition_from_status (the marker; "none" is transition_applied_at NULL,
\* and transition_to_status is Dest(e)), and received_at as a rank.
\* "received" is a status no code writes, "absent" is no row yet.
EventRow ==
  [status : {"absent", "processing", "processed", "failed"},
   lease : BOOLEAN, retryAt : {"null", "later", "due"},
   from : PaymentAttemptStatus \cup {"none"}, rank : Nat]

NoRow == [status |-> "absent", lease |-> FALSE, retryAt |-> "null",
          from |-> "none", rank |-> 0]

\* id: provider_payment_id is persisted.
PaymentRow == [status : PaymentAttemptStatus, id : BOOLEAN,
               payoutCompleted : BOOLEAN, lifecycleChecked : BOOLEAN]

PC == {"idle", "lookup", "transition", "reread", "audit", "conflict",
       "ledger", "payout", "insert", "stampPayout", "auditPayout",
       "disposition", "workflow", "completion", "lifecycle", "processed",
       "retryable", "permanent"}

\* from is the claimed row's marker, current the payment status last read,
\* plan the ledger entry, if any, that the reads decided on.
WorkerState ==
  [pc : PC, event : Event \cup {"none"}, owner : BOOLEAN,
   from : PaymentAttemptStatus \cup {"none"},
   current : PaymentAttemptStatus \cup {"none"},
   plan : SUBSET Entry(Payment)]

Idle == [pc |-> "idle", event |-> "none", owner |-> FALSE, from |-> "none",
         current |-> "none", plan |-> {}]

AuditAction == {"transition", "payout", "installment_reopened",
                "installment_reopen_not_required", "agreement_reopened"}

ExceptionType == {"provider_identity_mismatch", "amount_mismatch",
                  "status_mismatch", "processor_fee_mismatch"}

TypeOK ==
  /\ event \in [Event -> EventRow]
  /\ worker \in [Worker -> WorkerState]
  /\ payment \in [Payment -> PaymentRow]
  /\ ledger \subseteq Entry(Payment)
  /\ installment \in
       [Installment -> {"scheduled", "past_due", "paid", "waived"}]
  /\ retry \in [Payment -> {"none", "scheduled", "canceled"}]
  /\ agreement \in
       {"first_payment_pending", "active", "past_due", "paid_in_full"}
  /\ audit \subseteq Event \X AuditAction
  /\ exceptions \subseteq ExceptionType \X Event
  /\ overdue \subseteq Installment
  /\ arrivals \in Nat
  /\ faults \in 0..MaxFaults

\* The payments are with the provider, their webhooks still to come.
Init ==
  /\ event = [e \in Event |-> NoRow]
  /\ worker = [w \in Worker |-> Idle]
  /\ payment = [p \in Payment |->
       [status |-> "submitted", id |-> FALSE, payoutCompleted |-> FALSE,
        lifecycleChecked |-> FALSE]]
  /\ ledger = {}
  /\ installment = [i \in Installment |-> "scheduled"]
  /\ retry = [p \in Payment |-> "none"]
  /\ agreement = "first_payment_pending"
  /\ audit = {}
  /\ exceptions = {}
  /\ overdue = {}
  /\ arrivals = 0
  /\ faults = 0

------------------------------------------------------------------------------
\* The books, as the transactions below read them.

PaymentsOf(i) == {p \in Payment : InstallmentOf[p] = i}

\* computeInstallmentSettlementWithinTx: from ledger evidence only.
IsSatisfied(i) == AmountPaid(ledger, PaymentsOf(i)) >= DueOn[i]

\* The principal of the signed terms, which the schedule divides up.
Principal == SumFunctionOnSet(DueOn, Installment)

\* computeAgreementCompletionEvidenceWithinTx: settled in the aggregate and
\* installment by installment.
IsSettled ==
  /\ AmountPaid(ledger, Payment) >= Principal
  /\ \A i \in Installment : installment[i] # "waived" => IsSatisfied(i)

\* Mutant: the display label is stored for the status.
UnpaidLabel(i) == IF i \in overdue THEN "overdue" ELSE "scheduled"

\* scheduled or past_due, by isPastDate(dueDate).
UnpaidStatus(i) == IF i \in overdue THEN "past_due" ELSE "scheduled"

\* The e of type t for payment p that carry p's own provider and satisfy ok.
Matching(p, t, ok(_)) ==
  {e \in Event : TypeOf[e] = t /\ PaymentOf[e] = p /\ e \notin Foreign /\ ok(e)}

\* findTrustedFinancialEventsForPayment: ORDER BY received_at LIMIT 2.
TrustedEvents(p, t) ==
  LET all == Matching(p, t, LAMBDA e : event[e].status = "processed")
  IN {e \in all : Cardinality({f \in all : event[f].rank < event[e].rank}) < 2}

\* findCanonicalTransitionEvidence: null unless there is exactly one.
CanonicalSuccess(p) ==
  LET all == Matching(p, "payment.succeeded", LAMBDA e : event[e].from # "none")
  IN IF Cardinality(all) = 1 THEN all ELSE {}

------------------------------------------------------------------------------
\* Claiming.

\* A fresh claim token for w: no other worker's token is the row's any more.
TakeOwnership(w, e) ==
  worker' = [v \in Worker |->
    IF v = w
      THEN [Idle EXCEPT !.pc = "lookup", !.event = e, !.owner = TRUE,
                        !.from = event[e].from]
      ELSE IF worker[v].event = e THEN [worker[v] EXCEPT !.owner = FALSE]
                                  ELSE worker[v]]

\* The first delivery of an event, signature verified (receiveWebhook) or
\* looked up (receiveInternalEvent): the insert is the claim.
tryInsertAndClaim(w, e) ==
  /\ worker[w].pc = "idle"
  /\ event[e].status = "absent"
  /\ event' = [event EXCEPT ![e].status = "processing", ![e].lease = TRUE,
                            ![e].rank = arrivals + 1]
  /\ arrivals' = arrivals + 1
  /\ TakeOwnership(w, e)
  /\ UNCHANGED <<payment, ledger, schedule, audit, exceptions, overdue, faults>>

\* Mutant: an expired lease is not looked at, as in a table without leases.
LeaseIsForever(e) == event[e].status = "failed" /\ event[e].retryAt = "due"

\* Neither processed, nor under a live lease, nor backing off, nor poisoned.
IsEligible(e) ==
  \/ event[e].status = "processing" /\ ~event[e].lease
  \/ event[e].status = "failed" /\ event[e].retryAt = "due"

\* A redelivery (claimExistingForProcessing) or the recovery scheduler
\* (claimBatchForRecovery, FOR UPDATE SKIP LOCKED) claims an existing row.
claimExisting(w, e) ==
  /\ worker[w].pc = "idle"
  /\ IsEligible(e)
  /\ event' = [event EXCEPT ![e].status = "processing", ![e].lease = TRUE]
  /\ TakeOwnership(w, e)
  /\ UNCHANGED <<payment, ledger, schedule, audit, exceptions, clock>>

------------------------------------------------------------------------------
\* applyEvent, one step for each transaction or read.

Goto(w, pc) == worker' = [worker EXCEPT ![w].pc = pc]

\* w has read a payment's status and goes on.
HavingRead(w, status, pc) ==
  worker' = [worker EXCEPT ![w].current = status, ![w].pc = pc]

\* The event w holds, and its payment.
EventOf(w) == worker[w].event
Target(w)  == PaymentOf[EventOf(w)]

Record(types, e) == exceptions' = exceptions \cup (types \X {e})

\* From the payload to the payment, and the evidence checks that come before
\* any mutation.
LookupPayment(w) ==
  LET e == EventOf(w)
      p == Target(w)
      mismatch == TypeOf[e] = "payment.succeeded" /\ AmountIn[e] # AmountOf[p]
  IN
  /\ worker[w].pc = "lookup"
  /\ \/ /\ TypeOf[e] = "unrecognized"
        /\ Goto(w, "processed")
        /\ UNCHANGED exceptions
     \/ /\ TypeOf[e] # "unrecognized"
        /\ ~payment[p].id
        /\ Goto(w, "retryable")
        /\ UNCHANGED exceptions
     \/ /\ TypeOf[e] # "unrecognized"
        /\ payment[p].id
        /\ e \in Foreign
        /\ Record({"provider_identity_mismatch"}, e)
        /\ Goto(w, "processed")
     \/ /\ TypeOf[e] = "payout.paid"
        /\ payment[p].id
        /\ e \notin Foreign
        /\ Goto(w, "payout")
        /\ UNCHANGED exceptions
     \/ /\ TypeOf[e] \in DOMAIN EventTypeToStatus
        /\ payment[p].id
        /\ e \notin Foreign
        /\ \/ mismatch /\ Record({"amount_mismatch"}, e) /\ Goto(w, "processed")
           \/ /\ ~mismatch
              /\ Goto(w, IF worker[w].from = "none" THEN "transition"
                                                 ELSE "reread")
              /\ UNCHANGED exceptions
  /\ UNCHANGED <<event, payment, ledger, schedule, audit, clock>>

\* Mutant: the affected-row count of the marker update is not checked, so a
\* stale claim moves the status and leaves no marker.
MarkIfOwner(w, old) ==
  event' = IF worker[w].owner THEN [event EXCEPT ![EventOf(w)].from = old]
                              ELSE event

\* The marker update of applyTransition: fails when the token is not the
\* row's any more.
MarkTransition(w, old) ==
  /\ worker[w].owner
  /\ event' = [event EXCEPT ![EventOf(w)].from = old]

\* PaymentTransitionCoordinator.applyTransition: the status update and the
\* event's marker commit together or, when the claim token is no longer the
\* row's (StaleTransitionClaimError), not at all.
applyTransition(w) ==
  LET e   == EventOf(w)
      p   == Target(w)
      old == payment[p].status
  IN
  /\ worker[w].pc = "transition"
  /\ \/ /\ old \notin AllowedSources(Dest(e))
        /\ HavingRead(w, old,
             IF isTransitionPermanentlyIllegal(old, Dest(e)) THEN "conflict"
                                                             ELSE "retryable")
        /\ UNCHANGED <<event, payment>>
     \/ /\ old \in AllowedSources(Dest(e))
        /\ ~worker[w].owner
        /\ Goto(w, "retryable")
        /\ UNCHANGED <<event, payment>>
     \/ /\ old \in AllowedSources(Dest(e))
        /\ MarkTransition(w, old)
        /\ payment' = [payment EXCEPT ![p].status = Dest(e)]
        /\ worker' = [worker EXCEPT ![w].current = Dest(e), ![w].from = old,
                                    ![w].pc = "audit"]
  /\ UNCHANGED <<ledger, schedule, audit, exceptions, clock>>

\* The transition committed on an earlier attempt: only the payment is read
\* again.
RereadPayment(w) ==
  /\ worker[w].pc = "reread"
  /\ HavingRead(w, payment[Target(w)].status, "audit")
  /\ UNCHANGED <<event, payment, ledger, schedule, audit, exceptions, clock>>

\* Idempotent by the (provider_event_id, action) index.
recordTransitionAudit(w) ==
  /\ worker[w].pc = "audit"
  /\ audit' = audit \cup {<<EventOf(w), "transition">>}
  /\ Goto(w, "ledger")
  /\ UNCHANGED <<event, payment, ledger, schedule, exceptions, clock>>

------------------------------------------------------------------------------
\* A dead no-op is compared with what is known before it is let go.

\* Mutant: whatever comes in for a superseded payment is old news.
SupersededIsHistory(e, current) == current \in Superseding

\* isHistoricallyCompatibleOutcome.
IsHistoricallyCompatible(e, current) ==
  /\ Dest(e) \in AllowedSources(current)
  /\ \E f \in TrustedEvents(PaymentOf[e], TypeOf[e]) : event[f].from # "none"

\* The processor fee a late success is held against: the posted one, or the
\* one of the canonical event while nothing is posted yet.
KnownProcessorFees(p) ==
  IF Posted(ledger, p, "payment_cleared")
    THEN {Find(ledger, p, "payment_cleared").processorFee}
    ELSE {FeeIn[f] : f \in CanonicalSuccess(p)}

detectAndRecordConflict(w) ==
  LET e == EventOf(w)
      p == Target(w)
      conflicts ==
        {t \in ExceptionType :
           \/ t = "amount_mismatch" /\ AmountIn[e] # AmountOf[p]
           \/ /\ t = "status_mismatch"
              /\ Dest(e) # worker[w].current
              /\ ~IsHistoricallyCompatible(e, worker[w].current)
           \/ /\ t = "processor_fee_mismatch"
              /\ TypeOf[e] = "payment.succeeded"
              /\ \E fee \in KnownProcessorFees(p) : FeeIn[e] # fee}
  IN
  /\ worker[w].pc = "conflict"
  /\ Record(conflicts, e)
  /\ Goto(w, "processed")
  /\ UNCHANGED <<event, payment, ledger, schedule, audit, clock>>

------------------------------------------------------------------------------
\* Ledger effects.  LedgerService reads first and inserts in a later
\* statement; only the unique index holds between the two.

\* After its ledger effect, an event goes on with ...
AfterLedger(e) ==
  CASE TypeOf[e] = "payment.succeeded" -> "disposition"
    [] TypeOf[e] = "payout.paid"       -> "stampPayout"
    [] OTHER                           -> "workflow"

Insert(w, en) == worker' = [worker EXCEPT ![w].plan = {en}, ![w].pc = "insert"]

\* postLedgerEntryRequired for a success.  An unsigned lookup must prove its
\* figures (retryable) before LedgerService is asked at all; for a signed
\* webhook LedgerService itself refuses impossible figures (poison).
postPaymentCleared(w) ==
  LET e == EventOf(w)
      p == Target(w)
      lookup == SourceOf[e] = "provider_lookup"
      tooMuch == FeesExceedGross(AmountOf[p], FeeIn[e], PlatformFee)
  IN
  /\ worker[w].pc = "ledger"
  /\ TypeOf[e] = "payment.succeeded"
  /\ \/ lookup /\ tooMuch /\ Goto(w, "retryable")
     \/ /\ ~(lookup /\ tooMuch)
        /\ Posted(ledger, p, "payment_cleared")
        /\ Goto(w, AfterLedger(e))
     \/ /\ ~lookup /\ tooMuch
        /\ ~Posted(ledger, p, "payment_cleared")
        /\ Goto(w, "permanent")
     \/ /\ ~tooMuch
        /\ ~Posted(ledger, p, "payment_cleared")
        /\ Insert(w, ClearedPlan(p, AmountOf[p], FeeIn[e], PlatformFee))
  /\ UNCHANGED <<event, payment, ledger, schedule, audit, exceptions, clock>>

\* postLedgerEntryRequired for a refund, return, dispute or reversal: waits
\* for the clearing entry.
reversePayment(w) ==
  LET e == EventOf(w)
      p == Target(w)
      t == ReversalEntryOf(TypeOf[e])
  IN
  /\ worker[w].pc = "ledger"
  /\ Supersedes(e)
  /\ \/ Posted(ledger, p, t) /\ Goto(w, AfterLedger(e))
     \/ /\ ~Posted(ledger, p, t)
        /\ ~Posted(ledger, p, "payment_cleared")
        /\ Goto(w, "retryable")
     \/ /\ ~Posted(ledger, p, t)
        /\ Posted(ledger, p, "payment_cleared")
        /\ Insert(w, ReversalPlan(ledger, p, t))
  /\ UNCHANGED <<event, payment, ledger, schedule, audit, exceptions, clock>>

\* A failed payment has no ledger effect.
NoLedgerEntry(w) ==
  /\ worker[w].pc = "ledger"
  /\ TypeOf[EventOf(w)] = "payment.failed"
  /\ Goto(w, "workflow")
  /\ UNCHANGED <<event, payment, ledger, schedule, audit, exceptions, clock>>

\* applyPayoutRequired's ledger half.
postPayout(w) ==
  LET p == Target(w) IN
  /\ worker[w].pc = "payout"
  /\ \/ Posted(ledger, p, "payout") /\ Goto(w, "stampPayout")
     \/ /\ ~Posted(ledger, p, "payout")
        /\ ~CanPayOut(ledger, p)
        /\ Goto(w, "retryable")
     \/ /\ ~Posted(ledger, p, "payout")
        /\ CanPayOut(ledger, p)
        /\ Insert(w, PayoutPlan(ledger, p))
  /\ UNCHANGED <<event, payment, ledger, schedule, audit, exceptions, clock>>

insertEntry(w) ==
  /\ worker[w].pc = "insert"
  /\ \E en \in worker[w].plan : ledger' = InsertIdempotently(ledger, en)
  /\ worker' = [worker EXCEPT ![w].plan = {}, ![w].pc = AfterLedger(EventOf(w))]
  /\ UNCHANGED <<event, payment, schedule, audit, exceptions, clock>>

\* Mutant: a payout that is stamped counts as done, its audit row included.
StampedMeansDone(w) ==
  /\ worker[w].pc = "stampPayout"
  /\ payment' = [payment EXCEPT ![Target(w)].payoutCompleted = TRUE]
  /\ Goto(w, IF payment[Target(w)].payoutCompleted THEN "processed"
                                                   ELSE "auditPayout")
  /\ UNCHANGED <<event, ledger, schedule, audit, exceptions, clock>>

\* applyPayoutRequired's second half: the stamp, then the audit, which is
\* ensured even when the stamp was there before.
markPayoutCompleted(w) ==
  /\ worker[w].pc = "stampPayout"
  /\ payment' = [payment EXCEPT ![Target(w)].payoutCompleted = TRUE]
  /\ Goto(w, "auditPayout")
  /\ UNCHANGED <<event, ledger, schedule, audit, exceptions, clock>>

recordPayoutAudit(w) ==
  /\ worker[w].pc = "auditPayout"
  /\ audit' = audit \cup {<<EventOf(w), "payout">>}
  /\ Goto(w, "processed")
  /\ UNCHANGED <<event, payment, ledger, schedule, exceptions, clock>>

------------------------------------------------------------------------------
\* Schedule and agreement effects.

\* A processed event that durably took payment p from succeeded to `status`.
IsDurablySuperseded(p, status) ==
  \E t \in DOMAIN EventTypeToStatus :
    /\ EventTypeToStatus[t] = status
    /\ \E f \in TrustedEvents(p, t) : event[f].from = "succeeded"

\* apply, superseded_safely or wait_for_superseding_event.
evaluateSuccessEffectDisposition(w) ==
  LET current == worker[w].current
  IN
  /\ worker[w].pc = "disposition"
  /\ \/ current = "succeeded" /\ Goto(w, "workflow")
     \/ /\ current \in Superseding
        /\ IsDurablySuperseded(Target(w), current)
        /\ Goto(w, "processed")
     \/ /\ current # "succeeded"
        /\ current \in Superseding => ~IsDurablySuperseded(Target(w), current)
        /\ Goto(w, "retryable")
  /\ UNCHANGED <<event, payment, ledger, schedule, audit, exceptions, clock>>

\* Mutant: a success marks its installment paid whatever the ledger says.
MarkPaidAnyway(w) ==
  /\ worker[w].pc = "workflow"
  /\ TypeOf[EventOf(w)] = "payment.succeeded"
  /\ installment' = [installment EXCEPT ![InstallmentOf[Target(w)]] = "paid"]
  /\ Goto(w, "completion")
  /\ UNCHANGED <<event, payment, ledger, retry, agreement, audit, exceptions,
                 clock>>

\* Mutant: only the succeeded payment's own retry is called off.
OwnRetry(p) == {q \in {p} : retry[q] = "scheduled"}

\* Every executable retry of the installment of p.
CancelableRetries(p) ==
  {q \in PaymentsOf(InstallmentOf[p]) : retry[q] = "scheduled"}

\* Under the installment's row lock, from ledger evidence: paid, and every
\* scheduled retry of the installment called off; or open again.
coordinateSuccess(w) ==
  LET i == InstallmentOf[Target(w)] IN
  /\ worker[w].pc = "workflow"
  /\ TypeOf[EventOf(w)] = "payment.succeeded"
  /\ \/ /\ IsSatisfied(i)
        /\ installment' = [installment EXCEPT ![i] = "paid"]
        /\ retry' = [p \in Payment |->
             IF p \in CancelableRetries(Target(w)) THEN "canceled"
                                                  ELSE retry[p]]
     \/ /\ ~IsSatisfied(i)
        /\ installment' = [installment EXCEPT ![i] =
             IF @ = "waived" THEN @ ELSE UnpaidStatus(i)]
        /\ UNCHANGED retry
  /\ Goto(w, "completion")
  /\ UNCHANGED <<event, payment, ledger, agreement, audit, exceptions, clock>>

\* A failure changes nothing that is settled; otherwise the installment is
\* past due and the payment gets its one retry.
coordinateFailure(w) ==
  LET p == Target(w)
      i == InstallmentOf[p]
      settled == installment[i] \in {"paid", "waived"} \/ IsSatisfied(i)
  IN
  /\ worker[w].pc = "workflow"
  /\ TypeOf[EventOf(w)] = "payment.failed"
  /\ \/ settled /\ UNCHANGED <<installment, retry>>
     \/ /\ ~settled
        /\ installment' = [installment EXCEPT ![i] = "past_due"]
        /\ retry' = [retry EXCEPT ![p] = IF @ = "none" THEN "scheduled" ELSE @]
  /\ Goto(w, "processed")
  /\ UNCHANGED <<event, payment, ledger, agreement, audit, exceptions, clock>>

\* Mutant: no durable marker, a retried event decides again.
NeverCompensated(e) == FALSE

\* This event's own compensation was decided before, whichever way.
IsCompensated(e) ==
  {<<e, "installment_reopened">>, <<e, "installment_reopen_not_required">>}
     \cap audit # {}

\* Once for each superseding event, the marker in the same transaction: an
\* installment no longer covered is open again, without a new retry.
coordinateSupersession(w) ==
  LET e == EventOf(w)
      i == InstallmentOf[Target(w)]
      kept == installment[i] = "waived" \/ IsSatisfied(i)
  IN
  /\ worker[w].pc = "workflow"
  /\ Supersedes(e)
  /\ \/ IsCompensated(e) /\ UNCHANGED <<installment, audit>>
     \/ /\ ~IsCompensated(e)
        /\ kept
        /\ audit' = audit \cup {<<e, "installment_reopen_not_required">>}
        /\ UNCHANGED installment
     \/ /\ ~IsCompensated(e)
        /\ ~kept
        /\ audit' = audit \cup {<<e, "installment_reopened">>}
        /\ installment' = [installment EXCEPT ![i] = UnpaidStatus(i)]
  /\ Goto(w, "completion")
  /\ UNCHANGED <<event, payment, ledger, retry, agreement, exceptions, clock>>

\* DrizzleAtomicAgreementCompletionDecider.decideAndApply, for a success,
\* under the agreement's row lock.
decideAndApply(w) ==
  LET isOpen == agreement \in {"first_payment_pending", "active", "past_due"}
      starts == /\ agreement = "first_payment_pending"
                /\ AmountPaid(ledger, Payment) > 0
  IN
  /\ worker[w].pc = "completion"
  /\ TypeOf[EventOf(w)] = "payment.succeeded"
  /\ agreement' = IF isOpen /\ IsSettled THEN "paid_in_full"
                  ELSE IF starts THEN "active"
                  ELSE agreement
  /\ Goto(w, "lifecycle")
  /\ UNCHANGED <<event, payment, ledger, installment, retry, audit,
                 exceptions, clock>>

markLifecycleChecked(w) ==
  /\ worker[w].pc = "lifecycle"
  /\ payment' = [payment EXCEPT ![Target(w)].lifecycleChecked = TRUE]
  /\ Goto(w, "processed")
  /\ UNCHANGED <<event, ledger, schedule, audit, exceptions, clock>>

\* AgreementCompletionService.recomputeAfterSupersession, for a superseding
\* event: a demotion and its marker in one transaction.
recomputeAfterSupersession(w) ==
  LET e == EventOf(w)
      target == IF \E i \in overdue : installment[i] \notin {"paid", "waived"}
                  THEN "past_due" ELSE "active"
      demotes == /\ <<e, "agreement_reopened">> \notin audit
                 /\ agreement \in {"paid_in_full", "active"}
                 /\ ~IsSettled
                 /\ target # agreement
  IN
  /\ worker[w].pc = "completion"
  /\ Supersedes(e)
  /\ \/ /\ demotes
        /\ agreement' = target
        /\ audit' = audit \cup {<<e, "agreement_reopened">>}
     \/ ~demotes /\ UNCHANGED <<agreement, audit>>
  /\ Goto(w, "processed")
  /\ UNCHANGED <<event, payment, ledger, installment, retry, exceptions, clock>>

------------------------------------------------------------------------------
\* processAndFinalize: the row is written only under the worker's own token.

\* Mutant: the row is written by id alone.
FinalizeById(w, row) ==
  /\ event' = [event EXCEPT ![EventOf(w)] = row]
  /\ worker' = [worker EXCEPT ![w] = Idle]
  /\ UNCHANGED <<payment, ledger, schedule, audit, exceptions, clock>>

Finalize(w, row) ==
  /\ event' = IF worker[w].owner THEN [event EXCEPT ![EventOf(w)] = row]
                                 ELSE event
  /\ worker' = [worker EXCEPT ![w] = Idle]
  /\ UNCHANGED <<payment, ledger, schedule, audit, exceptions, clock>>

markProcessed(w) ==
  /\ worker[w].pc = "processed"
  /\ Finalize(w, [event[EventOf(w)] EXCEPT !.status = "processed",
                    !.lease = FALSE, !.retryAt = "null"])

markFailedRetryable(w) ==
  /\ worker[w].pc = "retryable"
  /\ Finalize(w, [event[EventOf(w)] EXCEPT !.status = "failed",
                    !.lease = FALSE, !.retryAt = "later"])

markFailedPermanent(w) ==
  /\ worker[w].pc = "permanent"
  /\ Finalize(w, [event[EventOf(w)] EXCEPT !.status = "failed",
                    !.lease = FALSE, !.retryAt = "null"])

Step(w) ==
  \/ LookupPayment(w)
  \/ applyTransition(w)
  \/ RereadPayment(w)
  \/ recordTransitionAudit(w)
  \/ detectAndRecordConflict(w)
  \/ postPaymentCleared(w)
  \/ reversePayment(w)
  \/ NoLedgerEntry(w)
  \/ postPayout(w)
  \/ insertEntry(w)
  \/ markPayoutCompleted(w)
  \/ recordPayoutAudit(w)
  \/ evaluateSuccessEffectDisposition(w)
  \/ coordinateSuccess(w)
  \/ coordinateFailure(w)
  \/ coordinateSupersession(w)
  \/ decideAndApply(w)
  \/ markLifecycleChecked(w)
  \/ recomputeAfterSupersession(w)
  \/ markProcessed(w)
  \/ markFailedRetryable(w)
  \/ markFailedPermanent(w)

------------------------------------------------------------------------------
\* What goes wrong, at most MaxFaults times, and what time brings.

Working(w) ==
  worker[w].pc \notin {"idle", "processed", "retryable", "permanent"}

\* The process stops; its row keeps status, lease and token.
Crash(w) ==
  /\ worker[w].pc # "idle"
  /\ faults < MaxFaults
  /\ faults' = faults + 1
  /\ worker' = [worker EXCEPT ![w] = Idle]
  /\ UNCHANGED <<event, payment, ledger, schedule, audit, exceptions, overdue,
                 arrivals>>

\* A statement throws: its transaction rolls back, the failure is retryable.
TransientError(w) ==
  /\ Working(w)
  /\ faults < MaxFaults
  /\ faults' = faults + 1
  /\ Goto(w, "retryable")
  /\ UNCHANGED <<event, payment, ledger, schedule, audit, exceptions, overdue,
                 arrivals>>

\* LEASE_MS pass.  A worker that is still at it has overrun, which counts as
\* a fault; the lease of a dead one always runs out.
LeaseExpires(e) ==
  /\ event[e].status = "processing"
  /\ event[e].lease
  /\ \/ /\ \A w \in Worker : ~(EventOf(w) = e /\ worker[w].owner)
        /\ UNCHANGED faults
     \/ /\ \E w \in Worker : EventOf(w) = e /\ worker[w].owner
        /\ faults < MaxFaults
        /\ faults' = faults + 1
  /\ event' = [event EXCEPT ![e].lease = FALSE]
  /\ UNCHANGED <<worker, payment, ledger, schedule, audit, exceptions,
                 overdue, arrivals>>

\* computeBackoffMs pass.
BackoffElapses(e) ==
  /\ event[e].status = "failed"
  /\ event[e].retryAt = "later"
  /\ event' = [event EXCEPT ![e].retryAt = "due"]
  /\ UNCHANGED <<worker, payment, ledger, schedule, audit, exceptions, clock>>

DueDatePasses(i) ==
  /\ i \notin overdue
  /\ overdue' = overdue \cup {i}
  /\ UNCHANGED <<event, worker, payment, ledger, schedule, audit, exceptions,
                 arrivals, faults>>

\* Mutant: a resumed submission writes its result a second time.
PersistAgain(p) ==
  /\ payment' = [payment EXCEPT ![p].id = TRUE, ![p].status = "processing"]
  /\ UNCHANGED <<event, worker, ledger, schedule, audit, exceptions, clock>>

\* PaymentService.submitToProvider, for a submitted payment the provider takes
\* on: it writes the provider's id and the status processing in one
\* unconditional update.  The provider may report on the payment before that.
PersistProviderPaymentId(p) ==
  /\ ~payment[p].id
  /\ payment' = [payment EXCEPT ![p].id = TRUE, ![p].status = "processing"]
  /\ UNCHANGED <<event, worker, ledger, schedule, audit, exceptions, clock>>

------------------------------------------------------------------------------
Next ==
  \/ \E w \in Worker, e \in Event :
       tryInsertAndClaim(w, e) \/ claimExisting(w, e)
  \/ \E w \in Worker : Step(w) \/ Crash(w) \/ TransientError(w)
  \/ \E e \in Event : LeaseExpires(e) \/ BackoffElapses(e)
  \/ \E i \in Installment : DueDatePasses(i)
  \/ \E p \in Payment : PersistProviderPaymentId(p)

Spec == Init /\ [][Next]_vars

\* Steps of a running worker are taken, time passes, a submission ends.  An
\* event is claimed if it can be claimed again and again: the provider
\* delivers it at least once, the recovery scheduler takes eligible rows
\* oldest first.
Fairness ==
  /\ \A w \in Worker : WF_vars(Step(w))
  /\ \A e \in Event :
       /\ SF_vars(\E w \in Worker : tryInsertAndClaim(w, e))
       /\ SF_vars(\E w \in Worker : claimExisting(w, e))
       /\ WF_vars(BackoffElapses(e))
       /\ WF_vars(LeaseExpires(e)
                  /\ \A w \in Worker : ~(EventOf(w) = e /\ worker[w].owner))
  /\ \A p \in Payment : WF_vars(PersistProviderPaymentId(p))

FairSpec == Spec /\ Fairness

------------------------------------------------------------------------------
\* Safety.

\* An event whose identity and amount agree with its payment's.
IsSound(e) ==
  /\ TypeOf[e] \in DOMAIN EventTypeToStatus
  /\ e \notin Foreign
  /\ TypeOf[e] = "payment.succeeded" => AmountIn[e] = AmountOf[PaymentOf[e]]

\* e moved payment p, to status Dest(e).
IsAuthor(e, p) ==
  /\ TypeOf[e] \in DOMAIN EventTypeToStatus
  /\ PaymentOf[e] = p
  /\ event[e].from # "none"

\* An unresolved payment has no author yet; one that succeeded or failed has
\* one, which found it unresolved; one that was superseded has one for that,
\* which found it succeeded, besides the one of its success.
HasItsAuthors(p) ==
  LET s == payment[p].status IN
  /\ s \in Unresolved => \A e \in Event : ~IsAuthor(e, p)
  /\ s \in {"succeeded", "failed"} =>
       \E e \in Event : /\ IsAuthor(e, p) /\ Dest(e) = s
                        /\ event[e].from \in Unresolved
                        /\ \A f \in Event : IsAuthor(f, p) => f = e
  /\ s \in Superseding =>
       \E e, g \in Event : /\ IsAuthor(e, p) /\ Dest(e) = s
                           /\ event[e].from = "succeeded"
                           /\ IsAuthor(g, p) /\ Dest(g) = "succeeded"
                           /\ event[g].from \in Unresolved
                           /\ \A f \in Event : IsAuthor(f, p) => f \in {e, g}

\* Every status a payment holds or has passed through after submission was
\* written by exactly one event, whose own row says so.  (applyTransition
\* commits the status and the marker together, under the claim token.)
StatusHasOneAuthor == \A p \in Payment : HasItsAuthors(p)

\* A processed event left nothing behind.  If it moved the payment, its audit
\* row and ledger entry are there; the effects of a success were applied, or
\* what superseded it is itself processed; a supersession was compensated.
\* A payout is posted, stamped and audited.  (Every effect is required,
\* whichever workers did the steps and however often they stopped or were
\* overtaken.)
ProcessedMeansDone ==
  \A e \in Event :
    event[e].status = "processed" =>
      LET p == PaymentOf[e] IN
      /\ event[e].from # "none" => <<e, "transition">> \in audit
      /\ event[e].from # "none" /\ Dest(e) = "succeeded" =>
           /\ Posted(ledger, p, "payment_cleared")
           /\ \/ payment[p].lifecycleChecked
              \/ \E f \in Event : /\ IsAuthor(f, p)
                                  /\ Supersedes(f)
                                  /\ event[f].status = "processed"
      /\ event[e].from # "none" /\ Supersedes(e) =>
           Posted(ledger, p, ReversalEntryOf(TypeOf[e])) /\ IsCompensated(e)
      /\ TypeOf[e] = "payout.paid" /\ e \notin Foreign =>
           /\ Posted(ledger, p, "payout")
           /\ payment[p].payoutCompleted
           /\ <<e, "payout">> \in audit

\* An outcome is let go only when it is out of reach for good: a processed
\* event with sound evidence that moved nothing finds its payment resolved,
\* and a supersession finds it failed or superseded.
\* (isTransitionPermanentlyIllegal decides between a dead no-op and a retry.)
NoOutcomeDropped ==
  \A e \in Event :
    event[e].status = "processed" /\ event[e].from = "none" /\ IsSound(e) =>
      LET s == payment[PaymentOf[e]].status IN
      s \notin Unresolved /\ (Supersedes(e) => s # "succeeded")

\* Nothing that disagrees with what is recorded is settled in silence: neither
\* an event that claims an outcome the payment never had, nor a second success
\* with another processor fee, though it may come before the first has posted
\* anything.  (detectAndRecordConflict, the trusted history it consults, and
\* its fallback to the canonical event.)
DisagreementIsSurfaced ==
  \A e \in Event : event[e].status = "processed" /\ IsSound(e) =>
    /\ \/ \E f \in Event : IsAuthor(f, PaymentOf[e]) /\ Dest(f) = Dest(e)
       \/ <<"status_mismatch", e>> \in exceptions
    /\ TypeOf[e] = "payment.succeeded" /\ event[e].from = "none" =>
         \A f \in Event :
           /\ TypeOf[f] = "payment.succeeded" /\ IsSound(f) /\ IsAuthor(f, PaymentOf[e])
           /\ FeeIn[f] # FeeIn[e]
           => <<"processor_fee_mismatch", e>> \in exceptions

\* Money is booked only on sound evidence: a clearing entry carries the
\* payment's amount and the fee of the one event that made the payment
\* succeed, and leaves the creditor no negative share.  (The evidence checks
\* of applyEvent and postLedgerEntryRequired come from three different places
\* and give three different verdicts.)
ClearedIsEarned ==
  \A en \in ledger :
    en.entryType = "payment_cleared" =>
      /\ CreditorNet(en) >= 0
      /\ en.gross = AmountOf[en.payment]
      /\ \E e \in Event : /\ IsAuthor(e, en.payment)
                          /\ Dest(e) = "succeeded"
                          /\ IsSound(e)
                          /\ FeeIn[e] = en.processorFee

\* Some event that took a payment of P out of succeeded is still being
\* worked on.
SupersessionPending(P) ==
  \E e \in Event : /\ Supersedes(e)
                   /\ PaymentOf[e] \in P
                   /\ event[e].from # "none"
                   /\ event[e].status # "processed"

\* Nothing is called paid that the ledger does not cover, except while the
\* event that reversed the money has still to finish: then it will be
\* reopened.  (A late or repeated success recomputes from the ledger, and a
\* superseding event posts its reversal before it recomputes.)
PaidIsCovered ==
  /\ \A i \in Installment :
       installment[i] = "paid" =>
         IsSatisfied(i) \/ SupersessionPending(PaymentsOf(i))
  /\ agreement = "paid_in_full" => IsSettled \/ SupersessionPending(Payment)

\* No debtor is charged again for what is covered: a scheduled retry of a
\* covered installment is called off by a success that has still to finish.
\* (coordinateFailure and coordinateSuccess decide under the same lock.)
NoRetryOfCovered ==
  \A p \in Payment :
    LET i == InstallmentOf[p] IN
    retry[p] = "scheduled" /\ IsSatisfied(i) =>
      \E e \in Event : /\ TypeOf[e] = "payment.succeeded"
                       /\ InstallmentOf[PaymentOf[e]] = i
                       /\ event[e].from # "none"
                       /\ event[e].status # "processed"

\* Nothing leaves the creditor's proceeds that did not come in: a payout and a
\* reversal never both draw on the same clearing, in whatever order they
\* come one after the other.  (postPayout is blocked by a reversal,
\* reversePayment turns into a clawback after a payout.)
ProceedsNotOverdrawn == DebitBalance(ledger, "creditor_proceeds_payable") <= 0

\* An event reopens its installment once or decides once that this is not
\* needed, never both, however often it is retried and whatever other
\* payments did in between.  (coordinateSupersession's markers.)
OneCompensation ==
  \A e \in Event :
    ~({<<e, "installment_reopened">>, <<e, "installment_reopen_not_required">>}
        \subseteq audit)

\* Processed is final: no late finalization, error or reclaim touches the row
\* again.  (markProcessed, markFailedRetryable and the claims.)
ProcessedIsFinal ==
  [][\A e \in Event :
       event[e].status = "processed" => event'[e] = event[e]]_vars

\* The pipeline implements the payment's life: whatever the order of events,
\* a status moves and an entry is posted only as PaymentLifecycle says.
Lifecycle == INSTANCE PaymentLifecycle WITH
  status <- [p \in Payment |-> payment[p].status],
  posted <- [p \in Payment |->
               {en.entryType : en \in {x \in ledger : x.payment = p}}]

ImplementsLifecycle == Lifecycle!LSpec

------------------------------------------------------------------------------
\* What comments of the code promise and the code does not keep.

\* "Blocked once a payment has been refunded/reversed/disputed" (postPayout):
\* a payment that is both paid out and reversed was reversed as a clawback,
\* after the payout.
PayoutBlockedOnceReversed ==
  \A en \in ledger :
    en.entryType \in ReversalType /\ Posted(ledger, en.payment, "payout")
      => en.shape = "clawback"

------------------------------------------------------------------------------
\* Liveness.

\* Every delivered event is settled in the end: no crash, lost lease,
\* reordering or backoff strands it.
EveryEventSettles == \A e \in Event : <>[](event[e].status = "processed")
==============================================================================
