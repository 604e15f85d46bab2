---------------------------- MODULE Reconciliation ----------------------------
(***************************************************************************)
(* ReconciliationService.repairBatch next to the event pipeline, and the   *)
(* refund a creditor asks for through PaymentService.                      *)
(*                                                                         *)
(* The scheduler that recovers events also looks for payments whose status *)
(* says more than the ledger: succeeded without a clearing entry, refunded *)
(* without a refund.  It posts what one trusted event proves and records   *)
(* an exception for what none does.  It works on rows it has read earlier, *)
(* while the pipeline (PaymentWebhook, all of it) goes on, and a creditor  *)
(* may refund.  A refund through the service writes the status at once;    *)
(* the provider's own event about it follows.                              *)
(***************************************************************************)
EXTENDS PaymentWebhook

VARIABLES
  batch,     \* the candidate a repair batch is at
  deferred,  \* payments whose financial_repair_next_attempt_at lies ahead
  unposted,  \* payments with an open internal_posting_failure
  refund     \* refunds through the service, by payment

repairs == <<batch, deferred, unposted>>
allVars == <<vars, repairs, refund>>

NoCandidate == [pc |-> "idle", payment |-> "none", status |-> "none",
                held |-> FALSE, plan |-> {}]

RepairTypeOK ==
  /\ batch.pc \in {"idle", "financial", "insert", "except", "lifecycle", "stamp"}
  /\ batch.payment \in Payment \cup {"none"}
  /\ batch.status \in PaymentAttemptStatus \cup {"none"}
  /\ batch.held \in BOOLEAN
  /\ batch.plan \subseteq Entry(Payment)
  /\ deferred \subseteq Payment
  /\ unposted \subseteq Payment
  /\ refund \in [Payment -> {"none", "asked", "done"}]

RInit ==
  /\ Init
  /\ batch = NoCandidate
  /\ deferred = {}
  /\ unposted = {}
  /\ refund = [p \in Payment |-> "none"]

------------------------------------------------------------------------------
\* PaymentService.refundPayment: the provider is asked, then the status is
\* written by id.
refundPayment(p) ==
  /\ refund[p] = "none"
  /\ payment[p].status = "succeeded" /\ payment[p].id
  /\ refund' = [refund EXCEPT ![p] = "asked"]
  /\ UNCHANGED <<vars, repairs>>

markRefunded(p) ==
  /\ refund[p] = "asked"
  /\ refund' = [refund EXCEPT ![p] = "done"]
  /\ payment' = [payment EXCEPT ![p].status = "refunded"]
  /\ UNCHANGED <<event, worker, ledger, schedule, audit, exceptions, clock, repairs>>

------------------------------------------------------------------------------
\* Candidates.

\* REVERSAL_STATUS_TO_ENTRY_TYPE, and the event that proves the status.
ReversalEntryFor(status) ==
  CASE status = "refunded" -> "refund"
    [] status = "disputed" -> "dispute_adjustment"
    [] OTHER               -> "reversal"
EventFor(status) ==
  CHOOSE t \in DOMAIN EventTypeToStatus : EventTypeToStatus[t] = status

IsMissingClearing(p) ==
  payment[p].status = "succeeded" /\ ~Posted(ledger, p, "payment_cleared")

\* Mutant: refunds are left to the provider's event.
IsMissingOtherReversal(p) ==
  /\ payment[p].status \in Superseding \ {"refunded"}
  /\ ~Posted(ledger, p, ReversalEntryFor(payment[p].status))

IsMissingReversal(p) ==
  /\ payment[p].status \in Superseding
  /\ ~Posted(ledger, p, ReversalEntryFor(payment[p].status))

NeedsLifecycleCheck(p) ==
  /\ payment[p].status = "succeeded"
  /\ agreement \in {"first_payment_pending", "active", "past_due"}
  /\ ~payment[p].lifecycleChecked
  /\ Posted(ledger, p, "payment_cleared")

\* repairBatch takes a row as it is now, its next attempt included: the
\* lifecycle query brings in rows that are held back.
repairBatch(p) ==
  /\ batch.pc = "idle"
  /\ \/ p \notin deferred /\ (IsMissingClearing(p) \/ IsMissingReversal(p))
     \/ NeedsLifecycleCheck(p)
  /\ batch' = [pc |-> "financial", payment |-> p, status |-> payment[p].status,
               held |-> p \in deferred, plan |-> {}]
  /\ UNCHANGED <<vars, deferred, unposted, refund>>

------------------------------------------------------------------------------
\* repairFinancialEffectsForCandidate.

\* findUnambiguousTrustedEvent, as a set: there must be exactly one.
UnambiguousTrustedEvent(p, t) ==
  LET trusted == TrustedEvents(p, t)
  IN IF Cardinality(trusted) = 1 THEN trusted ELSE {}

\* Mutant: the fee is booked as reported.
RepairAsReported(p) ==
  {ClearedPlan(p, AmountOf[p], FeeIn[e], PlatformFee) :
     e \in {x \in UnambiguousTrustedEvent(p, "payment.succeeded") : AmountIn[x] = AmountOf[p]}}

\* tryRepairMissingLedgerEntry: the figures have to agree.
ClearingRepair(p) ==
  {ClearedPlan(p, AmountOf[p], FeeIn[e], PlatformFee) :
     e \in {x \in UnambiguousTrustedEvent(p, "payment.succeeded") :
              AmountIn[x] = AmountOf[p] /\ FeeIn[x] + PlatformFee <= AmountOf[p]}}

\* tryRepairMissingReversalEntry: reversePayment refuses what has not cleared.
ReversalRepair(p, status) ==
  {ReversalPlan(ledger, p, ReversalEntryFor(status)) :
     e \in {x \in UnambiguousTrustedEvent(p, EventFor(status)) :
              AmountIn[x] = AmountOf[p] /\ Posted(ledger, p, "payment_cleared")}}

\* What the candidate's status, as it was read, still lacks in the ledger.
Lacks(p, status) ==
  /\ ~batch.held
  /\ \/ status = "succeeded" /\ ~Posted(ledger, p, "payment_cleared")
     \/ status \in Superseding /\ ~Posted(ledger, p, ReversalEntryFor(status))

repairFinancialEffects ==
  LET p    == batch.payment
      plan == IF batch.status = "succeeded" THEN ClearingRepair(p)
                                            ELSE ReversalRepair(p, batch.status)
  IN
  /\ batch.pc = "financial"
  /\ batch' = IF ~Lacks(p, batch.status) THEN [batch EXCEPT !.pc = "lifecycle"]
              ELSE IF plan = {}           THEN [batch EXCEPT !.pc = "except"]
              ELSE [batch EXCEPT !.pc = "insert", !.plan = plan]
  /\ UNCHANGED <<vars, deferred, unposted, refund>>

insertRepair ==
  /\ batch.pc = "insert"
  /\ \E en \in batch.plan : ledger' = InsertIdempotently(ledger, en)
  /\ batch' = [batch EXCEPT !.pc = "lifecycle", !.plan = {}]
  /\ UNCHANGED <<event, worker, payment, schedule, audit, exceptions, clock,
                 deferred, unposted, refund>>

\* recordException, then markFinancialRepairDeferred.
recordPostingFailure ==
  /\ batch.pc = "except"
  /\ unposted' = unposted \cup {batch.payment}
  /\ deferred' = deferred \cup {batch.payment}
  /\ batch' = [batch EXCEPT !.pc = "lifecycle"]
  /\ UNCHANGED <<vars, refund>>

\* Mutant: what cleared is counted, whatever became of it.
CompleteByClearing ==
  agreement' = IF \A i \in Installment : \E p \in PaymentsOf(i) : Posted(ledger, p, "payment_cleared")
                 THEN "paid_in_full" ELSE agreement

\* decideAndApply, from the evidence under the agreement's lock.
checkAndAdvance ==
  agreement' =
    CASE agreement \in {"first_payment_pending", "active", "past_due"} /\ IsSettled
           -> "paid_in_full"
      [] /\ agreement = "first_payment_pending" /\ AmountPaid(ledger, Payment) > 0
         /\ ~IsSettled
           -> "active"
      [] OTHER -> agreement

repairLifecycle ==
  /\ batch.pc = "lifecycle"
  /\ IF batch.status = "succeeded" /\ Posted(ledger, batch.payment, "payment_cleared")
       THEN checkAndAdvance /\ batch' = [batch EXCEPT !.pc = "stamp"]
       ELSE batch' = NoCandidate /\ UNCHANGED agreement
  /\ UNCHANGED <<event, worker, payment, ledger, installment, retry, audit,
                 exceptions, clock, deferred, unposted, refund>>

stampLifecycle ==
  /\ batch.pc = "stamp"
  /\ payment' = [payment EXCEPT ![batch.payment].lifecycleChecked = TRUE]
  /\ batch' = NoCandidate
  /\ UNCHANGED <<event, worker, ledger, schedule, audit, exceptions, clock,
                 deferred, unposted, refund>>

RepairStep ==
  \/ repairFinancialEffects \/ insertRepair \/ recordPostingFailure
  \/ repairLifecycle \/ stampLifecycle

\* FINANCIAL_REPAIR_BACKOFF_MS pass.
RepairBackoffElapses(p) ==
  /\ p \in deferred
  /\ deferred' = deferred \ {p}
  /\ UNCHANGED <<vars, batch, unposted, refund>>

\* resolveException: an administrator closes the case.
resolveException(p) ==
  /\ p \in unposted
  /\ unposted' = unposted \ {p}
  /\ UNCHANGED <<vars, batch, deferred, refund>>

\* The batch dies; its successor reads again.
RepairCrash ==
  /\ batch.pc # "idle"
  /\ faults < MaxFaults /\ faults' = faults + 1
  /\ batch' = NoCandidate
  /\ UNCHANGED <<event, worker, payment, ledger, schedule, audit, exceptions,
                 overdue, arrivals, deferred, unposted, refund>>

------------------------------------------------------------------------------
RNext ==
  \/ Next /\ UNCHANGED <<repairs, refund>>
  \/ RepairStep \/ RepairCrash
  \/ \E p \in Payment :
       \/ repairBatch(p) \/ RepairBackoffElapses(p) \/ resolveException(p)
       \/ refundPayment(p) \/ markRefunded(p)

RSpec == RInit /\ [][RNext]_allVars

\* Rows are worked on as in the pipeline, whether or not the provider sends
\* anything more, and a batch runs on every tick of the same scheduler, oldest
\* rows first; a refund that was begun ends.
RFairness ==
  /\ \A w \in Worker : WF_vars(Step(w))
  /\ \A e \in Event :
       /\ SF_vars(\E w \in Worker : claimExisting(w, e))
       /\ WF_vars(BackoffElapses(e))
  /\ WF_allVars(RepairStep)
  /\ \A p \in Payment : /\ SF_allVars(repairBatch(p))
                        /\ WF_allVars(RepairBackoffElapses(p))
                        /\ WF_allVars(markRefunded(p))

------------------------------------------------------------------------------
\* Properties.

\* Only evidence is booked, by the pipeline or by a repair that works on a
\* stale row: a clearing entry carries the fee of an event that reports this
\* payment's success in full, and the creditor's share is not negative.
BookedOnEvidence ==
  \A en \in ledger :
    en.entryType = "payment_cleared" =>
      /\ CreditorNet(en) >= 0
      /\ en.gross = AmountOf[en.payment]
      /\ \E e \in Event : /\ TypeOf[e] = "payment.succeeded" /\ IsSound(e)
                          /\ PaymentOf[e] = en.payment
                          /\ FeeIn[e] = en.processorFee

\* An agreement is called complete only when it is, also by a repair that
\* races a reversal, unless the event that reversed it has still to finish.
\* (The status that the service writes for a creditor's refund is left out of
\* this one: see ReversalReopens.)
CompletionIsEarned == agreement = "paid_in_full" => IsSettled \/ SupersessionPending(Payment)

IsRefunded == \E p \in Payment : refund[p] = "done"

CompletionIsEarnedWithoutRefunds == ~IsRefunded => CompletionIsEarned

\* What a payment's status claims is booked in the end or stands as an open
\* exception: a success whose event is poisoned, and a refund through the
\* service whose event finds nothing left to do.
StatusIsAccountedFor ==
  \A p \in Payment :
    /\ payment[p].status = "succeeded" ~>
         Posted(ledger, p, "payment_cleared") \/ p \in unposted
    /\ payment[p].status = "refunded" ~>
         Posted(ledger, p, "refund") \/ p \in unposted

\* failedPaymentRetryCoordinator.ts: after a reversal, "If the net contribution
\* now falls short, the installment reopens".
ReversalReopens ==
  \A i \in Installment : []<>(installment[i] = "paid" => IsSatisfied(i))
==============================================================================
