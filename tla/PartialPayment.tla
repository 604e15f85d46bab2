--------------------------- MODULE PartialPayment ---------------------------
(***************************************************************************)
(* A partial payment, from its proposal to the payment that uses it up:    *)
(* PartialPaymentService, the route that pays, the expiry job, and         *)
(* PartialPaymentAutoApplicationService with the repair of retry lineages. *)
(*                                                                         *)
(* The payment that carries the proposal's key, and the retry of it, are   *)
(* seen from outside: PaymentService, PaymentRetry and PaymentWebhook have *)
(* their detail.                                                           *)
(***************************************************************************)
EXTENDS AgreementLifecycle

CONSTANTS
  Applier,       \* processes that run applyClearedPayment
  MaxPartial     \* bound on the amounts put forward

VARIABLES
  partial,    \* the partial_payment_request row
  attempts,   \* payments: the first has the proposal's key, the second is the
              \* charge of its retry, which is never retried itself
  retry,      \* the payment_retry row of the first
  paying,     \* the request each session has under way
  applier,    \* the run of applyClearedPayment of each process
  expiring,   \* the expiry job has listed the proposal
  evidence    \* audit rows that say something is wrong, with the retry they are for

partialVars == <<partial, attempts, retry, paying, applier, expiring, evidence>>

\* A payment made apart from the proposal, and none.
Apart     == 3
NoPayment == 0

NoProposal == [status |-> "absent", by |-> "debtor", amount |-> 0, late |-> FALSE, payment |-> NoPayment]
NotPaying  == [op |-> "none", amount |-> 0, payment |-> NoPayment]
NotApplying == [pc |-> "idle", attempt |-> 0, superseded |-> FALSE, repair |-> FALSE]

PartialInit ==
  /\ partial = NoProposal
  /\ attempts = <<>>
  /\ retry = "none"
  /\ paying = [s \in Session |-> NotPaying]
  /\ applier = [w \in Applier |-> NotApplying]
  /\ expiring = FALSE
  /\ evidence = {}

------------------------------------------------------------------------------
\* The parties.

\* s reads the proposal for op and finds that ok holds.
Looks(s, op, payment, ok) ==
  /\ paying[s] = NotPaying /\ ok
  /\ paying' = [paying EXCEPT ![s] =
       [op |-> op, amount |-> partial.amount, payment |-> payment]]
  /\ UNCHANGED <<partial, attempts>>

Ends(s, op) ==
  /\ paying[s].op = op
  /\ paying' = [paying EXCEPT ![s] = NotPaying]

proposePartialPayment(s) ==
  /\ RoleOf[s] = "debtor" /\ paying[s] = NotPaying
  /\ partial.status = "absent"
  /\ partial' = [NoProposal EXCEPT !.status = "proposed", !.amount = 1]
  /\ UNCHANGED <<attempts, paying>>

\* By the party that did not put the amount forward; a counteroffer leaves
\* the status alone.  Every write goes by id.
decidePartialPayment(s) ==
  \/ \E op \in {"accept", "reject", "counter"} :
       Looks(s, op, NoPayment, partial.status = "proposed" /\ partial.by # RoleOf[s])
  \/ Ends(s, "accept") /\ partial' = [partial EXCEPT !.status = "awaiting_payment"] /\ UNCHANGED attempts
  \/ Ends(s, "reject") /\ partial' = [partial EXCEPT !.status = "rejected"] /\ UNCHANGED attempts
  \/ /\ Ends(s, "counter") /\ partial.amount < MaxPartial
     /\ partial' = [partial EXCEPT !.by = RoleOf[s], !.amount = @ + 1, !.late = FALSE]
     /\ UNCHANGED attempts

Attempt(amount) == [status |-> "submitted", amount |-> amount, cleared |-> FALSE, event |-> "none"]

\* The route initiate-payment: the key is made from the proposal's id, so a
\* second call finds the first call's payment.
initiatePayment(s) ==
  \/ Looks(s, "pay", NoPayment, partial.status = "awaiting_payment" /\ RoleOf[s] = "debtor")
  \/ /\ Ends(s, "pay")
     /\ attempts' = IF attempts = <<>> THEN <<Attempt(paying[s].amount)>> ELSE attempts
     /\ UNCHANGED partial

\* recordPayment: some succeeded payment of the amount, by hand.
recordPayment(s) ==
  \/ \E n \in DOMAIN attempts \cup {Apart} :
       /\ n # Apart => attempts[n].status = "succeeded" /\ attempts[n].amount = partial.amount
       /\ Looks(s, "record", n, partial.status = "awaiting_payment")
  \/ /\ Ends(s, "record")
     /\ partial' = [partial EXCEPT !.status = "applied", !.payment = paying[s].payment]
     /\ UNCHANGED attempts

LeavesPartial(s) ==
  /\ paying[s] # NotPaying
  /\ paying' = [paying EXCEPT ![s] = NotPaying]
  /\ UNCHANGED <<partial, attempts>>

PartyStep ==
  /\ \E s \in Session :
       \/ proposePartialPayment(s) \/ decidePartialPayment(s) \/ initiatePayment(s)
       \/ recordPayment(s) \/ LeavesPartial(s)
  /\ UNCHANGED <<retry, applier, expiring, evidence>>

------------------------------------------------------------------------------
\* The payment and its retry.

Becomes(n, from, to) ==
  /\ attempts[n].status = from
  /\ attempts' = [attempts EXCEPT ![n].status = to,
                                  ![n].event = IF to = "succeeded" THEN "received" ELSE @]

PaymentMoves(n) ==
  /\ \/ Becomes(n, "submitted", "succeeded")
     \/ Becomes(n, "submitted", "failed")
     \/ attempts[n].cleared /\ Becomes(n, "succeeded", "refunded")
     \/ /\ attempts[n].event = "received" /\ ~attempts[n].cleared
        /\ attempts' = [attempts EXCEPT ![n].cleared = TRUE]
  /\ UNCHANGED retry

RetryBecomes(from, to) == retry = from /\ retry' = to

\* A failure schedules the retry, a success of another payment calls it off.
\* It is claimed together with its charge, called off once more with a charge
\* that was refused, and fired when the provider has answered.
RetryMoves ==
  \/ /\ \/ attempts # <<>> /\ attempts[1].status = "failed" /\ RetryBecomes("none", "scheduled")
        \/ RetryBecomes("scheduled", "canceled")
        \/ RetryBecomes("claimed", "fired")
     /\ UNCHANGED attempts
  \/ RetryBecomes("scheduled", "claimed") /\ attempts' = Append(attempts, Attempt(attempts[1].amount))
  \/ RetryBecomes("claimed", "canceled")  /\ Becomes(2, "submitted", "failed")

PaymentStep ==
  /\ RetryMoves \/ \E n \in DOMAIN attempts : PaymentMoves(n)
  /\ UNCHANGED <<partial, paying, applier, expiring, evidence>>

------------------------------------------------------------------------------
\* Expiry.

DateOfPartialPasses ==
  /\ partial.status # "absent" /\ ~partial.late
  /\ partial' = [partial EXCEPT !.late = TRUE]
  /\ UNCHANGED <<attempts, retry, paying, applier, expiring, evidence>>

\* Mutant: a success is over and done with.
MayStillClearUnlessSucceeded(status) == status \in {"pending", "scheduled", "submitted", "processing"}

MayStillClear(status) == status \in {"pending", "scheduled", "submitted", "processing", "succeeded"}

\* computePartialPaymentClearedEvidenceWithinTx: the payment, then what its
\* retry charged.
ClearedEvidence ==
  LET walked == {n \in DOMAIN attempts : n = 1 \/ retry = "fired"} IN
  IF \E n \in walked : attempts[n].cleared THEN "cleared"
  ELSE IF retry \in {"scheduled", "claimed"} \/ \E n \in walked : MayStillClear(attempts[n].status)
    THEN "in_flight"
  ELSE "not_cleared"

\* expireOverdue lists the proposal; expireIfSafe, under the locks of the
\* agreement and the proposal, looks again at the status and the payments.
expireOverdue ==
  /\ \/ /\ ~expiring /\ partial.status = "awaiting_payment" /\ partial.late
        /\ expiring' = TRUE
        /\ UNCHANGED partial
     \/ /\ expiring
        /\ expiring' = FALSE
        /\ partial' = IF partial.status = "awaiting_payment" /\ ClearedEvidence = "not_cleared"
                        THEN [partial EXCEPT !.status = "expired"] ELSE partial
  /\ UNCHANGED <<attempts, retry, paying, applier, evidence>>

------------------------------------------------------------------------------
\* applyClearedPayment.

\* A success event that is not finalized, or a retry that fired, cleared and
\* is not known to be applied or in conflict (repairLegacyRetryLineage, which
\* looks at retries of the payment with the proposal's key only).
NeedsRepair(n) ==
  /\ n = 2 /\ retry = "fired" /\ attempts[n].cleared
  /\ partial.status # "applied" /\ <<"retry", n>> \notin evidence

\* The attempt, its lineage, its ledger entry and the proposal are read; what
\* is not yet in the ledger is left for another run.
startApplication(w) ==
  /\ applier[w].pc = "idle"
  /\ \E n \in DOMAIN attempts, repair \in BOOLEAN :
       /\ attempts[n].cleared
       /\ IF repair THEN NeedsRepair(n) ELSE attempts[n].event = "received"
       /\ applier' = [applier EXCEPT ![w] =
            [pc |-> IF partial.amount = attempts[n].amount THEN "apply" ELSE "conflict",
             attempt |-> n, superseded |-> attempts[n].status = "refunded", repair |-> repair]]
  /\ UNCHANGED <<partial, attempts, evidence>>

\* Mutant: whatever is not waiting has been dealt with.
IsDealtWith(n) == partial.status # "awaiting_payment"

\* already_applied_same.
IsAppliedTo(n) == partial.status = "applied" /\ partial.payment = n

\* applyIfAwaitingPayment.  That the payment was superseded meanwhile is noted
\* on a best effort.
applyIfAwaitingPayment(w) ==
  LET n == applier[w].attempt
      taken == partial.status = "awaiting_payment"
      good == taken \/ IsAppliedTo(n)
  IN
  /\ applier[w].pc = "apply"
  /\ partial' = IF taken THEN [partial EXCEPT !.status = "applied", !.payment = n] ELSE partial
  /\ \/ good /\ applier[w].superseded /\ evidence' = evidence \cup {<<"superseded", 0>>}
     \/ UNCHANGED evidence
  /\ applier' = [applier EXCEPT ![w].pc = IF good THEN "finalize" ELSE "conflict"]
  /\ UNCHANGED attempts

\* recordConflictEvidence; the repair leaves a row of its own.
recordConflictEvidence(w) ==
  /\ applier[w].pc = "conflict"
  /\ evidence' = evidence \cup {<<"conflict", 0>>}
                   \cup IF applier[w].repair THEN {<<"retry", applier[w].attempt>>} ELSE {}
  /\ applier' = [applier EXCEPT ![w].pc = "finalize"]
  /\ UNCHANGED <<partial, attempts>>

finalizeApplication(w) ==
  /\ applier[w].pc = "finalize"
  /\ attempts' = IF applier[w].repair THEN attempts
                 ELSE [attempts EXCEPT ![applier[w].attempt].event = "processed"]
  /\ applier' = [applier EXCEPT ![w] = NotApplying]
  /\ UNCHANGED <<partial, evidence>>

ApplierDies(w) ==
  /\ applier[w].pc # "idle"
  /\ applier' = [applier EXCEPT ![w] = NotApplying]
  /\ UNCHANGED <<partial, attempts, evidence>>

ApplierStep ==
  /\ \E w \in Applier :
       \/ startApplication(w) \/ applyIfAwaitingPayment(w) \/ recordConflictEvidence(w)
       \/ finalizeApplication(w) \/ ApplierDies(w)
  /\ UNCHANGED <<retry, paying, expiring>>

PartialNext == PartyStep \/ PaymentStep \/ DateOfPartialPasses \/ expireOverdue \/ ApplierStep

PartialSpec == PartialInit /\ [][PartialNext]_partialVars

------------------------------------------------------------------------------
\* Properties.

\* Once its success is dealt with, a payment made for a proposal is not lost to
\* it: the proposal names the payment that used it up, or there is evidence of
\* the conflict.  A proposal that expired or was paid by its retry
\* meanwhile is never passed over, also where two users of a party answer it at
\* the same time and the later answer opens it again.
PaidIsAppliedOrSurfaced ==
  \A n \in DOMAIN attempts :
    attempts[n].event = "processed" =>
      partial.payment # NoPayment \/ <<"conflict", 0>> \in evidence

\* A proposal never expires while a payment for it has cleared or still may,
\* the charge of its retry included, wherever expiry, retry and payment meet.
ExpiresOnlyUnpaid ==
  [][partial.status = "awaiting_payment" /\ partial'.status = "expired" =>
       \A n \in DOMAIN attempts :
         ~attempts[n].cleared /\ attempts[n].status \notin {"submitted", "succeeded"}]_partial
==============================================================================
