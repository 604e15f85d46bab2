------------------------------ MODULE Settlement ------------------------------
(***************************************************************************)
(* Settlements of an agreement for less than its balance:                  *)
(* SettlementService, its repositories, and the deadline job.  Payments    *)
(* are linked under a lock of the proposal; every other write goes by id.  *)
(***************************************************************************)
EXTENDS AgreementLifecycle, FiniteSetsExt

CONSTANTS
  PaymentId,      \* the payments made towards settlements
  PaymentAmount,  \* [PaymentId -> Nat]
  OfferAmount,    \* the settlement amounts that are put forward
  MaxProposals

ASSUME SettlementAssumption ==
  /\ IsFiniteSet(PaymentId)
  /\ PaymentAmount \in [PaymentId -> Nat] /\ OfferAmount \subseteq Nat

VARIABLES
  proposals,      \* settlement_proposal rows
  boundTo,        \* payment_attempt.settlement_proposal_id of a succeeded payment, 0: none yet
  linked,         \* settlement_payment rows
  settling,       \* the settlement request each session has under way
  job             \* expireOverdueSettlements, at one of the proposals it found due

settlementVars == <<proposals, boundTo, linked, settling, job>>

SettlementStatus ==
  {"proposed", "awaiting_payment", "completed", "rejected", "failure_consequence_applied"}

Offer(role, amount, mode) ==
  [by |-> role, amount |-> amount, mode |-> mode, past |-> FALSE,
   status |-> "proposed"]

NotSettling == [op |-> "none", pc |-> "idle", row |-> 0, amount |-> 0, payment |-> "none"]

SettlementTypeOK ==
  /\ \A r \in DOMAIN proposals :
       /\ proposals[r].status \in SettlementStatus
       /\ proposals[r].amount \in OfferAmount
       /\ proposals[r].status = "proposed" => \A p \in PaymentId : boundTo[p] # r
  /\ boundTo \in [PaymentId -> 0..Len(proposals)]
  /\ linked \subseteq {p \in PaymentId : boundTo[p] # 0}
  /\ \A s \in Session : settling[s].row \in 0..Len(proposals)
  /\ job.pc \in {"idle", "sum", "fail", "complete", "settle"}

SettlementInit ==
  /\ proposals = <<>>
  /\ boundTo = [p \in PaymentId |-> 0]
  /\ linked = {}
  /\ settling = [s \in Session |-> NotSettling]
  /\ job = [pc |-> "idle", row |-> 0, amount |-> 0]

------------------------------------------------------------------------------
\* sumForSettlement.
Collected(r) == SumFunctionOnSet(PaymentAmount, {p \in linked : boundTo[p] = r})

Takes(s, op, r, p) ==
  /\ settling[s].pc = "idle"
  /\ settling' = [settling EXCEPT ![s] =
       [op |-> op, pc |-> "write", row |-> r, amount |-> proposals[r].amount, payment |-> p]]
  /\ UNCHANGED <<proposals, boundTo, linked, agreement>>

Settles(s, op, pc) == settling[s].op = op /\ settling[s].pc = pc
Leaves(s, next) == settling' = [settling EXCEPT ![s] =
                                  IF next = "done" THEN NotSettling
                                  ELSE [settling[s] EXCEPT !.pc = next]]
Put(r, row) == proposals' = [proposals EXCEPT ![r] = row]

\* proposeSettlement: whatever the status of the agreement.
proposeSettlement(s) ==
  /\ Exists /\ settling[s].pc = "idle"
  /\ Len(proposals) < MaxProposals
  /\ \E amount \in OfferAmount, mode \in {"one_time", "scheduled"} :
       proposals' = Append(proposals, Offer(RoleOf[s], amount, mode))
  /\ UNCHANGED <<boundTo, linked, settling, agreement, job>>

\* decideSettlement: recordAccepted, recordRejection, updateProposedContent.
decideSettlement(s) ==
  /\ \/ \E r \in DOMAIN proposals, op \in {"accept", "reject", "counter"} :
          /\ proposals[r].status = "proposed" /\ proposals[r].by # RoleOf[s]
          /\ Takes(s, op, r, "none")
     \/ LET r == settling[s].row IN
        /\ \/ Settles(s, "accept", "write") /\ Put(r, [proposals[r] EXCEPT !.status = "awaiting_payment"])
           \/ Settles(s, "reject", "write") /\ Put(r, [proposals[r] EXCEPT !.status = "rejected"])
           \/ /\ Settles(s, "counter", "write")
              /\ \E amount \in OfferAmount :
                   Put(r, [proposals[r] EXCEPT !.by = RoleOf[s], !.amount = amount, !.past = FALSE])
        /\ Leaves(s, "done")
        /\ UNCHANGED <<boundTo, linked, agreement>>
  /\ UNCHANGED job

\* isAwaitingPaymentForAgreement.
AwaitsPayment(row) == row.status = "awaiting_payment"

\* A payment is verified against the settlement when it is created, and
\* succeeds.
PaymentSucceeds ==
  /\ \E p \in PaymentId, r \in DOMAIN proposals :
       /\ boundTo[p] = 0 /\ AwaitsPayment(proposals[r])
       /\ boundTo' = [boundTo EXCEPT ![p] = r]
  /\ UNCHANGED <<proposals, linked, settling, agreement, job>>

\* Mutant: the ceiling that was read, against the amount alone.
WithinOwnAmount(r, p) == PaymentAmount[p] <= proposals[r].amount

\* recordWithinSettlementCeiling, under the proposal's lock.
WithinCeiling(r, p) ==
  /\ proposals[r].status = "awaiting_payment"
  /\ p \notin linked
  /\ Collected(r) + PaymentAmount[p] <= proposals[r].amount

ReachesAmount(total, amount) == total >= amount

\* recordSettlementPayment: the link, then recordCompleted, then the agreement.
recordSettlementPayment(s) ==
  LET r == settling[s].row
      p == settling[s].payment
  IN
  /\ \/ \E q \in PaymentId :
          /\ boundTo[q] # 0
          /\ proposals[boundTo[q]].status = "awaiting_payment"
          /\ proposals[boundTo[q]].mode = "one_time" =>
               PaymentAmount[q] = proposals[boundTo[q]].amount
          /\ Takes(s, "record", boundTo[q], q)
     \/ /\ Settles(s, "record", "write")
        /\ IF WithinCeiling(r, p)
             THEN /\ linked' = linked \cup {p}
                  /\ Leaves(s, IF ReachesAmount(Collected(r) + PaymentAmount[p], settling[s].amount)
                                 THEN "complete" ELSE "done")
             ELSE Leaves(s, "done") /\ UNCHANGED linked
        /\ UNCHANGED <<proposals, boundTo, agreement>>
     \/ /\ Settles(s, "record", "complete")
        /\ Put(r, [proposals[r] EXCEPT !.status = "completed"])
        /\ Leaves(s, "settle")
        /\ UNCHANGED <<boundTo, linked, agreement>>
     \/ /\ Settles(s, "record", "settle")
        /\ updateStatus("settled_in_full")
        /\ Leaves(s, "done")
        /\ UNCHANGED <<proposals, boundTo, linked>>
  /\ UNCHANGED job

AbandonSettlement(s) ==
  /\ settling[s].pc # "idle"
  /\ Leaves(s, "done")
  /\ UNCHANGED <<proposals, boundTo, linked, agreement, job>>

------------------------------------------------------------------------------
\* The deadline.

DeadlinePasses(r) ==
  /\ ~proposals[r].past
  /\ Put(r, [proposals[r] EXCEPT !.past = TRUE])
  /\ UNCHANGED <<boundTo, linked, settling, agreement, job>>

\* findAwaitingPaymentPastDeadline.
IsDue(row) == row.status = "awaiting_payment" /\ row.past

JobAt(pc) == job' = [job EXCEPT !.pc = pc]

\* expireOverdueSettlements: the proposals due are read in one query, then for
\* each the sum, and then the writes.  The job may die at any point.
expireOverdueSettlements ==
  /\ \/ \E r \in DOMAIN proposals :
          /\ job.pc = "idle" /\ IsDue(proposals[r])
          /\ job' = [pc |-> "sum", row |-> r, amount |-> proposals[r].amount]
          /\ UNCHANGED <<proposals, agreement>>
     \/ /\ job.pc = "sum"
        /\ JobAt(IF ReachesAmount(Collected(job.row), job.amount) THEN "complete" ELSE "fail")
        /\ UNCHANGED <<proposals, agreement>>
     \/ /\ job.pc = "fail" /\ JobAt("idle")
        /\ Put(job.row, [proposals[job.row] EXCEPT !.status = "failure_consequence_applied"])
        /\ UNCHANGED agreement
     \/ /\ job.pc = "complete" /\ JobAt("settle")
        /\ Put(job.row, [proposals[job.row] EXCEPT !.status = "completed"])
        /\ UNCHANGED agreement
     \/ /\ job.pc = "settle" /\ JobAt("idle")
        /\ updateStatus("settled_in_full")
        /\ UNCHANGED proposals
     \/ /\ job.pc \notin {"idle", "sum"} /\ JobAt("idle")
        /\ UNCHANGED <<proposals, agreement>>
  /\ UNCHANGED <<boundTo, linked, settling>>

SettlementNext ==
  /\ \/ \E s \in Session :
          \/ proposeSettlement(s) \/ decideSettlement(s)
          \/ recordSettlementPayment(s) \/ AbandonSettlement(s)
     \/ PaymentSucceeds
     \/ \E r \in DOMAIN proposals : DeadlinePasses(r)
     \/ expireOverdueSettlements
  /\ UNCHANGED <<session, versions, cancellations, consent>>

\* A foreign key ties a proposal to its agreement.
KeepsProposed == proposals # <<>> /\ Exists => agreement'.status # "deleted"

------------------------------------------------------------------------------
\* Properties.

\* What h read to be the amount has cleared, and h is about to write that the
\* agreement is settled.
SettlesInFull(h) == h.pc = "settle" /\ Collected(h.row) >= h.amount

\* A settlement collects its amount and no more: the payments linked to it
\* never add up to more, however many are recorded at once, and an agreement is
\* settled in full only by who completes a settlement that has cleared the whole
\* amount it was found to await, a party or the job, whatever others write
\* between their reads and their writes.
CollectsItsAmount ==
  [][/\ \A r \in DOMAIN proposals :
          linked' # linked /\ Collected(r)' # Collected(r) => Collected(r)' <= proposals[r].amount
     /\ agreement.status # "settled_in_full" /\ agreement'.status = "settled_in_full" =>
          SettlesInFull(job) \/ \E s \in Session : SettlesInFull(settling[s])
    ]_<<agreement, settlementVars>>
==============================================================================
