# PAY2PAY: a TLA+ model of agreements and of the money they move

PAY2PAY (the code calls itself Paid2You) is a TypeScript web application in which two
parties negotiate and sign a repayment agreement, the debtor pays its installments through a
payment provider, and a double-entry ledger says what has been paid. This directory models
the services behind it: what they do to their rows, statement by statement, when requests,
scheduled jobs and the provider's events overlap, arrive late or twice, or die halfway.

Source paths below are relative to `src/src/lib/` unless they start with `src/`.

## 1. The system

| Component | State | Operations | Talks to |
|---|---|---|---|
| Inbound payment events (`payments/paymentWebhookService.ts`, `drizzlePaymentWebhookEventRepository.ts`, `paymentTransitionCoordinator.ts`) | `payment_webhook_event`: status, lease, claim token, next retry, transition marker | receive, look up, claim, recover, apply, finalize | payments, ledger, schedule, agreement |
| Payment service (`payments/paymentService.ts`, `drizzleInstallmentAwarePaymentReserver.ts`, `ledger/installmentSettlementTx.ts`) | `payment_attempt`: status, provider id, payout and lifecycle stamps | reserve, schedule, submit, cancel, refund, record and confirm manual payments | provider, ledger, audit |
| Retries (`failedPayments/`) | `payment_retry`, `installment_schedule_item.status` | coordinate failure, success, supersession; sweep, claim, dispatch, resolve an ambiguous answer | provider, payments, events |
| Ledger (`ledger/ledgerService.ts`, `balanceService.ts`) | `ledger_journal_entry`, one for each (payment, entry type) | post clearing, reversal, payout; reconstruct the paid amount | audit |
| Agreement completion (`ledger/agreementCompletionService.ts`) | `agreement.status` | decide and apply, recompute after supersession | ledger, schedule |
| Reconciliation (`ledger/reconciliationService.ts`) | `reconciliation_exception`, repair backoff | repair missing entries in batches, record and resolve exceptions | all of the above |
| Agreements (`agreements/`) | `agreement`, `agreement_version`, `agreement_cancellation_request` | draft, submit, acknowledge, decide, revise, sign, cancel; schedule arithmetic; progress view | signatures, relationships |
| Amendments, settlements, partial payments | their own rows, with proposals and signatures | propose, accept, reject, counter, withdraw, sign, apply, expire | agreement, payments |
| Agreement invitations (`agreementInvitations/`) | `agreement_invitation`: rounds of terms, recipient | create, view, counter, accept, decline, revoke, renew, expire | agreements |
| Relationships (`relationships/`) | invitation, participants, accounts and slots, governing agreement | invite, answer, connect, verify, assign, replace, disable, link, activate, close | agreements |
| Signed documents and evidence (`signatures/`, `documents/`, `evidence/`) | files in private storage, rows with their hashes | generate, look up, upload | agreements, amendments |
| Audit trail (`audit/`) | `audit_event`, a hash chain | append, alone or inside a caller's transaction | everything |
| Notifications (`notify/`) | `notification_event` per channel, preferences, opt-out, SMS consent | request, deliver, retry, redeliver, delivery events | everything |
| Disputes, authentication, payment-method wrappers, profiles and KYC, staff and admin, CSV import and pricing, routes and UI, schema | their own tables | see section 7 | |

Two patterns explain most of what is hard.

* *Guarded writes.* Inbound events run about ten separate transactions each, on rows other
  workers are working on. The code relies on claims with leases and fencing tokens, on a
  transition marker written together with the payment's status, on unique indexes, on row
  locks inside single effects, and on re-running every required effect until it is known to
  be done. Reservations, signing, settlement payments, account replacement and the audit
  chain check again under a lock.
* *Check, then write by id.* Most of the negotiation services read a row, check its status
  and write in a later statement, whatever the status has become. What saves them, when
  something does, is a unique index, a foreign key or a re-check in a later step. The
  properties below say which promises survive this, and the findings which do not.

What can go wrong, with the line at which it bites and the property that would show it, is
the list of hazards in `PROJECT.json`.

What makes each component correct:

* events: an event is processed once, completely, and its outcome is never dropped while it
  could still apply; contradictions are surfaced; every event is settled in the end;
* payments: a status has one author; one attempt at a time may move money for an
  installment; the debtor is never charged more than is due; a key is answered only with its
  own request's payment; every charge is resolved in the end;
* retries: an unclear answer never leads to a second charge, and is resolved in the end;
* ledger: money is booked once, on sound evidence, and never leaves an account it did not
  enter;
* reconciliation: repairs book evidence only, and what a status claims ends up booked or in
  an open exception;
* agreements: what is in force both parties signed, as it was accepted; nothing signed
  disappears; versions form one line; nobody cancels alone; each party is asked for what it
  may do; the schedule repays the principal to the unit;
* settlements and partial payments: the settlement collects its amount and no more; a
  payment that clears is applied or surfaced, and expiry never takes a paid proposal;
* invitations: one agreement, one answer; slots: every row was replaced by the next one;
* documents: what is recorded is never changed and, if missing, can be made again;
* audit: one chain without forks or gaps; notifications: told once, and texts only to a
  number a consent covers.

## 2. Modules

| Module | What it is |
|---|---|
| `PaymentStatus` | the status vocabulary, the transition matrix and `isTransitionPermanentlyIllegal`, as operators |
| `Ledger` | `LedgerService` and the balance reconstruction, as operators on a set of entries |
| `PaymentWebhook` | the event pipeline: rows, workers, one action for each transaction or read of `applyEvent`, claims, finalizations, faults, time |
| `PaymentLifecycle` | abstract specification: the life of a payment and of its ledger entries; `PaymentWebhook` implements it |
| `PaymentWebhookProofs`, `PipelineProofs` | theorems about `PaymentWebhook`: rows, tokens and authors; what is left behind, the schedule, and the refinement; and about `Reconciliation`: what is booked |
| `PaymentService`, `PaymentServiceProofs` | requests that create, schedule, submit, cancel, refund or record payments, the provider, and the pipeline seen from outside; its theorem |
| `SumProofs` | lemmas about sums over finite sets, for the theorems about money |
| `PaymentRetry`, `PaymentRetryProofs` | the retry sweep, with the provider's lost answers and their resolution by lookup; its theorems |
| `Reconciliation` | all of `PaymentWebhook`, the repair batch and the refund through the service |
| `AgreementLifecycle` | drafts, revisions, acceptance, signatures, cancellations |
| `Amendment`, `Settlement` | extend `AgreementLifecycle`: they act on the same agreement row |
| `Agreement`, `AgreementProofs` | the three of them together on the shared rows; theorems about them, about the view of them and about partial payments |
| `PartialPayment` | a proposal, its payment with a retry, expiry and automatic application |
| `AgreementInvitation` | an invitation by link, the accounts that hold it, and the draft it makes |
| `RelationshipInvitation` | the invitation into a relationship and its answers |
| `FinancialAccount` | accounts, slots, and the agreements that govern a relationship one after the other |
| `SignedDocument` | the executed PDF and evidence files: storage first, row second |
| `AgreementProgress` | what each party is shown, computed from the rows of `AgreementLifecycle` |
| `Schedule` | amounts and dates of installments |
| `AuditChain` | the hash chain under its advisory lock |
| `RecordProofs` | theorems about the two invitations, slots, documents, the schedule and the audit chain |
| `Notification`, `NotificationProofs` | one notification on its channels, with consent and opt-out; its theorems |
| `MCPaymentWebhook`, `MCPaymentService`, `MCPaymentRetry`, `MCReconciliation`, `MCAgreement` | instances: catalogues of events and requests, scenes |

Compositions: `Reconciliation` adds two actors to the complete pipeline; `Agreement`
composes the agreement with its amendments and settlements on shared rows, where the only
notice they take of each other is the foreign keys that keep an agreement from being deleted;
`MCAgreement` puts the components that share no row with them beside it; `PaymentService` and `PaymentRetry` use the
pipeline as its guarded transition and its postings, which `PaymentLifecycle` justifies.

### Conventions

* An action is one database statement, transaction or provider call, and is named after the
  function it translates. A request, sweep or worker is a record with the step it is at
  (`pc`) and what it has read and still believes.
* A transaction is one step. Reads that follow one another without a write, before a
  decision, are one step where noted in the module.
* A request that is refused leaves no trace; a process that dies leaves what it has written
  (`Crash`, `Abandon`).
* Rows are named by what identifies them in the code (idempotency key, version number), texts
  and terms by numbers, times by what is compared: past or not.

### `PaymentWebhook`

* `event[e]` is the row: `processing_status` (`absent` is no row), whether the lease is live,
  `next_retry_at` (null, in the future, due), the marker `transition_from_status`, and the
  rank of `received_at`.
* `worker[w]` is one run of `processAndFinalize`: the step it is at, its event, whether the
  row's claim token is still its own (`owner`: a token is a fresh UUID that is only compared
  for equality, so only the result of that comparison is kept), its copy of the marker, the
  payment status it read last, and the ledger entry it is about to insert.
* `payment`, `ledger`, `installment`, `retry`, `agreement`, `audit`, `exceptions` are the
  tables. Of the audit log only rows with a `provider_event_id` are kept: decisions are taken
  from those. `overdue`, `arrivals`, `faults` are time and bounds.
* `tryInsertAndClaim` and `claimExisting` are the claims (a redelivery or the recovery
  scheduler). `LookupPayment` is `applyEvent` up to the transition with its evidence checks;
  `applyTransition` the coordinator's transaction; `RereadPayment` the branch for an event
  whose transition committed earlier; the other actions follow the code's names.
* The payments are provider-routed and belong to one agreement with an installment schedule;
  amounts and fees are small numbers, currency is one, the platform fee is the constant zero
  of `DefaultPlatformFeePolicy`. A payload without a `providerPaymentId` behaves as one whose
  payment is not found yet. A retry has the states none, scheduled and canceled here; who
  executes it is `PaymentRetry`'s matter.
* Notifications and risk signals, which are best effort, logging and error codes are left out.

### The payment side next to it

* `PaymentService`: `attempt` by idempotency key, `charge` the provider's own record of a
  key (the provider is idempotent in it), `event` what it has yet to report. Faults are
  crashes, lost answers and failing writes, anywhere in a request.
* `PaymentRetry`: each retry has an anchor attempt, inserted before the provider is called.
  The execution token is written once, with the claim, so comparing it adds nothing to
  comparing the status.
* `Reconciliation`: `batch` is the candidate the repair is at, as it read it; the refund
  through the service is two steps, the provider's answer and the write by id.

### The agreement side

* `AgreementLifecycle`: `versions` are numbered rows with their signatures and evidence;
  `session[s]` a user's request with the status and version it has read; `consent` is
  history: which party reviewed and agreed to which terms. Creation of a new version is
  guarded by the unique index on its number, deletion by foreign keys.
* `Amendment` keeps in `endorsed` what a party had before it when it signed; `Settlement`
  the running sum that `recordPayment` compares under the lock.
* `PartialPayment` sees the payment and its retry from outside, as at most two attempts that
  succeed, clear or fail: what a retry charged is never retried itself
  (`failedPaymentRetryCoordinator.ts:1119`), and the retry is claimed in the transaction that
  inserts its charge.
* `FinancialAccount` names a party by the role it took when the relationship was made, since
  the roles may be reversed by a later agreement.
* `SignedDocument` names every rendering by the request that made it: no two renderings have
  the same bytes.
* `AuditChain` lets a row's id stand for its hash; statements see what is committed.

## 3. Scenes, bounds and symmetry

A run explores several scenes. `SceneSet` is a constant, the variable `scene` picks one in
the initial state and never changes, and `InScene` restricts the next state to the scene's
actors, events and faults. A scene is a restriction only: every behaviour of it is one of the
component's specification. Fairness is assumed only for runs whose scenes leave out nothing
that the fairness needs.

Why the bounds are enough for the cases to happen:

* *Events*: two workers make an overtaken worker and its successor, and two events of one
  payment at the same time; a third event is contradicted, overtaken or contradicts. Faults
  are bounded by one or two for each scene, none where three events meet two workers; retries
  without a fault are not bounded, and every event may be claimed any number of times. Workers
  are symmetric. About 490,000 states.
* *Payment service*: four requests on one or two installments that are due 2, with
  amounts 1 and 2, so that two requests fit and a third does not; keys are used twice, with
  the same and with other figures.
* *Retries*: two retries of one installment, two overlapping sweeps, one manual payment of
  half the amount, one fault.
* *Agreement*: two users of the creditor and one of the debtor, so that one party has two
  requests under way; two versions, one amendment with two sets of terms, one cancellation.
  At most two of the three users have a request under way at a time. The creditor's users are
  symmetric. The terms are explored three times: a draft with three users and without
  cancellations, a draft with one user for each party and with them, an agreement in force
  with three users and with them. Settlements are explored with three users and two
  payments, counteroffers written late included, and with one user for each party and three
  payments. About 800,000 states.
* *Progress view*: checked in states in which no amendment request is under way. A request
  can be abandoned anywhere, so every agreement that amendments make is also reached there.
* *Accounts*: an account of each party is connected at the start. One scene has the two users
  of the creditor and no agreement to link, the other both parties and an agreement with reversed
  roles, with fewer assignment rows and without the third account, disabling and closing.
  *Notices*: texts are explored without redelivery by an administrator and with one number
  opted out at most; of the preferences, the one for mail is switched; one retry job runs at a time, as the daily cron does.
* *Schedule*: principals up to 5 in all frequencies, first dates at the ends of months,
  before and in a leap year and in a century without one.
* *Partial payments*: two processes that apply a cleared payment; three users, of whom two
  may answer the same proposal at once, without counteroffers; one user for each party and two
  amounts, so that a counteroffer changes what is paid.
* *Audit*: three servers, with or without a row lock held before the append, one kind of
  event they may all record, and three ids, rolled back or not.

Deadlock is not checked: requests may simply end, and every run may stop when there is
nothing left to do.

## 4. Runs

| Run | Scenes | Shows |
|---|---|---|
| `webhook` | twelve: two payments for one installment and a refund; a failed payment and another's success; a payout before or after the clearing or the refund; overtaken workers; events that disagree; unsound evidence of every kind | `PaidIsCovered`, `NoRetryOfCovered`, `OneCompensation`, `ProcessedMeansDone`, `StatusHasOneAuthor`, `NoOutcomeDropped`, `DisagreementIsSurfaced`, `ClearedIsEarned`, `ProceedsNotOverdrawn`, `ProcessedIsFinal`, types, and that the pipeline implements `PaymentLifecycle` |
| `webhook_recovery` | success and refund, 2 workers, 1 fault, fair | every event is settled in the end |
| `payment_service` | five: a charge and a plan, with its key reused or a manual payment; a charge and two manual payments, one replayed or confirmed, with a fault anywhere; a cancel and a refund; fair | one unresolved attempt for an installment, nobody is overcharged, a replay gets its own payment, every charge is resolved and booked in the end |
| `payment_retry` | two retries, two sweeps, a manual payment, one fault; fair | nobody is overcharged, rows never contradict the provider, every retry is resolved in the end |
| `reconciliation` | four: the pipeline alone would do; a poisoned success and a crash; with a refund; a refund through the service; fair | the batch books evidence only, an agreement is complete only when it is earned (refunds through the service apart), what a status claims is booked or surfaced in the end |
| `agreement` | sixteen: terms (3), amendment, settlement (2), partial payment (2), invitation, handshake, accounts (2), document, schedule, audit, notice | the agreement side's properties, seventeen in all |
| `payout_race` (violated) | success, payout, refund, 2 workers | see section 5 |
| `late_failure` (violated) | a charge and a manual payment, one fault | see section 5 |
| `refund_reopens` (violated) | success, and a refund through the service; everything is delivered; fair | see section 5 |
| `signed_is_not_draft` (violated) | terms | see section 5 |
| `reversed_roles` (violated) | accounts of both parties | see section 5 |
| `lost_document` (violated) | document | see section 5 |

### Fairness

* A worker, request, sweep or batch that is running takes its next step: it is a thread of
  control in a process that runs. That a process dies is a fault, and faults are bounded, as
  they must be for anything to be settled.
* Leases of dead workers run out and backoffs elapse: that is the clock.
* A submission ends.
* An event that can be claimed again and again is claimed (strong fairness, because it may
  become unclaimable in between): the provider delivers at least once, and the scheduler
  takes eligible rows oldest first, so a row cannot be passed over for good. Sweeps over
  retries and the repair batch are scheduled in the same way.
* The provider settles every charge it took on and reports it.

No fairness is assumed of faults, due dates, or of what users do.

## 5. Findings

Each has a run in which TLC finds the violation.

* `payout_race`: `ledger/ledgerService.ts:250` says a payout is "Blocked once a payment has
  been refunded/reversed/disputed". Check and insert are separate statements, and so are
  those of `reversePayment`; a payout notice and a refund processed at the same time both
  pass. The proceeds account is overdrawn and no clawback exposure is booked.
* `late_failure`: the `try` block of `submitToProvider` holds the audit write, too. When that
  fails after the provider took the payment on, the catch block writes `failed` over the
  success the webhook recorded meanwhile; before its ledger entry is in, the installment can
  be reserved again and is credited twice.
* `refund_reopens`: after a refund through the service the provider's own event finds nothing
  to do, and the repair batch books the refund without reopening the installment.
* `signed_is_not_draft`: a rejection that was checked before another request of the creditor
  accepted is written by id after both parties signed. `src/docs/STATE_MACHINES.md:78` says a
  signed agreement never returns to `Draft`.
* `reversed_roles`: once an agreement with reversed roles governs a relationship, nobody can
  change a slot that still holds the other party's account.
* `lost_document`: the PDF is stored, then recorded. When the process dies in between, every
  later generation is refused by the file that is there, and the document the comments call
  recoverable is missing for good.

Observations made while translating, which follow from the actions and have no run:

* Payments. A repair that races the event which made a payment succeed may book the fee of a
  success flagged `processor_fee_mismatch`. The look-up of trusted events returns two rows,
  oldest first (`drizzlePaymentWebhookEventRepository.ts:287`), so dead events may hide the
  one that carries the transition. The audit row of a ledger entry is lost when the process
  dies after the insert (`ledgerService.ts:168`): the retry finds the entry and returns.
  Status checks at `paymentService.ts:577`, `:693`, `:768` and `:924` are followed by writes by
  id.
* Agreements. `markMutuallyCanceled` writes by id (`agreementService.ts:805`) although its
  comment describes a conditional write. A cancellation may be accepted although the agreement
  has been paid meanwhile (`agreementCancellationService.ts:119`). After the race of
  `signed_is_not_draft` the view tells both parties to wait.
* Amendments and settlements. Neither proposal checks the agreement's status: a pause
  amendment can revive a canceled agreement, and an amendment applied while signatures are
  awaited leaves the agreement unsignable. A withdrawal or rejection written by id
  (`amendmentService.ts:311`) may mark an amendment that is applied, or precede its
  application, although `src/docs/STATE_MACHINES.md:158` excludes it. One party signing twice
  at once applies an amendment twice; a crash leaves one `signed` and not applied (`:362`); a
  counterproposal may be written late (`:283`).
* Settlements. A counteroffer of a second user of the same party, written after the first
  one's acceptance (`settlementService.ts:283`), changes the amount of a settlement that
  awaits payment or is completed: the agreement may be settled in full for the amount that
  who completed it had read, and the row shows another. That is why `CollectsItsAmount` speaks
  of the amount that was found awaited. The deadline job sums, then writes the failure by id
  (`:409`): a payment linked in between is defaulted on, and a settlement completed in between
  goes from `completed` to `failure_consequence_applied` while its agreement is settled. No
  property that holds says otherwise. A completed settlement may leave its agreement unsettled
  when the process dies (`:384`).
* Partial payments. A second acceptance or rejection of the same party, written late, overwrites
  `applied` (`partialPaymentService.ts:229`), and a proposal opened again in this way can be
  paid again; it still names the payment that used it up, which is what
  `PaidIsAppliedOrSurfaced` says. `recordPayment` may replace the payment that consumes the
  proposal (`partialPaymentAutoApplicationService.ts:126`,
  `partialPaymentService.ts:64`); a payment initiated or retried after expiry ends as conflict
  evidence. The walk from the payment to its retry at expiry is one step here, under the
  agreement's lock.
* Invitations. Expiry by id may overwrite `accepted`; a crash between `claimAcceptance` and
  `createDraft` consumes the invitation (`agreementInvitationService.ts:570`); two accounts
  that both read it unbound can rebind the recipient; either side may accept terms it proposed
  itself. In the relationship's invitation, `markViewed` may reopen an answered one, and
  expiry may cancel a relationship that was just accepted.
* Accounts. Disabling and assigning check before they act; a verification result may be
  written over `disabled`; two agreements linked at once both pass the check of the roles; the
  same token connected twice at once makes two rows. The pair resolver matches active
  participants only, so a pending connection is not reused.
* Documents. A signer's request prints the agreement as it is when the PDF is made; an
  evidence upload that dies after storing is refused for good; who loses a concurrent
  generation is told that no PDF exists.
* Notifications. A process that dies between the provider's answer and `markSent` sends again
  or leaves the row pending; overlapping sweeps would send twice.

## 6. Proofs

Every theorem holds for every value of the constants that the named assumption of its module
allows (`ConstantsAssumption`, `ServiceAssumption`, ...: kinds and ranges, nothing about the
number of actors; where amounts are added up, that the rows are finitely many). None of the
properties is inductive, but for `OneCompensation`. What is missing is always of the same
kind: what a request, worker or sweep *has in hand* between its read and its write, and why
that is still true when it writes. The invariants below say this, actor by actor. Each holds
initially, is kept by every action, and implies the property. TLC checked them on the scenes
of their components before they were proved.

### Inductions over data: `SumProofs`

A sum over a set and a date some days later are defined by recursion. Rules of induction that
take a formula for a parameter are out of the provers' reach, so an induction is written as a
smallest counterexample: inclusion is well-founded on the subsets of a finite set
(`SmallestSubset`), as `<` is on the numbers (`LeastNumber`), a smallest set or number that
fails is not the empty one, and what is left of it without one element does not fail. From
this follow what a recursive function computes at a step, that a sum is a number, grows by
what is added to the set, is no more for fewer terms, and depends on the terms only.

### The pipeline: `PaymentWebhookProofs`, `PipelineProofs`

* `TypeCorrect`, `Spec => []TypeOK`. A step of a worker that holds no event could write
  anything; `TypeInv` adds `Holding`.
* `ProcessedForGood`, `Spec => ProcessedIsFinal`. `Fenced`: at most one worker has a row's
  token, and a row whose token somebody has is being processed; so only an owner's
  finalization can write, and it does not find a processed row.
* `EveryStatusHasOneAuthor`, `Spec => []StatusHasOneAuthor`. `AuthorInv` adds `Unmarked` (the
  owner's copy of the marker is the row's, so no marker is overwritten) and `Submitted` (a
  payment whose provider id is not known has not moved, so the unconditional write of a
  submission overwrites nothing).
* `CompensatedOnce`, `Spec => []OneCompensation`: the marker is written in the transaction
  that decides.
* `NothingLeftUndone` (`ProcessedMeansDone`), `NothingLetGoEarly` (`NoOutcomeDropped`),
  `NothingSettledInSilence` (`DisagreementIsSurfaced`) and `MoneyIsEarned` (`ClearedIsEarned`)
  rest on one invariant, `PipeInv`, the last two with `FeesInv` about the fees besides.
  `PipeInv` is `AuthorInv`, the range of statuses, `MarkedIsSound`, and `Knows(w)`, what a worker at each of its steps may rely on although it may have been
  overtaken: the event passed the evidence checks; a marker it saw is there; the entries,
  audit rows and exceptions of the steps behind it are in; the entry it is about to insert is
  one that its event may cause; a status it has judged by has at most moved on.
  The argument is `Growth`: no step takes back a ledger entry, an audit row or an exception, a
  status only moves forward, a marker is set once and on sound evidence, a processed row stays.
  So everything a worker has established stays established, whoever else works on the row.
* `PipelineImplementsLifecycle`, `Spec => ImplementsLifecycle`: a transition is a `Resolve` or
  a `Supersede`, an insert a `Clear`, `Reverse` or `PayOut`, the end of a submission an
  `Accept`, all else a stutter. The mapping takes a payment to its status and to the types of
  its entries.

* `NothingPaidUncovered` (`PaidIsCovered`) and `NoRetryWhenCovered` (`NoRetryOfCovered`): what
  the schedule says against what the ledger adds up to. `CoverInv` is `PipeInv` with four
  parts. `PaidUntilReversed` says whose turn it is when a paid installment is no longer
  covered: an event with a marker that has not left its compensation mark; and because
  marks come after entries (`CompensatedIsPosted`), the row is recomputed when the reversal is
  in. `PaidInFullUntilReversed` says the same of the agreement, of an event that no owner has
  brought past its reopening (`Reopens`). `RetryIsNeeded` is the one that took finding: a
  success posts its entry several transactions before it calls the retry off, so a retry may
  stand although the installment is covered. What stays true is that the payments whose
  success has come to the schedule (`Considered`) do not cover it.
* `OnlyEvidenceIsBooked`, `RSpec => []BookedOnEvidence`, with the repair batch and the refund
  through the service beside the pipeline. `PipeInv` does not survive there: the refund writes a
  status without a marker, and authorship is lost. `EvidenceInv` needs less: what a worker
  carries towards an insert (`HandsSound`) and what the batch has planned from its old read
  (`BatchSound`) stands on sound evidence, and evidence does not change.
* `CompletionWithRepairs`, `RSpec => []CompletionIsEarnedWithoutRefunds`, and
  `RepairsDisturbNothing`: as long as no refund through the service has written a status
  (`IsRefunded`), the batch takes back nothing that the pipeline promises when it is alone:
  authorship, `ProcessedMeansDone`, `NoOutcomeDropped`, `PaidIsCovered`, `NoRetryOfCovered`.
  `RepairInv` is `EvidenceInv` and, until then, `CoverInv` and `BatchFits`: the candidate's
  status is the one that was read, or a success that has been superseded since. `Mends` is all
  that a step of the batch may write, and `MendPosts` the heart of it: whatever the batch
  inserts, the event that moved the payment to the status it read has a marker and has not
  posted the entry itself, so it still has its turn at the schedule and at the agreement.
  What the batch does change is the fee: it may book a clearing from another success than the
  one that moved the payment. So what `NothingSettledInSilence` and `MoneyIsEarned` need of
  the fees is an invariant of its own, `FeesInv`, of the pipeline alone.

Steps are examined one action at a time for types, for `Growth` and for `Knows`; authorship is
proved for the seven kinds into which `StepKinds` sorts every step.

### Payments: `PaymentServiceProofs`, `PaymentRetryProofs`

* `KeysAnswerForTheirRequest` (`ReplayIsSame`). `ServiceInv`: from the statement that finds or
  writes its row until it is answered, a request holds the row it asked for. Rows are never
  removed, and nobody rewrites what was asked for, though statuses are written by key.
* `RowsTellWhatWasCharged` (`RowsMatchCharges`). The hard case is an anchor that is closed
  because the installment is covered: the provider may have taken its charge on in a
  transaction that was rolled back. `RetryInv` has `AnchorMatches`: if a submitted anchor has
  a charge then it is within what is due, and `OneActive`: one attempt at most may draw money
  that the ledger does not show. So nobody can pay as long as the anchor waits, the charge
  stays within what is due, and the anchor is not closed. `SweepKnows` says what a sweep has
  found out, and that it cannot become untrue.
* `RetriesNeverOvercharge` (`NotOvercharged` of `PaymentRetry`): `MoneyInv` adds the sum of what
  was drawn or may be. Beyond what is posted it has one charge at most (`OneActive`), and that
  one was let through under the ceiling or is looked at again before it is sent.

### Agreements: `AgreementProofs`

About `AgreementSpec`: the agreement, its amendments and its settlements, racing each other;
and about `PartialSpec`.

* `AgreementTypeCorrect` (`TypesOK`), `ForceNeedsSignatures` (`InForceIsSigned`),
  `LineageStaysLinear` (`LineageIsLinear`), `SignedAgreementsStay` (`SignedIsKept`) and
  `NobodyCancelsAlone` (`CancellationIsMutual`). `LifeInv` says of the rows that a version is
  locked when both have signed, that versions form one line and the agreement points at the
  last; and of every request (`RequestOK`) what it has read that is still so. `AmendmentInv` and `SettlementInv`
  do the same for the requests of the other two. `SignedLeavesEvidence` is needed for the
  foreign key that stops a late `deleteDraft`.
* `SignaturesAreForAcceptedTerms` (`SignedAsAccepted`) is proved of the lifecycle alone. It
  does not hold for every number of versions once amendments take part: an amendment applied
  while signatures are awaited puts terms before the parties that were agreed elsewhere
  (section 5).
* `TurnsStayClear` (`TurnsAreClear`): the view is computed on its own from the rows, and agrees
  with the services because a version is locked exactly when both have signed it and because
  of what `LifeInv` says of the current version in each status.
* `SettlementsCollect` (`CollectsItsAmount`). `CollectInv`: a payment is recorded with the
  settlement it is bound to; whoever is about to complete a settlement, a party or the job, has
  seen it collect the amount that it read, and stays right because payments are never unlinked
  nor bound to another settlement. What others decide or counter meanwhile does not matter:
  the ceiling is looked at under the lock, with the amount of that moment.
* `UnpaidWhenExpired` (`ExpiresOnlyUnpaid`). `PartialInv`: a payment that has a retry failed
  before, so nothing of it will clear; the charge of a retry that was called off failed with
  it. So what the expiry does not walk to cannot clear.
* `PaidIsDealtWith` (`PaidIsAppliedOrSurfaced`). `DealtInv`: who is about to mark a success as
  processed has seen the proposal name a payment or has left evidence; and a proposal that
  names a payment goes on naming one, because an answer, however late, writes the status
  alone, and who records a payment by hand has one in hand.

Neither assumes anything about who acts: any number of users of each party may have requests
under way.

### Invitations and records: `RecordProofs`, `NotificationProofs`

* `InvitationMakesOneAgreement` (`OneAgreementPerInvitation`): `InvitationInv` has
  `DraftIsClaimed`, that whoever is about to make a draft has won the guarded write.
* `RelationshipAnsweredOnce` (`AnsweredOnce`): `InviteInv` says where a request stands between
  its guarded write and the rows it makes after it.
* `RecordedDocumentsStay` (`KeepsDocuments`): a request about to record a document has stored
  its own rendering, which nobody can overwrite.
* `SlotsHaveOneHistory` (`SlotHistoryIsOneLine`): `FilledStaysFilled`, that a slot once filled
  is never left empty, because a replacement is one transaction; so a first assignment never
  starts a second line.
* `AuditTrailIsOneChain` (`ChainIsLinear`): `AppendIsFresh`, that only the holder of the
  advisory lock has a tail, that tail is the last committed row, and ids handed out are
  greater than all before.
* `SchedulesAreExact` (`ScheduleIsExact`): amounts add up to the principal by an induction over
  the items (`TotalIs`: who shows one way to add them up has the total). For the dates, `NextDay`
  moves the closed form `DayNumber` on by one, by cases over months and leap years; so the day n
  days later is the one n further on, and a later one; and months are counted through. First
  dates are dates of the year 100 or later: `Date.UTC` takes a smaller year for one of the
  last century.
* `NobodyIsToldTwice` (`ToldOnce`): the invariant counts. Rows sent, deliveries under way and
  a row that the retry job has read or may still read are together at most one more than the
  redeliveries (`Allowed`).
* `NobodyIsTextedAgainstTheirWill` (`TextsAreConsented`): `TextInv` follows one text from the
  row to the provider while the user changes numbers, opts out, consents and withdraws.

### What the proofs changed

Two operators of the pipeline (`AfterReplay`, `repairFinancialEffects`) were written with
`CASE` arms that overlap; TLC takes the first, the logic allows either. They are chains of
conditions now, in the order of the code. `Agreement` became a module of its own so that the
composition could be reasoned about, and the foreign keys from amendments and settlements,
which the proof of `SignedIsKept` needs, are part of it.

`ExpiresOnlyUnpaid` could not be proved of a lineage of any length, because a retry of a retry
that was called off between two looks was not walked to. The code makes no such lineage: the
charge of a retry is never retried. The model says so now.

### Only model-checked

* Liveness and whatever depends on fairness: out of the prover's reach.
* Properties that hold in the instances and not for all constants, because of a write by id
  that another write may have preceded:
  `OneUnresolvedAttempt` and `NotOvercharged` of `PaymentService` (when a key has two
  submitters, or a cancellation by id meets a submission, the one that was held up writes its
  status over the other's, and a resolved attempt is unresolved again),
  `ProceedsNotOverdrawn` (a payout notice and a refund processed at the same time:
  `payout_race`).

`SignedStays` of `MCAgreement`, checked on the agreement and its documents together, joins what
`SignedAgreementsStay` and `RecordedDocumentsStay` prove of each.

## 7. Not modelled

* Disputes between the parties: a row whose status is written by id, with no effect on
  payments or agreements.
* Authentication, sessions and second factors: access control. The number that consent
  depends on is in `Notification`.
* ACH, debit-card and card-on-file wrappers: they check a mandate or a card and call the
  payment service; card and KYC events insert one row or find a duplicate.
* Profiles, KYC, business onboarding, staff, admin, risk, compliance: records written by
  their owner, decisions by id, reports.
* Of relationships: restriction by an administrator, the pair resolver, the confirmation in
  the wizard, `syncFromAgreement`. Of the ledger: `postAdminAdjustment` and audit rows. Of
  reconciliation: the administrator's scans and the off-platform branch. Of retries: the
  repair of lineages written by older versions. Of evidence: withdrawal, flags, witnesses.
* CSV import, pricing, flags, rate limits, errors: parsing, constants, single upserts.
  `KeyedMutex` serves the tests' fakes only.
* HTTP routes, user interface, schema and migrations, more than half of the repository's
  lines: parsing, authorization and rendering around the services. The unique indexes and
  foreign keys that the repositories rely on are part of the actions that rely on them.
