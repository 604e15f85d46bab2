---------------------------- MODULE PipelineProofs ----------------------------
(***************************************************************************)
(* What the pipeline of PaymentWebhook leaves behind, for any number of    *)
(* payments, installments, events, workers and faults: that nothing is     *)
(* finished before it is done, let go while it is within reach, or settled *)
(* in silence; that money is booked on sound evidence only; that every     *)
(* payment lives the life of PaymentLifecycle; and that the schedule calls *)
(* paid what the ledger covers and retries what it does not.  With the     *)
(* repair batch of Reconciliation beside it: that only evidence is booked, *)
(* and that the batch disturbs none of the rest.                           *)
(***************************************************************************)
EXTENDS PaymentWebhookProofs, Reconciliation, SumProofs

------------------------------------------------------------------------------
\* The inductive invariant, part by part.

Marked(e)   == event[e].from # "none"
IsPayout(e) == TypeOf[e] = "payout.paid" /\ e \notin Foreign

\* The outcome of e is out of reach of a payment in status s.
Dropped(e, s) == s \notin Unresolved /\ (Supersedes(e) => s # "succeeded")

\* What ProcessedMeansDone, NoOutcomeDropped and DisagreementIsSurfaced ask
\* of a processed event.
EffectsDone(e) ==
  LET p == PaymentOf[e] IN
  /\ Marked(e) => <<e, "transition">> \in audit
  /\ Marked(e) /\ Dest(e) = "succeeded" =>
       /\ Posted(ledger, p, "payment_cleared")
       /\ \/ payment[p].lifecycleChecked
          \/ \E f \in Event : /\ IsAuthor(f, p) /\ Supersedes(f)
                              /\ event[f].status = "processed"
  /\ Marked(e) /\ Supersedes(e) =>
       Posted(ledger, p, ReversalEntryOf(TypeOf[e])) /\ IsCompensated(e)
  /\ IsPayout(e) => /\ Posted(ledger, p, "payout")
                    /\ payment[p].payoutCompleted
                    /\ <<e, "payout">> \in audit

LetGo(e) ==
  ~Marked(e) /\ IsSound(e) => Dropped(e, payment[PaymentOf[e]].status)

OutcomeKnown(e) ==
  IsSound(e) =>
    \/ \E f \in Event : IsAuthor(f, PaymentOf[e]) /\ Dest(f) = Dest(e)
    \/ <<"status_mismatch", e>> \in exceptions

Finished(e) == EffectsDone(e) /\ LetGo(e) /\ OutcomeKnown(e)

\* Every clearing carries its payment's amount.
Exact(L) ==
  \A en \in L :
    en.entryType = "payment_cleared" => en.gross = AmountOf[en.payment]

\* A payment is never in a status of the cancelable, and one the provider
\* knows is past submission.
StatusRange ==
  \A p \in Payment :
    /\ payment[p].status \in
         {"submitted", "processing", "succeeded", "failed"} \cup Superseding
    /\ payment[p].id => payment[p].status # "submitted"

MarkedIsSound == \A e \in Event : Marked(e) => IsSound(e)

FinishedWhenProcessed ==
  \A e \in Event : event[e].status = "processed" => Finished(e)

\* What a worker knows of its event at each step, from the checks it passed.
AboutOutcome ==
  {"transition", "reread", "audit", "conflict", "ledger", "disposition",
   "workflow", "completion", "lifecycle"}

KnowsEvent(w) ==
  LET e == EventOf(w)
      pc == worker[w].pc
  IN
  /\ pc \in AboutOutcome => IsSound(e)
  /\ pc \in {"payout", "stampPayout", "auditPayout"} => IsPayout(e)
  /\ pc \in {"disposition", "lifecycle"} => TypeOf[e] = "payment.succeeded"
  /\ pc = "completion" => TypeOf[e] = "payment.succeeded" \/ Supersedes(e)
  /\ pc = "insert" =>
       \/ IsPayout(e)
       \/ IsSound(e) /\ (TypeOf[e] = "payment.succeeded" \/ Supersedes(e))

\* Past the transition there is a marker; at a conflict the worker saw none.
KnowsMarker(w) ==
  LET e == EventOf(w)
      pc == worker[w].pc
  IN
  /\ pc # "idle" /\ worker[w].from # "none" => Marked(e)
  /\ pc \in AboutOutcome \ {"transition", "conflict"} => worker[w].from # "none"
  /\ pc = "insert" /\ ~IsPayout(e) => worker[w].from # "none"
  /\ pc = "conflict" => worker[w].from = "none"

\* The effects that come before the step a worker is at are there.
KnowsBooks(w) ==
  LET e == EventOf(w)
      p == Target(w)
      pc == worker[w].pc
  IN
  /\ \/ pc \in {"ledger", "disposition", "workflow", "completion", "lifecycle"}
     \/ pc = "insert" /\ ~IsPayout(e)
     => <<e, "transition">> \in audit
  /\ /\ pc \in {"disposition", "workflow", "completion", "lifecycle"}
     /\ TypeOf[e] = "payment.succeeded"
     => Posted(ledger, p, "payment_cleared")
  /\ pc \in {"workflow", "completion"} /\ Supersedes(e) =>
       Posted(ledger, p, ReversalEntryOf(TypeOf[e]))
  /\ pc = "completion" /\ Supersedes(e) => IsCompensated(e)
  /\ pc \in {"stampPayout", "auditPayout"} => Posted(ledger, p, "payout")
  /\ pc = "auditPayout" => payment[p].payoutCompleted

\* A planned entry is the one its event asks for.
PlanFits(e, en) ==
  LET p == PaymentOf[e] IN
  /\ en.payment = p
  /\ \/ /\ TypeOf[e] = "payment.succeeded"
        /\ en = ClearedPlan(p, AmountOf[p], FeeIn[e], PlatformFee)
        /\ ~FeesExceedGross(AmountOf[p], FeeIn[e], PlatformFee)
     \/ /\ Supersedes(e)
        /\ en.entryType = ReversalEntryOf(TypeOf[e])
        /\ Posted(ledger, p, "payment_cleared")
     \/ /\ TypeOf[e] = "payout.paid"
        /\ en.entryType = "payout"
        /\ Posted(ledger, p, "payment_cleared")

KnowsPlan(w) ==
  worker[w].pc = "insert" =>
    \A en \in worker[w].plan : PlanFits(EventOf(w), en)

\* At a conflict the outcome is out of reach; a success read there may have
\* been superseded since.
KnowsStatus(w) ==
  worker[w].pc = "conflict" =>
    LET s == payment[Target(w)].status
        current == worker[w].current
    IN
    /\ Dropped(EventOf(w), current)
    /\ s = current \/ (current = "succeeded" /\ s \in Superseding)

KnowsDone(w) ==
  worker[w].pc = "processed" /\ worker[w].owner => Finished(EventOf(w))

Knows(w) ==
  /\ KnowsEvent(w) /\ KnowsMarker(w) /\ KnowsBooks(w)
  /\ KnowsPlan(w) /\ KnowsStatus(w) /\ KnowsDone(w)

PipeInv ==
  /\ AuthorInv
  /\ StatusRange /\ MarkedIsSound /\ Exact(ledger) /\ FinishedWhenProcessed
  /\ \A w \in Worker : Knows(w)

------------------------------------------------------------------------------
\* What every step keeps.

\* How a status may move.
Forward(s, t) ==
  \/ t = s
  \/ s = "submitted" /\ t = "processing"
  \/ s = "processing" /\ t \in {"succeeded", "failed"}
  \/ s = "succeeded" /\ t \in Superseding

\* The books, the audit log and the exceptions are only ever added to.
BooksGrow ==
  ledger \subseteq ledger' /\ audit \subseteq audit'
    /\ exceptions \subseteq exceptions'

\* A payment moves forward and keeps its stamps.
PaymentsGrow ==
  \A p \in Payment :
    /\ Forward(payment[p].status, payment'[p].status)
    /\ payment[p].payoutCompleted => payment'[p].payoutCompleted
    /\ payment[p].lifecycleChecked => payment'[p].lifecycleChecked

\* A marker stays, and is set by sound evidence for a status that the
\* payment may take; a processed row stays as it is.
MarkersGrow ==
  \A e \in Event :
    /\ Marked(e) => event'[e].from = event[e].from
    /\ ~Marked(e) /\ event'[e].from # "none" =>
         /\ IsSound(e)
         /\ payment[PaymentOf[e]].status \in AllowedSources(Dest(e))
    /\ event[e].status = "processed" => event'[e] = event[e]

Grows == BooksGrow /\ PaymentsGrow /\ MarkersGrow

\* No step takes back a ledger entry, an audit row or an exception.
LEMMA BooksOnlyGrow == [Next]_vars => BooksGrow
<1> SUFFICES ASSUME [Next]_vars PROVE BooksGrow
  OBVIOUS
<1>1. CASE UNCHANGED vars
  BY <1>1 DEF vars, BooksGrow
<1>2. ASSUME NEW w \in Worker, insertEntry(w) PROVE BooksGrow
  BY <1>2 DEF insertEntry, InsertIdempotently, BooksGrow
<1>3. ASSUME NEW w \in Worker, Step(w), ~insertEntry(w) PROVE BooksGrow
  <2>1. ledger' = ledger
    BY <1>3
    DEF Step, LookupPayment, applyTransition, RereadPayment,
        recordTransitionAudit, detectAndRecordConflict, postPaymentCleared,
        reversePayment, NoLedgerEntry, postPayout,
        markPayoutCompleted, recordPayoutAudit,
        evaluateSuccessEffectDisposition, coordinateSuccess, coordinateFailure,
        coordinateSupersession, decideAndApply, markLifecycleChecked,
        recomputeAfterSupersession, Finalize, markProcessed,
        markFailedRetryable, markFailedPermanent
  <2>2. audit \subseteq audit'
    BY <1>3
    DEF Step, LookupPayment, applyTransition, RereadPayment,
        recordTransitionAudit, detectAndRecordConflict, postPaymentCleared,
        reversePayment, NoLedgerEntry, postPayout,
        markPayoutCompleted, recordPayoutAudit,
        evaluateSuccessEffectDisposition, coordinateSuccess, coordinateFailure,
        coordinateSupersession, decideAndApply, markLifecycleChecked,
        recomputeAfterSupersession, Finalize, markProcessed,
        markFailedRetryable, markFailedPermanent
  <2>3. exceptions \subseteq exceptions'
    BY <1>3
    DEF Step, LookupPayment, applyTransition, RereadPayment, Record,
        recordTransitionAudit, detectAndRecordConflict, postPaymentCleared,
        reversePayment, NoLedgerEntry, postPayout,
        markPayoutCompleted, recordPayoutAudit,
        evaluateSuccessEffectDisposition, coordinateSuccess, coordinateFailure,
        coordinateSupersession, decideAndApply, markLifecycleChecked,
        recomputeAfterSupersession, Finalize, markProcessed,
        markFailedRetryable, markFailedPermanent
  <2> QED
    BY <2>1, <2>2, <2>3 DEF BooksGrow
<1>4. CASE Next /\ ~\E w \in Worker : Step(w)
  BY <1>4
  DEF Next, tryInsertAndClaim, claimExisting, Crash, TransientError,
      LeaseExpires, BackoffElapses, DueDatePasses, PersistProviderPaymentId,
      BooksGrow
<1> QED
  BY <1>1, <1>2, <1>3, <1>4 DEF Next

\* Every payment's stamps stay.
LEMMA StampsStay ==
  ASSUME TypeInv, [Next]_vars
  PROVE  \A p \in Payment :
           /\ payment[p].payoutCompleted => payment'[p].payoutCompleted
           /\ payment[p].lifecycleChecked => payment'[p].lifecycleChecked
<1>a. /\ payment \in [Payment -> PaymentRow]
      /\ \A w \in Worker : worker[w].pc # "idle" => Target(w) \in Payment
  BY ConstantsAssumption DEF TypeInv, TypeOK, Holding, Target, EventOf
<1>1. CASE UNCHANGED vars
  BY <1>1 DEF vars
<1>2. ASSUME NEW w \in Worker, Step(w), payment' # payment
      PROVE  \/ applyTransition(w) \/ markPayoutCompleted(w)
             \/ markLifecycleChecked(w)
  BY <1>2
  DEF Step, LookupPayment, RereadPayment,
      recordTransitionAudit, detectAndRecordConflict, postPaymentCleared,
      reversePayment, NoLedgerEntry, postPayout, insertEntry,
      recordPayoutAudit,
      evaluateSuccessEffectDisposition, coordinateSuccess, coordinateFailure,
      coordinateSupersession, decideAndApply,
      recomputeAfterSupersession, Finalize, markProcessed,
      markFailedRetryable, markFailedPermanent
<1>3. CASE Next /\ ~(\E w \in Worker : Step(w)) /\ payment' # payment
  <2>1. PICK p \in Payment : PersistProviderPaymentId(p)
    BY <1>3
    DEF Next, tryInsertAndClaim, claimExisting, Crash, TransientError,
        LeaseExpires, BackoffElapses, DueDatePasses
  <2> QED
    BY <1>a, <2>1 DEF PersistProviderPaymentId, PaymentRow
<1>4. ASSUME NEW w \in Worker, applyTransition(w), payment' # payment
      PROVE  \A p \in Payment :
               /\ payment[p].payoutCompleted => payment'[p].payoutCompleted
               /\ payment[p].lifecycleChecked => payment'[p].lifecycleChecked
  <2>1. payment' = [payment EXCEPT ![Target(w)].status = Dest(EventOf(w))]
    BY <1>4 DEF applyTransition
  <2> QED
    BY <1>a, <2>1 DEF PaymentRow
<1>5. ASSUME NEW w \in Worker, markPayoutCompleted(w)
      PROVE  \A p \in Payment :
               /\ payment[p].payoutCompleted => payment'[p].payoutCompleted
               /\ payment[p].lifecycleChecked => payment'[p].lifecycleChecked
  BY <1>a, <1>5 DEF markPayoutCompleted, PaymentRow
<1>6. ASSUME NEW w \in Worker, markLifecycleChecked(w)
      PROVE  \A p \in Payment :
               /\ payment[p].payoutCompleted => payment'[p].payoutCompleted
               /\ payment[p].lifecycleChecked => payment'[p].lifecycleChecked
  BY <1>a, <1>6 DEF markLifecycleChecked, PaymentRow
<1> QED
  BY <1>1, <1>2, <1>3, <1>4, <1>5, <1>6 DEF Next

\* What a worker at its transition knows of its event and its payment.
LEMMA AtTransition ==
  ASSUME PipeInv, NEW w \in Worker, worker[w].pc = "transition"
  PROVE  /\ EventOf(w) \in Event /\ Target(w) \in Payment
         /\ IsSound(EventOf(w))
         /\ Dest(EventOf(w)) \in {"succeeded", "failed"} \cup Superseding
         /\ payment[Target(w)].status \in
              {"processing", "succeeded", "failed"} \cup Superseding
<1>1. EventOf(w) \in Event /\ Target(w) \in Payment
  BY ConstantsAssumption
  DEF PipeInv, AuthorInv, TypeInv, Holding, EventOf, Target
<1>2. IsSound(EventOf(w))
  BY DEF PipeInv, Knows, KnowsEvent, AboutOutcome
<1>3. payment[Target(w)].id
  BY DEF PipeInv, AuthorInv, Unmarked, Target, EventOf
<1>4. Dest(EventOf(w)) \in {"succeeded", "failed"} \cup Superseding
  BY <1>2, DestType DEF IsSound, Dest
<1> QED
  BY <1>1, <1>2, <1>3, <1>4 DEF PipeInv, StatusRange

\* A transition is a move forward.
LEMMA TransitsForward ==
  ASSUME PipeInv, NEW w \in Worker, Transits(w)
  PROVE  /\ \A p \in Payment : Forward(payment[p].status, payment'[p].status)
         /\ StatusRange'
         /\ \A e \in Event : event'[e] # event[e] => e = EventOf(w)
<1>1. PICK e \in Event : e = EventOf(w)
  BY AtTransition DEF Transits
<1>2. PICK p \in Payment : p = Target(w) /\ p = PaymentOf[e]
  BY <1>1, AtTransition DEF Transits, Target
<1>3. PICK s \in {"processing", "succeeded", "failed"} \cup Superseding :
        s = payment[p].status
  BY <1>2, AtTransition DEF Transits
<1>4. PICK d \in {"succeeded", "failed"} \cup Superseding : d = Dest(e)
  BY <1>1, AtTransition DEF Transits
<1>5. /\ s \in AllowedSources(d)
      /\ payment'[p].status = d /\ payment'[p].id = payment[p].id
      /\ \A q \in Payment : q # p => payment'[q] = payment[q]
      /\ \A f \in Event : f # e => event'[f] = event[f]
  BY <1>1, <1>2, <1>3, <1>4 DEF Transits, EventOf
<1>6. Forward(s, d)
  BY <1>5, SourcesOf DEF Forward, Unresolved, Superseding
<1>7. \A q \in Payment : Forward(payment[q].status, payment'[q].status)
  BY <1>3, <1>5, <1>6 DEF Forward
<1>8. StatusRange'
  BY <1>5 DEF PipeInv, StatusRange, Superseding
<1> QED
  BY <1>1, <1>5, <1>7, <1>8

\* Every step grows what it touches, and keeps the statuses in range.
LEMMA Growth ==
  ASSUME PipeInv, [Next]_vars
  PROVE  Grows /\ StatusRange'
<1>1. TypeInv /\ StepKind /\ BooksGrow
  BY StepKinds, BooksOnlyGrow DEF PipeInv, AuthorInv
<1>2. \A p \in Payment :
        /\ payment[p].payoutCompleted => payment'[p].payoutCompleted
        /\ payment[p].lifecycleChecked => payment'[p].lifecycleChecked
  BY <1>1, StampsStay
<1>3. /\ \A p \in Payment : Forward(payment[p].status, payment'[p].status)
      /\ StatusRange'
  <2>1. CASE PaymentsKept
    BY <2>1 DEF PaymentsKept, Forward, PipeInv, StatusRange
  <2>2. ASSUME NEW w \in Worker, Transits(w)
        PROVE  /\ \A p \in Payment :
                    Forward(payment[p].status, payment'[p].status)
               /\ StatusRange'
    BY <2>2, TransitsForward
  <2>3. ASSUME NEW p \in Payment, Persists(p)
        PROVE  /\ \A q \in Payment :
                    Forward(payment[q].status, payment'[q].status)
               /\ StatusRange'
    <3>1. payment[p].status = "submitted"
      BY <2>3 DEF PipeInv, AuthorInv, Submitted, Persists
    <3> QED
      BY <2>3, <3>1 DEF Persists, Forward, PipeInv, StatusRange
  <2> QED
    BY <1>1, <2>1, <2>2, <2>3
    DEF StepKind, Advances, Releases, Takes, Ticks, Rests
<1>4. MarkersGrow
  <2>1. ASSUME NEW w \in Worker, Transits(w) PROVE MarkersGrow
    <3>1. PICK e \in Event : e = worker[w].event
      BY <2>1, AtTransition DEF Transits, EventOf
    <3>2. /\ event[e].from = "none" /\ event[e].status = "processing"
      BY <2>1, <3>1 DEF PipeInv, AuthorInv, Unmarked, Fenced, Transits
    <3>3. IsSound(e) /\ payment[PaymentOf[e]].status \in AllowedSources(Dest(e))
      BY <2>1, <3>1, AtTransition DEF Transits, EventOf
    <3>4. \A f \in Event : f # e => event'[f] = event[f]
      BY <2>1, <3>1 DEF Transits
    <3> QED
      BY <3>2, <3>3, <3>4 DEF MarkersGrow, Marked
  <2>2. ASSUME NEW w \in Worker, Releases(w) PROVE MarkersGrow
    <3>1. \A f \in Event : event[f].status = "processed" =>
            f # worker[w].event \/ ~worker[w].owner
      BY DEF PipeInv, AuthorInv, Fenced
    <3> QED
      BY <2>2, <3>1 DEF MarkersGrow, Marked, Releases
  <2>3. CASE event' = event
    BY <2>3 DEF MarkersGrow, Marked
  <2>4. ASSUME NEW w \in Worker, NEW e \in Event, Takes(w, e)
        PROVE  MarkersGrow
    BY <2>4 DEF MarkersGrow, Marked, Takes
  <2>5. ASSUME NEW e \in Event, Ticks(e) PROVE MarkersGrow
    BY <2>5 DEF MarkersGrow, Marked, Ticks
  <2> QED
    BY <1>1, <2>1, <2>2, <2>3, <2>4, <2>5
    DEF StepKind, Advances, Persists, Rests
<1> QED
  BY <1>1, <1>2, <1>3, <1>4 DEF Grows, PaymentsGrow

\* Markers stay sound.
LEMMA MarkersStaySound ==
  ASSUME PipeInv, Grows
  PROVE  MarkedIsSound'
BY DEF PipeInv, MarkedIsSound, Grows, MarkersGrow, Marked, IsSound

\* Who moved a payment stays its author.
LEMMA AuthorsStay ==
  ASSUME Grows, NEW f \in Event, NEW p, IsAuthor(f, p)
  PROVE  IsAuthor(f, p)'
BY DEF IsAuthor, Grows, MarkersGrow, Marked

\* A new author found its payment in a status that it may move.
LEMMA NewAuthors ==
  ASSUME Grows, NEW f \in Event, NEW p, IsAuthor(f, p)', ~IsAuthor(f, p)
  PROVE  payment[p].status \in AllowedSources(Dest(f))
BY DEF IsAuthor, Grows, MarkersGrow, Marked

\* What is out of reach stays out of reach.
LEMMA DroppedStays ==
  ASSUME PipeInv, Grows, NEW e, NEW p \in Payment,
         Dropped(e, payment[p].status)
  PROVE  Dropped(e, payment'[p].status)
<1>1. Forward(payment[p].status, payment'[p].status)
  BY DEF Grows, PaymentsGrow
<1> QED
  BY <1>1, StatusesApart DEF Dropped, Forward, Unresolved, Superseding

\* An entry that is posted stays posted.
LEMMA PostedStays ==
  ASSUME Grows, NEW p, NEW t, Posted(ledger, p, t)
  PROVE  Posted(ledger', p, t)
BY DEF Posted, Grows, BooksGrow

\* So does a compensation.
LEMMA CompensatedStays ==
  ASSUME Grows, NEW e, IsCompensated(e)
  PROVE  IsCompensated(e)'
BY DEF IsCompensated, Grows, BooksGrow

------------------------------------------------------------------------------
\* What is finished stays finished, what is known stays known.

\* Nothing that a finished event left behind is taken back, and its outcome
\* stays out of reach.
LEMMA FinishedStays ==
  ASSUME PipeInv, Grows, NEW e \in Event, Finished(e),
         event'[e].from = event[e].from
  PROVE  Finished(e)'
<1>1. PICK p \in Payment : p = PaymentOf[e]
  BY ConstantsAssumption
<1>2. Marked(e)' <=> Marked(e)
  BY DEF Marked
<1>3. EffectsDone(e)'
  <2>1. EffectsDone(e) /\ audit \subseteq audit'
    BY DEF Finished, Grows, BooksGrow
  <2>2. Marked(e) => <<e, "transition">> \in audit'
    BY <2>1 DEF EffectsDone
  <2>3. ASSUME Marked(e), Dest(e) = "succeeded"
        PROVE  /\ Posted(ledger', p, "payment_cleared")
               /\ \/ payment'[p].lifecycleChecked
                  \/ \E f \in Event : /\ IsAuthor(f, p)' /\ Supersedes(f)
                                      /\ event'[f].status = "processed"
    <3>1. Posted(ledger', p, "payment_cleared")
      BY <1>1, <2>1, <2>3, PostedStays DEF EffectsDone
    <3>2. CASE payment[p].lifecycleChecked
      BY <3>1, <3>2 DEF Grows, PaymentsGrow
    <3>3. ASSUME NEW f \in Event, IsAuthor(f, p), Supersedes(f),
                 event[f].status = "processed"
          PROVE  IsAuthor(f, p)' /\ event'[f].status = "processed"
      BY <3>3, AuthorsStay DEF Grows, MarkersGrow
    <3> QED
      BY <1>1, <2>1, <2>3, <3>1, <3>2, <3>3 DEF EffectsDone
  <2>4. ASSUME Marked(e), Supersedes(e)
        PROVE  /\ Posted(ledger', p, ReversalEntryOf(TypeOf[e]))
               /\ IsCompensated(e)'
    BY <1>1, <2>1, <2>4, PostedStays, CompensatedStays DEF EffectsDone
  <2>5. ASSUME IsPayout(e)
        PROVE  /\ Posted(ledger', p, "payout")
               /\ payment'[p].payoutCompleted
               /\ <<e, "payout">> \in audit'
    <3>1. /\ Posted(ledger, p, "payout") /\ payment[p].payoutCompleted
          /\ <<e, "payout">> \in audit
      BY <1>1, <2>1, <2>5 DEF EffectsDone
    <3> QED
      BY <2>1, <3>1, PostedStays DEF Grows, PaymentsGrow
  <2> QED
    BY <1>1, <1>2, <2>2, <2>3, <2>4, <2>5
    DEF EffectsDone, IsPayout, Supersedes, Dest
<1>4. LetGo(e)'
  <2> SUFFICES ASSUME ~Marked(e), IsSound(e)
               PROVE  Dropped(e, payment'[p].status)
    BY <1>1, <1>2 DEF LetGo, Dropped, IsSound, Supersedes, Dest
  <2>1. Dropped(e, payment[p].status)
    BY <1>1 DEF Finished, LetGo
  <2> QED
    BY <2>1, DroppedStays
<1>5. OutcomeKnown(e)'
  <2> SUFFICES ASSUME IsSound(e)
               PROVE  \/ \E f \in Event : IsAuthor(f, p)' /\ Dest(f) = Dest(e)
                      \/ <<"status_mismatch", e>> \in exceptions'
    BY <1>1 DEF OutcomeKnown, IsSound, Dest
  <2>1. CASE <<"status_mismatch", e>> \in exceptions
    BY <2>1 DEF Grows, BooksGrow
  <2>2. ASSUME NEW f \in Event, IsAuthor(f, p), Dest(f) = Dest(e)
        PROVE  IsAuthor(f, p)'
    BY <2>2, AuthorsStay
  <2> QED
    BY <1>1, <2>1, <2>2 DEF Finished, OutcomeKnown
<1> QED
  BY <1>3, <1>4, <1>5 DEF Finished

\* A worker that this step does not move, though it may lose its token, knows
\* what it knew.
StaysPut(v) ==
  /\ worker'[v].pc = worker[v].pc
  /\ worker'[v].event = worker[v].event
  /\ worker'[v].from = worker[v].from
  /\ worker'[v].current = worker[v].current
  /\ worker'[v].plan = worker[v].plan
  /\ worker'[v].owner => /\ worker[v].owner
                         /\ event'[worker[v].event].from
                              = event[worker[v].event].from

\* A planned entry goes on fitting its event.
LEMMA PlanStillFits ==
  ASSUME Grows, NEW e \in Event, NEW en, PlanFits(e, en)
  PROVE  PlanFits(e, en)'
<1>1. Posted(ledger, PaymentOf[e], "payment_cleared") =>
        Posted(ledger', PaymentOf[e], "payment_cleared")
  BY PostedStays
<1> QED
  BY <1>1 DEF PlanFits, Supersedes, Dest


\* An idle worker has nothing to know.
LEMMA IdleKnows ==
  ASSUME NEW w \in Worker
  PROVE  /\ worker[w].pc = "idle" => Knows(w)
         /\ worker'[w].pc = "idle" => Knows(w)'
BY DEF Knows, KnowsEvent, KnowsMarker, KnowsBooks, KnowsPlan, KnowsStatus,
       KnowsDone, AboutOutcome

\* A busy worker holds an event, and that has a payment.
LEMMA Holds ==
  ASSUME PipeInv, NEW w \in Worker, worker[w].pc # "idle"
  PROVE  EventOf(w) \in Event /\ Target(w) \in Payment
BY ConstantsAssumption
DEF PipeInv, AuthorInv, TypeInv, Holding, EventOf, Target

\* A worker that stays put goes on knowing what it knew.
LEMMA KnowsStays ==
  ASSUME PipeInv, Grows, NEW v \in Worker, StaysPut(v), worker[v].pc # "idle"
  PROVE  Knows(v)'
<1>1. PICK e \in Event : e = EventOf(v)
  BY Holds
<1>2. PICK p \in Payment : p = Target(v) /\ p = PaymentOf[e]
  BY <1>1, Holds DEF Target
<1>3. PICK pc : pc = worker[v].pc
  OBVIOUS
<1>4. /\ EventOf(v)' = e /\ Target(v)' = p
      /\ worker'[v].pc = pc
  BY <1>1, <1>2, <1>3 DEF StaysPut, EventOf, Target
<1>5. Knows(v) /\ \A f \in Event : Marked(f) => Marked(f)'
  BY DEF PipeInv, Grows, MarkersGrow, Marked
<1>6. KnowsEvent(v)'
  BY <1>1, <1>3, <1>4, <1>5
  DEF Knows, KnowsEvent, IsSound, IsPayout, Supersedes, Dest
<1>7. KnowsMarker(v)'
  BY <1>1, <1>3, <1>4, <1>5
  DEF Knows, KnowsMarker, IsPayout, StaysPut
<1>8. KnowsBooks(v)'
  <2>1. KnowsBooks(v) /\ audit \subseteq audit'
    BY <1>5 DEF Knows, Grows, BooksGrow
  <2>2. \A t : Posted(ledger, p, t) => Posted(ledger', p, t)
    BY PostedStays
  <2>3. IsCompensated(e) => IsCompensated(e)'
    BY CompensatedStays
  <2>4. payment[p].payoutCompleted => payment'[p].payoutCompleted
    BY DEF Grows, PaymentsGrow
  <2> QED
    BY <1>1, <1>2, <1>3, <1>4, <2>1, <2>2, <2>3, <2>4
    DEF KnowsBooks, IsPayout, Supersedes, Dest
<1>9. KnowsPlan(v)'
  <2>1. worker'[v].plan = worker[v].plan
    BY DEF StaysPut
  <2>2. \A en : PlanFits(e, en) => PlanFits(e, en)'
    BY PlanStillFits
  <2>3. KnowsPlan(v)
    BY <1>5 DEF Knows
  <2>4. pc = "insert" => \A en \in worker[v].plan : PlanFits(e, en)'
    BY <1>1, <1>3, <2>2, <2>3 DEF KnowsPlan
  <2> QED
    BY <1>4, <2>1, <2>4 DEF KnowsPlan, PlanFits, Supersedes, Dest
<1>10. KnowsStatus(v)'
  <2> SUFFICES ASSUME pc = "conflict" PROVE KnowsStatus(v)'
    BY <1>4 DEF KnowsStatus
  <2>1. PICK current : /\ current = worker[v].current
                       /\ Dropped(e, current)
                       /\ \/ payment[p].status = current
                          \/ /\ current = "succeeded"
                             /\ payment[p].status \in Superseding
    BY <1>1, <1>2, <1>3, <1>5 DEF Knows, KnowsStatus
  <2>2. worker'[v].current = current
    BY <2>1 DEF StaysPut
  <2>3. Forward(payment[p].status, payment'[p].status)
    BY DEF Grows, PaymentsGrow
  <2>4. \/ payment'[p].status = current
        \/ current = "succeeded" /\ payment'[p].status \in Superseding
    BY <2>1, <2>3, StatusesApart DEF Dropped, Forward, Superseding
  <2> QED
    BY <1>4, <2>1, <2>2, <2>4 DEF KnowsStatus, Dropped, Supersedes, Dest
<1>11. KnowsDone(v)'
  <2> SUFFICES ASSUME pc = "processed", worker'[v].owner PROVE Finished(e)'
    BY <1>4
    DEF KnowsDone, Finished, EffectsDone, LetGo, OutcomeKnown,
        IsSound, IsPayout, Supersedes, Dest, Marked, IsAuthor, Dropped,
        IsCompensated
  <2>1. Finished(e) /\ event'[e].from = event[e].from
    BY <1>1, <1>3, <1>5 DEF Knows, KnowsDone, StaysPut, EventOf
  <2> QED
    BY <2>1, FinishedStays
<1> QED
  BY <1>6, <1>7, <1>8, <1>9, <1>10, <1>11 DEF Knows

------------------------------------------------------------------------------
\* What a worker knows where it arrives.

\* A worker w that has moved on to pc, with the event and the marker it had.
Arrives(w, pc) ==
  /\ worker'[w].pc = pc
  /\ worker'[w].event = worker[w].event
  /\ worker'[w].owner = worker[w].owner
  /\ worker'[w].from = worker[w].from
  /\ \A v \in Worker : v # w => worker'[v] = worker[v]

\* Goto makes a worker arrive, with the status it last read.
LEMMA GotoArrives ==
  ASSUME PipeInv, NEW w \in Worker, NEW pc \in PC, Goto(w, pc)
  PROVE  Arrives(w, pc) /\ worker'[w].current = worker[w].current
BY GotoMoves DEF PipeInv, AuthorInv, TypeInv, TypeOK, Arrives

\* So does Insert, with the planned entry.
LEMMA InsertArrives ==
  ASSUME PipeInv, NEW w \in Worker, NEW en \in Entry(Payment), Insert(w, en)
  PROVE  Arrives(w, "insert") /\ worker'[w].plan = {en}
BY InsertMoves DEF PipeInv, AuthorInv, TypeInv, TypeOK, Arrives

\* So does a read, with what it read.
LEMMA ReadArrives ==
  ASSUME PipeInv, NEW w \in Worker, NEW s \in PaymentAttemptStatus,
         NEW pc \in PC, HavingRead(w, s, pc)
  PROVE  Arrives(w, pc) /\ worker'[w].current = s
<1>1. worker \in [Worker -> WorkerState]
  BY DEF PipeInv, AuthorInv, TypeInv, TypeOK
<1>2. Arrives(w, pc)
  BY <1>1, ReadMoves DEF Arrives
<1> QED
  BY <1>1, <1>2 DEF HavingRead, WorkerState

\* Where nothing but the marker matters.
LEMMA FailureKnows ==
  ASSUME PipeInv, Grows, NEW w \in Worker, worker[w].pc # "idle",
         NEW pc \in {"retryable", "permanent"}, Arrives(w, pc)
  PROVE  Knows(w)'
<1>1. PICK e \in Event : e = EventOf(w)
  BY Holds
<1>2. worker'[w].pc = pc /\ EventOf(w)' = e /\ worker'[w].from = worker[w].from
  BY <1>1 DEF Arrives, EventOf
<1>3. worker[w].from # "none" => Marked(e)'
  BY <1>1 DEF PipeInv, Knows, KnowsMarker, Grows, MarkersGrow, Marked
<1> QED
  BY <1>2, <1>3 DEF Knows, KnowsEvent, KnowsMarker, KnowsBooks, KnowsPlan,
                    KnowsStatus, KnowsDone, AboutOutcome

\* An event that is not sound, and no payout either, is finished whenever
\* there is no marker.
LEMMA NothingToDo ==
  ASSUME NEW e \in Event, ~Marked(e), ~IsSound(e), ~IsPayout(e)
  PROVE  Finished(e)
BY DEF Finished, EffectsDone, LetGo, OutcomeKnown

\* A worker that arrives where its event can be marked processed, having
\* finished it as far as it owns it.
LEMMA ProcessedKnows ==
  ASSUME PipeInv, Grows, NEW w \in Worker, worker[w].pc # "idle",
         Arrives(w, "processed"), NEW e \in Event, e = EventOf(w),
         worker[w].owner => Finished(e)'
  PROVE  Knows(w)'
<1>1. /\ worker'[w].pc = "processed" /\ EventOf(w)' = e
      /\ worker'[w].from = worker[w].from /\ worker'[w].owner = worker[w].owner
  BY DEF Arrives, EventOf
<1>2. worker[w].from # "none" => Marked(e)'
  BY DEF PipeInv, Knows, KnowsMarker, Grows, MarkersGrow, Marked
<1>3. KnowsDone(w)'
  BY <1>1
  DEF KnowsDone, Finished, EffectsDone, LetGo, OutcomeKnown,
      IsSound, IsPayout, Supersedes, Dest, Marked, IsAuthor, Dropped,
      IsCompensated
<1> QED
  BY <1>1, <1>2, <1>3
  DEF Knows, KnowsEvent, KnowsMarker, KnowsBooks, KnowsPlan, KnowsStatus,
      AboutOutcome

\* From the payload to the payment.
LEMMA LookupKnows ==
  ASSUME PipeInv, Grows, NEW w \in Worker, LookupPayment(w)
  PROVE  /\ Knows(w)'
         /\ \A v \in Worker : v # w => worker'[v] = worker[v]
<1>0. worker[w].pc = "lookup" /\ event' = event
  BY DEF LookupPayment
<1>1. PICK e \in Event : e = EventOf(w)
  BY <1>0, Holds
<1>2. PICK p \in Payment : p = Target(w) /\ p = PaymentOf[e]
  BY <1>0, <1>1, Holds DEF Target
<1>3. CASE Goto(w, "retryable")
  BY <1>0, <1>3, GotoArrives, FailureKnows DEF PC, Arrives
<1>4. CASE Goto(w, "processed") /\ ~IsSound(e) /\ ~IsPayout(e)
  <2>1. Arrives(w, "processed")
    BY <1>4, GotoArrives DEF PC
  <2>2. ~Marked(e)
    BY <1>4 DEF PipeInv, MarkedIsSound
  <2>3. Finished(e)'
    <3>1. Finished(e)
      BY <1>4, <2>2, NothingToDo
    <3> QED
      BY <1>0, <3>1, FinishedStays
  <2> QED
    BY <1>0, <1>1, <2>1, <2>3, ProcessedKnows DEF Arrives
<1>5. CASE Goto(w, "payout") /\ IsPayout(e)
  <2>1. Arrives(w, "payout")
    BY <1>5, GotoArrives DEF PC
  <2>2. worker'[w].pc = "payout" /\ EventOf(w)' = e
        /\ worker'[w].from = worker[w].from
    BY <1>1, <2>1 DEF Arrives, EventOf
  <2>3. worker[w].from # "none" => Marked(e)'
    BY <1>0, <1>1 DEF PipeInv, Knows, KnowsMarker, Marked
  <2> QED
    BY <1>5, <2>1, <2>2, <2>3
    DEF Knows, Arrives, KnowsEvent, KnowsMarker, KnowsBooks, KnowsPlan, KnowsStatus,
        KnowsDone, AboutOutcome, IsPayout
<1>6. CASE /\ IsSound(e)
           /\ Goto(w, IF worker[w].from = "none" THEN "transition"
                                              ELSE "reread")
  <2>1. PICK pc \in {"transition", "reread"} :
          /\ Goto(w, pc)
          /\ pc = "reread" => worker[w].from # "none"
    BY <1>6
  <2>2. Arrives(w, pc)
    BY <2>1, GotoArrives DEF PC
  <2>3. worker'[w].pc = pc /\ EventOf(w)' = e
        /\ worker'[w].from = worker[w].from
    BY <1>1, <2>2 DEF Arrives, EventOf
  <2>4. worker[w].from # "none" => Marked(e)'
    BY <1>0, <1>1 DEF PipeInv, Knows, KnowsMarker, Marked
  <2> QED
    BY <1>6, <2>1, <2>2, <2>3, <2>4
    DEF Knows, Arrives, KnowsEvent, KnowsMarker, KnowsBooks, KnowsPlan, KnowsStatus,
        KnowsDone, AboutOutcome, IsSound
<1> QED
  BY <1>1, <1>2, <1>3, <1>4, <1>5, <1>6, ConstantsAssumption
  DEF LookupPayment, IsSound, IsPayout, EventType, EventTypeToStatus

\* The transition, or what was found instead.
LEMMA TransitionKnows ==
  ASSUME PipeInv, Grows, NEW w \in Worker, applyTransition(w)
  PROVE  /\ Knows(w)'
         /\ \A v \in Worker : v # w => worker'[v] = worker[v]
<1>0. worker[w].pc = "transition"
  BY DEF applyTransition
<1>1. PICK e \in Event : e = EventOf(w)
  BY <1>0, Holds
<1>2. PICK p \in Payment : p = Target(w) /\ p = PaymentOf[e]
  BY <1>0, <1>1, Holds DEF Target
<1>3. PICK s \in {"processing", "succeeded", "failed"} \cup Superseding :
        s = payment[p].status
  BY <1>0, <1>2, AtTransition
<1>4. PICK d \in {"succeeded", "failed"} \cup Superseding : d = Dest(e)
  BY <1>0, <1>1, AtTransition
<1>5. /\ IsSound(e)
      /\ s \in PaymentAttemptStatus /\ d \in PaymentAttemptStatus
      /\ s # "none" /\ worker[w].from = "none"
  BY <1>0, <1>1, AtTransition
  DEF PaymentAttemptStatus, Superseding, PipeInv, AuthorInv, Unmarked
<1>6. CASE Goto(w, "retryable")
  BY <1>0, <1>6, GotoArrives, FailureKnows DEF PC, Arrives
<1>7. CASE HavingRead(w, s, "retryable")
  BY <1>0, <1>5, <1>7, ReadArrives, FailureKnows DEF PC, Arrives
<1>8. CASE /\ HavingRead(w, s, "conflict")
           /\ s \notin AllowedSources(d)
           /\ isTransitionPermanentlyIllegal(s, d)
           /\ payment' = payment
  <2>1. Arrives(w, "conflict") /\ worker'[w].current = s
    BY <1>5, <1>8, ReadArrives DEF PC
  <2>2. Dropped(e, s)
    <3>1. s \notin Unresolved
      <4> SUFFICES ASSUME s = "processing" PROVE FALSE
        BY <1>3 DEF Unresolved, Superseding
      <4>1. "succeeded" \in ReachableNext(s)
        BY SourcesOf DEF ReachableNext, PaymentAttemptStatus, Unresolved
      <4>2. d \in Superseding
        BY <1>4, <1>8, SourcesOf DEF Unresolved
      <4>3. "succeeded" \in AllowedSources(d)
        BY <4>2, SourcesOf
      <4> QED
        BY <1>8, <4>1, <4>3 DEF isTransitionPermanentlyIllegal
    <3>2. Supersedes(e) => s # "succeeded"
      BY <1>4, <1>8, SourcesOf DEF Supersedes
    <3> QED
      BY <3>1, <3>2 DEF Dropped
  <2>3. /\ worker'[w].pc = "conflict" /\ EventOf(w)' = e /\ Target(w)' = p
        /\ worker'[w].from = "none" /\ payment'[p].status = s
    BY <1>1, <1>2, <1>3, <1>5, <1>8, <2>1 DEF Arrives, EventOf, Target
  <2>4. KnowsEvent(w)'
    BY <1>5, <2>3 DEF KnowsEvent, AboutOutcome, IsSound
  <2>5. KnowsStatus(w)'
    BY <2>1, <2>2, <2>3 DEF KnowsStatus, Dropped, Supersedes, Dest
  <2> QED
    BY <2>1, <2>3, <2>4, <2>5
    DEF Knows, KnowsMarker, KnowsBooks, KnowsPlan, KnowsDone, AboutOutcome,
        Arrives
<1>9. CASE /\ MarkTransition(w, s)
           /\ worker' = [worker EXCEPT ![w].current = d, ![w].from = s,
                                       ![w].pc = "audit"]
  <2>1. worker \in [Worker -> WorkerState] /\ event \in [Event -> EventRow]
    BY DEF PipeInv, AuthorInv, TypeInv, TypeOK
  <2>2. worker' = [worker EXCEPT ![w].current = d, ![w].from = s,
                                 ![w].pc = "audit"]
    BY <1>9
  <2>3. /\ worker'[w].pc = "audit" /\ worker'[w].event = worker[w].event
        /\ worker'[w].from = s
        /\ \A v \in Worker : v # w => worker'[v] = worker[v]
    <3> DEFINE row == [worker[w] EXCEPT !.current = d, !.from = s,
                                        !.pc = "audit"]
    <3>1. worker' = [worker EXCEPT ![w] = row]
      BY <2>2
    <3>2. row.pc = "audit" /\ row.event = worker[w].event /\ row.from = s
      BY <2>1 DEF WorkerState
    <3> QED
      BY <2>1, <3>1, <3>2
  <2>4. Marked(e)'
    BY <1>1, <1>5, <1>9, <2>1 DEF MarkTransition, Marked, EventRow
  <2>5. EventOf(w)' = e
    BY <1>1, <2>3 DEF EventOf
  <2> QED
    BY <1>5, <2>3, <2>4, <2>5
    DEF Knows, KnowsEvent, KnowsMarker, KnowsBooks, KnowsPlan, KnowsStatus,
        KnowsDone, AboutOutcome, IsSound
<1> QED
  BY <1>1, <1>2, <1>3, <1>4, <1>6, <1>7, <1>8, <1>9 DEF applyTransition

\* The payment is read again.
LEMMA RereadKnows ==
  ASSUME PipeInv, Grows, NEW w \in Worker, RereadPayment(w)
  PROVE  /\ Knows(w)'
         /\ \A v \in Worker : v # w => worker'[v] = worker[v]
<1>0. worker[w].pc = "reread" /\ event' = event
  BY DEF RereadPayment
<1>1. PICK e \in Event : e = EventOf(w)
  BY <1>0, Holds
<1>2. payment[Target(w)].status \in PaymentAttemptStatus
  BY <1>0, Holds DEF PipeInv, AuthorInv, TypeInv, TypeOK, PaymentRow
<1>3. Arrives(w, "audit")
  BY <1>2, ReadArrives DEF RereadPayment, PC
<1>4. IsSound(e) /\ worker[w].from # "none" /\ Marked(e)
  BY <1>0, <1>1
  DEF PipeInv, Knows, KnowsEvent, KnowsMarker, AboutOutcome
<1>5. /\ worker'[w].pc = "audit" /\ EventOf(w)' = e
      /\ worker'[w].from = worker[w].from /\ Marked(e)'
  BY <1>0, <1>1, <1>3, <1>4 DEF Arrives, EventOf, Marked
<1> QED
  BY <1>3, <1>4, <1>5
  DEF Knows, KnowsEvent, KnowsMarker, KnowsBooks, KnowsPlan, KnowsStatus,
      KnowsDone, AboutOutcome, IsSound, Arrives

\* The transition's audit row.
LEMMA AuditKnows ==
  ASSUME PipeInv, Grows, NEW w \in Worker, recordTransitionAudit(w)
  PROVE  /\ Knows(w)'
         /\ \A v \in Worker : v # w => worker'[v] = worker[v]
<1>0. worker[w].pc = "audit" /\ event' = event
  BY DEF recordTransitionAudit
<1>1. PICK e \in Event : e = EventOf(w)
  BY <1>0, Holds
<1>2. Arrives(w, "ledger") /\ <<e, "transition">> \in audit'
  BY <1>1, GotoArrives DEF recordTransitionAudit, PC
<1>3. IsSound(e) /\ worker[w].from # "none" /\ Marked(e)
  BY <1>0, <1>1
  DEF PipeInv, Knows, KnowsEvent, KnowsMarker, AboutOutcome
<1>4. /\ worker'[w].pc = "ledger" /\ EventOf(w)' = e
      /\ worker'[w].from = worker[w].from /\ Marked(e)'
  BY <1>0, <1>1, <1>2, <1>3 DEF Arrives, EventOf, Marked
<1> QED
  BY <1>2, <1>3, <1>4
  DEF Knows, KnowsEvent, KnowsMarker, KnowsBooks, KnowsPlan, KnowsStatus,
      KnowsDone, AboutOutcome, IsSound, Arrives

\* Only a success event makes a payment succeed.
LEMMA SucceededType ==
  ASSUME NEW e \in Event, TypeOf[e] \in DOMAIN EventTypeToStatus
  PROVE  Dest(e) = "succeeded" <=> TypeOf[e] = "payment.succeeded"
BY DEF Dest, EventTypeToStatus

\* A payment that left its unresolved statuses has an author for the status
\* it is in and, if it was superseded, one for its success.  No two events
\* made it succeed, and what superseded it is what it is in.
LEMMA AuthorsOf ==
  ASSUME PipeInv, NEW p \in Payment
  PROVE  /\ payment[p].status \notin Unresolved =>
              \E e \in Event :
                IsAuthor(e, p) /\ Dest(e) = payment[p].status
         /\ payment[p].status \in Superseding =>
              \E e \in Event : IsAuthor(e, p) /\ Dest(e) = "succeeded"
         /\ \A e, f \in Event :
              /\ IsAuthor(e, p) /\ Dest(e) = "succeeded"
              /\ IsAuthor(f, p) /\ Dest(f) = "succeeded"
              => e = f
         /\ \A e \in Event :
              /\ IsAuthor(e, p) /\ Dest(e) = "succeeded" =>
                   payment[p].status \in {"succeeded"} \cup Superseding
              /\ IsAuthor(e, p) /\ Dest(e) \in Superseding =>
                   payment[p].status = Dest(e)
<1>1. HasItsAuthors(p)
  BY DEF PipeInv, AuthorInv, StatusHasOneAuthor
<1>2. PICK s \in {"submitted", "processing", "succeeded", "failed"}
                   \cup Superseding : s = payment[p].status
  BY DEF PipeInv, StatusRange
<1>3. CASE s \in Unresolved
  BY <1>1, <1>2, <1>3, StatusesApart DEF HasItsAuthors
<1>4. CASE s \in {"succeeded", "failed"}
  BY <1>1, <1>2, <1>4, StatusesApart DEF HasItsAuthors
<1>5. CASE s \in Superseding
  BY <1>1, <1>2, <1>5, StatusesApart DEF HasItsAuthors
<1> QED
  BY <1>2, <1>3, <1>4, <1>5, StatusesApart

\* The status a worker read at its conflict has an author.
LEMMA ConflictAuthor ==
  ASSUME PipeInv, NEW w \in Worker, worker[w].pc = "conflict"
  PROVE  /\ Dropped(EventOf(w), payment[Target(w)].status)
         /\ \E f \in Event : /\ IsAuthor(f, Target(w))
                             /\ Dest(f) = worker[w].current
<1>1. PICK e \in Event : e = EventOf(w)
  BY Holds
<1>2. PICK p \in Payment : p = Target(w)
  BY Holds
<1>3. PICK s, current :
        /\ s = payment[p].status /\ current = worker[w].current
        /\ Dropped(e, current)
        /\ s = current \/ (current = "succeeded" /\ s \in Superseding)
  BY <1>1, <1>2 DEF PipeInv, Knows, KnowsStatus
<1>4. Dropped(e, s)
  BY <1>3, StatusesApart DEF Dropped
<1>5. \E f \in Event : IsAuthor(f, p) /\ Dest(f) = current
  BY <1>3, <1>4, AuthorsOf DEF Dropped
<1> QED
  BY <1>1, <1>2, <1>3, <1>4, <1>5

\* A trusted event is processed, and has the type that was asked for.
LEMMA Trusted ==
  ASSUME NEW p, NEW t, NEW f \in TrustedEvents(p, t)
  PROVE  /\ f \in Event /\ TypeOf[f] = t /\ PaymentOf[f] = p
         /\ event[f].status = "processed"
BY DEF TrustedEvents, Matching

\* A conflict is recorded, and the event let go.
LEMMA ConflictKnows ==
  ASSUME PipeInv, Grows, NEW w \in Worker, detectAndRecordConflict(w)
  PROVE  /\ Knows(w)'
         /\ \A v \in Worker : v # w => worker'[v] = worker[v]
<1>0. /\ worker[w].pc = "conflict" /\ event' = event /\ payment' = payment
      /\ ledger' = ledger /\ audit' = audit
  BY DEF detectAndRecordConflict
<1>1. PICK e \in Event : e = EventOf(w)
  BY <1>0, Holds
<1>2. PICK p \in Payment : p = Target(w) /\ p = PaymentOf[e]
  BY <1>0, <1>1, Holds DEF Target
<1>3. Arrives(w, "processed")
  BY GotoArrives DEF detectAndRecordConflict, PC
<1>4. IsSound(e) /\ TypeOf[e] \in DOMAIN EventTypeToStatus
  BY <1>0, <1>1 DEF PipeInv, Knows, KnowsEvent, AboutOutcome, IsSound
<1>5. /\ Dropped(e, payment[p].status)
      /\ \E f \in Event : IsAuthor(f, p) /\ Dest(f) = worker[w].current
  BY <1>0, <1>1, <1>2, ConflictAuthor
<1>6. \/ Dest(e) = worker[w].current
      \/ IsHistoricallyCompatible(e, worker[w].current)
      \/ <<"status_mismatch", e>> \in exceptions'
  BY <1>1, <1>2 DEF detectAndRecordConflict, Record, ExceptionType
<1>7. OutcomeKnown(e)
        \/ <<"status_mismatch", e>> \in exceptions'
  <2>1. CASE Dest(e) = worker[w].current
    BY <1>2, <1>5, <2>1 DEF OutcomeKnown
  <2>2. CASE IsHistoricallyCompatible(e, worker[w].current)
    <3>1. PICK f \in TrustedEvents(p, TypeOf[e]) : event[f].from # "none"
      BY <1>2, <2>2 DEF IsHistoricallyCompatible
    <3>2. f \in Event /\ TypeOf[f] = TypeOf[e] /\ PaymentOf[f] = p
      BY <3>1, Trusted
    <3>3. IsAuthor(f, p) /\ Dest(f) = Dest(e)
      BY <1>4, <3>1, <3>2 DEF IsAuthor, Dest
    <3> QED
      BY <1>2, <3>2, <3>3 DEF OutcomeKnown
  <2> QED
    BY <1>6, <2>1, <2>2
<1>8. ASSUME worker[w].owner PROVE Finished(e)'
  <2>1. ~Marked(e) /\ ~Marked(e)'
    BY <1>0, <1>1, <1>8
    DEF PipeInv, AuthorInv, Unmarked, Knows, KnowsMarker, Marked, EventOf
  <2>2. ~IsPayout(e)
    BY <1>4 DEF IsPayout, EventTypeToStatus
  <2>3. EffectsDone(e)'
    BY <2>1, <2>2 DEF EffectsDone, IsPayout
  <2>4. LetGo(e)'
    BY <1>0, <1>2, <1>5 DEF LetGo, Dropped, Supersedes, Dest
  <2>5. OutcomeKnown(e)'
    <3>1. \A f \in Event : IsAuthor(f, p) => IsAuthor(f, p)'
      BY AuthorsStay
    <3>2. exceptions \subseteq exceptions'
      BY DEF Grows, BooksGrow
    <3> QED
      BY <1>2, <1>4, <1>7, <3>1, <3>2 DEF OutcomeKnown, IsSound, Dest
  <2> QED
    BY <2>3, <2>4, <2>5 DEF Finished
<1>9. Knows(w)'
  BY <1>0, <1>1, <1>3, <1>8, ProcessedKnows
<1> QED
  BY <1>3, <1>9 DEF Arrives

\* Past the transition an event is sound, marked and audited.
LEMMA PastTransition ==
  ASSUME PipeInv, Grows, NEW w \in Worker, NEW e \in Event, e = EventOf(w),
         worker[w].pc \in {"ledger", "disposition", "workflow", "completion",
                           "lifecycle"}
  PROVE  /\ IsSound(e) /\ worker[w].from # "none"
         /\ Marked(e) /\ Marked(e)'
         /\ <<e, "transition">> \in audit /\ <<e, "transition">> \in audit'
         /\ TypeOf[e] \in DOMAIN EventTypeToStatus
<1>1. IsSound(e) /\ worker[w].from # "none" /\ <<e, "transition">> \in audit
  BY DEF PipeInv, Knows, KnowsEvent, KnowsMarker, KnowsBooks, AboutOutcome
<1>2. Marked(e)
  BY <1>1 DEF PipeInv, Knows, KnowsMarker
<1> QED
  BY <1>1, <1>2 DEF IsSound, Grows, BooksGrow, MarkersGrow, Marked

\* An event past its transition arrives at a later step of its own, with the
\* books that this step builds on.
LEMMA OutcomeArrives ==
  ASSUME PipeInv, Grows, NEW w \in Worker, NEW e \in Event, e = EventOf(w),
         worker[w].pc \in {"ledger", "disposition", "workflow", "completion",
                           "lifecycle"},
         NEW pc \in {"disposition", "workflow", "completion", "lifecycle"},
         Arrives(w, pc),
         pc \in {"disposition", "lifecycle"} => TypeOf[e] = "payment.succeeded",
         pc = "completion" => TypeOf[e] = "payment.succeeded" \/ Supersedes(e),
         TypeOf[e] = "payment.succeeded" =>
           Posted(ledger', PaymentOf[e], "payment_cleared"),
         Supersedes(e) =>
           Posted(ledger', PaymentOf[e], ReversalEntryOf(TypeOf[e])),
         pc = "completion" /\ Supersedes(e) => IsCompensated(e)'
  PROVE  Knows(w)'
<1>1. /\ worker'[w].pc = pc /\ EventOf(w)' = e
      /\ worker'[w].from = worker[w].from /\ Target(w)' = PaymentOf[e]
  BY DEF Arrives, EventOf, Target
<1>2. /\ IsSound(e) /\ worker[w].from # "none" /\ Marked(e)'
      /\ <<e, "transition">> \in audit'
  BY PastTransition
<1>3. KnowsEvent(w)'
  BY <1>1, <1>2 DEF KnowsEvent, AboutOutcome, IsSound, Supersedes, Dest
<1>4. KnowsMarker(w)'
  BY <1>1, <1>2 DEF KnowsMarker, AboutOutcome
<1>5. KnowsBooks(w)'
  BY <1>1, <1>2 DEF KnowsBooks, Supersedes, Dest, IsCompensated
<1> QED
  BY <1>1, <1>3, <1>4, <1>5 DEF Knows, KnowsPlan, KnowsStatus, KnowsDone

\* An entry is planned that fits its event.
LEMMA PlanArrives ==
  ASSUME PipeInv, Grows, NEW w \in Worker, NEW e \in Event, e = EventOf(w),
         worker[w].pc \in {"ledger", "payout"},
         NEW en \in Entry(Payment), Insert(w, en), PlanFits(e, en)'
  PROVE  /\ Knows(w)'
         /\ \A v \in Worker : v # w => worker'[v] = worker[v]
<1>1. Arrives(w, "insert") /\ worker'[w].plan = {en}
  BY InsertArrives
<1>2. /\ worker'[w].pc = "insert" /\ EventOf(w)' = e
      /\ worker'[w].from = worker[w].from
  BY <1>1 DEF Arrives, EventOf
<1>3. KnowsPlan(w)'
  BY <1>1, <1>2 DEF KnowsPlan, PlanFits, Supersedes, Dest
<1>4. worker[w].from # "none" => Marked(e)'
  BY DEF PipeInv, Knows, KnowsMarker, Grows, MarkersGrow, Marked
<1>5. KnowsEvent(w)' /\ KnowsMarker(w)' /\ KnowsBooks(w)'
  <2>1. CASE worker[w].pc = "payout"
    <3>1. IsPayout(e)
      BY <2>1 DEF PipeInv, Knows, KnowsEvent
    <3> QED
      BY <1>2, <1>4, <3>1
      DEF KnowsEvent, KnowsMarker, KnowsBooks, AboutOutcome, IsPayout
  <2>2. CASE worker[w].pc = "ledger"
    <3>1. /\ IsSound(e) /\ worker[w].from # "none"
          /\ <<e, "transition">> \in audit'
      BY <2>2, PastTransition
    <3>2. TypeOf[e] = "payment.succeeded" \/ Supersedes(e)
      BY <3>1 DEF PlanFits, IsSound, Supersedes, Dest, EventTypeToStatus
    <3> QED
      BY <1>2, <1>4, <3>1, <3>2
      DEF KnowsEvent, KnowsMarker, KnowsBooks, AboutOutcome, IsSound,
          Supersedes, Dest
  <2> QED
    BY <2>1, <2>2
<1> QED
  BY <1>1, <1>2, <1>3, <1>5 DEF Knows, KnowsStatus, KnowsDone, Arrives

\* No event is of two kinds.
LEMMA TypesApart ==
  ASSUME NEW e \in Event
  PROVE  /\ TypeOf[e] = "payment.succeeded" => ~Supersedes(e)
         /\ TypeOf[e] = "payment.failed" => ~Supersedes(e)
         /\ TypeOf[e] = "payout.paid" => ~Supersedes(e)
         /\ TypeOf[e] \in DOMAIN EventTypeToStatus =>
              \/ TypeOf[e] \in {"payment.succeeded", "payment.failed"}
              \/ Supersedes(e)
BY DEF Supersedes, Dest, EventTypeToStatus, Superseding

\* The clearing.
LEMMA ClearedKnows ==
  ASSUME PipeInv, Grows, NEW w \in Worker, postPaymentCleared(w)
  PROVE  /\ Knows(w)'
         /\ \A v \in Worker : v # w => worker'[v] = worker[v]
<1>0. /\ worker[w].pc = "ledger" /\ ledger' = ledger
  BY DEF postPaymentCleared
<1>1. PICK e \in Event : e = EventOf(w)
  BY <1>0, Holds
<1>2. PICK p \in Payment : p = Target(w) /\ p = PaymentOf[e]
  BY <1>0, <1>1, Holds DEF Target
<1>3. TypeOf[e] = "payment.succeeded" /\ ~Supersedes(e)
  BY <1>1, TypesApart DEF postPaymentCleared
<1>4. CASE Goto(w, "retryable") \/ Goto(w, "permanent")
  BY <1>0, <1>4, GotoArrives, FailureKnows DEF PC, Arrives
<1>5. CASE Posted(ledger, p, "payment_cleared") /\ Goto(w, AfterLedger(e))
  <2>1. Arrives(w, "disposition")
    BY <1>3, <1>5, GotoArrives DEF AfterLedger, PC
  <2>2. Knows(w)'
    BY <1>0, <1>1, <1>2, <1>3, <1>5, <2>1, OutcomeArrives
  <2> QED
    BY <2>1, <2>2 DEF Arrives
<1>6. CASE /\ ~FeesExceedGross(AmountOf[p], FeeIn[e], PlatformFee)
           /\ Insert(w, ClearedPlan(p, AmountOf[p], FeeIn[e], PlatformFee))
  <2>1. PICK en \in Entry(Payment) :
          en = ClearedPlan(p, AmountOf[p], FeeIn[e], PlatformFee)
    <3>1. AmountOf[p] \in Nat /\ FeeIn[e] \in Nat /\ PlatformFee \in Nat
      BY ConstantsAssumption DEF PlatformFee
    <3>2. ledger \in SUBSET Entry(Payment)
      BY DEF PipeInv, AuthorInv, TypeInv, TypeOK
    <3> QED
      BY <3>1, <3>2, PlanType
  <2>2. en.payment = p
    BY <2>1 DEF ClearedPlan
  <2>3. PlanFits(e, en)'
    BY <1>2, <1>3, <1>6, <2>1, <2>2 DEF PlanFits
  <2> QED
    BY <1>0, <1>1, <1>6, <2>1, <2>3, PlanArrives
<1> QED
  BY <1>1, <1>2, <1>4, <1>5, <1>6 DEF postPaymentCleared

\* The reversal.
LEMMA ReversalKnows ==
  ASSUME PipeInv, Grows, NEW w \in Worker, reversePayment(w)
  PROVE  /\ Knows(w)'
         /\ \A v \in Worker : v # w => worker'[v] = worker[v]
<1>0. /\ worker[w].pc = "ledger" /\ ledger' = ledger
  BY DEF reversePayment
<1>1. PICK e \in Event : e = EventOf(w)
  BY <1>0, Holds
<1>2. PICK p \in Payment : p = Target(w) /\ p = PaymentOf[e]
  BY <1>0, <1>1, Holds DEF Target
<1>3. /\ Supersedes(e)
      /\ TypeOf[e] \notin {"payment.succeeded", "payment.failed", "payout.paid"}
  BY <1>1, TypesApart DEF reversePayment
<1>4. PICK t \in ReversalType : t = ReversalEntryOf(TypeOf[e])
  BY DEF ReversalEntryOf, ReversalType
<1>5. CASE Goto(w, "retryable")
  BY <1>0, <1>5, GotoArrives, FailureKnows DEF PC, Arrives
<1>6. CASE Posted(ledger, p, t) /\ Goto(w, AfterLedger(e))
  <2>1. Arrives(w, "workflow")
    BY <1>3, <1>6, GotoArrives DEF AfterLedger, PC
  <2>2. Knows(w)'
    BY <1>0, <1>1, <1>2, <1>3, <1>4, <1>6, <2>1, OutcomeArrives
  <2> QED
    BY <2>1, <2>2 DEF Arrives
<1>7. CASE /\ Posted(ledger, p, "payment_cleared")
           /\ Insert(w, ReversalPlan(ledger, p, t))
  <2>1. ledger \in SUBSET Entry(Payment)
    BY DEF PipeInv, AuthorInv, TypeInv, TypeOK
  <2>2. PICK en \in Entry(Payment) : en = ReversalPlan(ledger, p, t)
    BY <1>7, <2>1, PlanType
  <2>3. en.payment = p /\ en.entryType = t
    <3>1. PICK c \in Entry(Payment) : /\ c = Find(ledger, p, "payment_cleared")
                                      /\ c.payment = p
      BY <1>7, <2>1, FindFinds
    <3> QED
      BY <2>2, <3>1 DEF ReversalPlan, Entry
  <2>4. PlanFits(e, en)'
    BY <1>0, <1>2, <1>3, <1>4, <1>7, <2>3
    DEF PlanFits, Supersedes, Dest
  <2> QED
    BY <1>0, <1>1, <1>7, <2>2, <2>4, PlanArrives
<1> QED
  BY <1>1, <1>2, <1>4, <1>5, <1>6, <1>7 DEF reversePayment

\* A failure has no entry.
LEMMA NoEntryKnows ==
  ASSUME PipeInv, Grows, NEW w \in Worker, NoLedgerEntry(w)
  PROVE  /\ Knows(w)'
         /\ \A v \in Worker : v # w => worker'[v] = worker[v]
<1>0. worker[w].pc = "ledger"
  BY DEF NoLedgerEntry
<1>1. PICK e \in Event : e = EventOf(w)
  BY <1>0, Holds
<1>2. TypeOf[e] = "payment.failed" /\ ~Supersedes(e)
  BY <1>1, TypesApart DEF NoLedgerEntry
<1>3. Arrives(w, "workflow")
  BY GotoArrives DEF NoLedgerEntry, PC
<1>4. Knows(w)'
  BY <1>0, <1>1, <1>2, <1>3, OutcomeArrives
<1> QED
  BY <1>3, <1>4 DEF Arrives

\* An event at its payout arrives at a later step of it.
LEMMA PayoutArrives ==
  ASSUME PipeInv, Grows, NEW w \in Worker, NEW e \in Event, e = EventOf(w),
         IsPayout(e), worker[w].pc # "idle",
         NEW pc \in {"stampPayout", "auditPayout"}, Arrives(w, pc),
         Posted(ledger', PaymentOf[e], "payout"),
         pc = "auditPayout" => payment'[PaymentOf[e]].payoutCompleted
  PROVE  Knows(w)'
<1>1. /\ worker'[w].pc = pc /\ EventOf(w)' = e
      /\ worker'[w].from = worker[w].from /\ Target(w)' = PaymentOf[e]
  BY DEF Arrives, EventOf, Target
<1>2. worker[w].from # "none" => Marked(e)'
  BY DEF PipeInv, Knows, KnowsMarker, Grows, MarkersGrow, Marked
<1>3. KnowsEvent(w)' /\ KnowsMarker(w)' /\ KnowsBooks(w)'
  BY <1>1, <1>2
  DEF KnowsEvent, KnowsMarker, KnowsBooks, AboutOutcome, IsPayout
<1> QED
  BY <1>1, <1>3 DEF Knows, KnowsPlan, KnowsStatus, KnowsDone

\* The payout.
LEMMA PayoutKnows ==
  ASSUME PipeInv, Grows, NEW w \in Worker, postPayout(w)
  PROVE  /\ Knows(w)'
         /\ \A v \in Worker : v # w => worker'[v] = worker[v]
<1>0. /\ worker[w].pc = "payout" /\ ledger' = ledger
  BY DEF postPayout
<1>1. PICK e \in Event : e = EventOf(w)
  BY <1>0, Holds
<1>2. PICK p \in Payment : p = Target(w) /\ p = PaymentOf[e]
  BY <1>0, <1>1, Holds DEF Target
<1>3. IsPayout(e)
  BY <1>0, <1>1 DEF PipeInv, Knows, KnowsEvent
<1>4. CASE Goto(w, "retryable")
  BY <1>0, <1>4, GotoArrives, FailureKnows DEF PC, Arrives
<1>5. CASE Posted(ledger, p, "payout") /\ Goto(w, "stampPayout")
  <2>1. Arrives(w, "stampPayout")
    BY <1>5, GotoArrives DEF PC
  <2>2. Knows(w)'
    BY <1>0, <1>1, <1>2, <1>3, <1>5, <2>1, PayoutArrives
  <2> QED
    BY <2>1, <2>2 DEF Arrives
<1>6. CASE /\ Posted(ledger, p, "payment_cleared")
           /\ Insert(w, PayoutPlan(ledger, p))
  <2>1. ledger \in SUBSET Entry(Payment)
    BY DEF PipeInv, AuthorInv, TypeInv, TypeOK
  <2>2. PICK en \in Entry(Payment) : en = PayoutPlan(ledger, p)
    BY <1>6, <2>1, PlanType
  <2>3. en.payment = p /\ en.entryType = "payout"
    <3>1. PICK c \in Entry(Payment) : /\ c = Find(ledger, p, "payment_cleared")
                                      /\ c.payment = p
      BY <1>6, <2>1, FindFinds
    <3> QED
      BY <2>2, <3>1 DEF PayoutPlan, Entry
  <2>4. PlanFits(e, en)'
    BY <1>0, <1>2, <1>3, <1>6, <2>3 DEF PlanFits, IsPayout
  <2> QED
    BY <1>0, <1>1, <1>6, <2>2, <2>4, PlanArrives
<1> QED
  BY <1>2, <1>4, <1>5, <1>6 DEF postPayout, CanPayOut

\* What an insertion leaves posted.
LEMMA Inserted ==
  ASSUME NEW L, NEW en
  PROVE  Posted(InsertIdempotently(L, en), en.payment, en.entryType)
BY DEF Posted, InsertIdempotently

\* The planned entry is posted, if not by this worker then by another.
LEMMA InsertKnows ==
  ASSUME PipeInv, Grows, NEW w \in Worker, insertEntry(w)
  PROVE  /\ Knows(w)'
         /\ \A v \in Worker : v # w => worker'[v] = worker[v]
<1>0. worker[w].pc = "insert" /\ event' = event /\ audit' = audit
  BY DEF insertEntry
<1>1. PICK e \in Event : e = EventOf(w)
  BY <1>0, Holds
<1>2. PICK p \in Payment : p = Target(w) /\ p = PaymentOf[e]
  BY <1>0, <1>1, Holds DEF Target
<1>3. PICK en \in worker[w].plan : ledger' = InsertIdempotently(ledger, en)
  BY DEF insertEntry
<1>4. PlanFits(e, en)
  BY <1>0, <1>1, <1>3 DEF PipeInv, Knows, KnowsPlan
<1>5. Posted(ledger', p, en.entryType)
  <2>1. en.payment = p
    BY <1>2, <1>4 DEF PlanFits
  <2> QED
    BY <1>3, <2>1, Inserted
<1>6. Arrives(w, AfterLedger(e))
  <2>1. worker \in [Worker -> WorkerState] /\ AfterLedger(e) \in PC
    BY DEF PipeInv, AuthorInv, TypeInv, TypeOK, AfterLedger, PC
  <2>2. worker' = [worker EXCEPT ![w].plan = {}, ![w].pc = AfterLedger(e)]
    BY <1>1 DEF insertEntry
  <2> QED
    BY <2>1, <2>2, InsertedMoves DEF Arrives
<1>7. CASE IsPayout(e)
  <2>1. AfterLedger(e) = "stampPayout" /\ en.entryType = "payout"
    BY <1>4, <1>7, TypesApart DEF IsPayout, AfterLedger, PlanFits
  <2>2. Knows(w)'
    BY <1>0, <1>1, <1>2, <1>5, <1>6, <1>7, <2>1, PayoutArrives
  <2> QED
    BY <1>6, <2>2 DEF Arrives
<1>8. CASE ~IsPayout(e)
  <2>1. /\ IsSound(e) /\ worker[w].from # "none"
        /\ <<e, "transition">> \in audit'
        /\ TypeOf[e] = "payment.succeeded" \/ Supersedes(e)
    BY <1>0, <1>1, <1>8 DEF PipeInv, Knows, KnowsEvent, KnowsMarker, KnowsBooks
  <2>2. Marked(e)'
    BY <1>0, <1>1, <2>1 DEF PipeInv, Knows, KnowsMarker, Marked
  <2>3. PICK pc \in {"disposition", "workflow"} :
          /\ pc = AfterLedger(e)
          /\ pc = "disposition" => TypeOf[e] = "payment.succeeded"
          /\ pc = "workflow" => TypeOf[e] # "payment.succeeded"
    BY <2>1, TypesApart DEF AfterLedger
  <2>4. /\ worker'[w].pc = pc /\ EventOf(w)' = e
        /\ worker'[w].from = worker[w].from /\ Target(w)' = p
    BY <1>1, <1>2, <1>6, <2>3 DEF Arrives, EventOf, Target
  <2>5. /\ TypeOf[e] = "payment.succeeded" =>
             Posted(ledger', p, "payment_cleared")
        /\ Supersedes(e) => Posted(ledger', p, ReversalEntryOf(TypeOf[e]))
    BY <1>4, <1>5, TypesApart DEF PlanFits, ClearedPlan
  <2>6. KnowsEvent(w)'
    BY <2>1, <2>3, <2>4 DEF KnowsEvent, AboutOutcome, IsSound
  <2>7. KnowsMarker(w)'
    BY <2>1, <2>2, <2>4 DEF KnowsMarker, AboutOutcome
  <2>8. KnowsBooks(w)'
    BY <2>1, <2>3, <2>4, <2>5 DEF KnowsBooks, Supersedes, Dest
  <2> QED
    BY <1>6, <2>4, <2>6, <2>7, <2>8
    DEF Knows, KnowsPlan, KnowsStatus, KnowsDone, Arrives
<1> QED
  BY <1>7, <1>8

\* The stamp of a payout.
LEMMA StampKnows ==
  ASSUME PipeInv, Grows, NEW w \in Worker, markPayoutCompleted(w)
  PROVE  /\ Knows(w)'
         /\ \A v \in Worker : v # w => worker'[v] = worker[v]
<1>0. /\ worker[w].pc = "stampPayout" /\ ledger' = ledger
  BY DEF markPayoutCompleted
<1>1. PICK e \in Event : e = EventOf(w)
  BY <1>0, Holds
<1>2. PICK p \in Payment : p = Target(w) /\ p = PaymentOf[e]
  BY <1>0, <1>1, Holds DEF Target
<1>3. IsPayout(e) /\ Posted(ledger', p, "payout")
  BY <1>0, <1>1, <1>2 DEF PipeInv, Knows, KnowsEvent, KnowsBooks
<1>4. Arrives(w, "auditPayout")
  BY GotoArrives DEF markPayoutCompleted, PC
<1>5. payment'[p].payoutCompleted
  BY <1>2
  DEF markPayoutCompleted, PipeInv, AuthorInv, TypeInv, TypeOK, PaymentRow
<1>6. Knows(w)'
  BY <1>0, <1>1, <1>2, <1>3, <1>4, <1>5, PayoutArrives
<1> QED
  BY <1>4, <1>6 DEF Arrives

\* The audit row of a payout, which finishes it.
LEMMA PayoutAuditKnows ==
  ASSUME PipeInv, Grows, NEW w \in Worker, recordPayoutAudit(w)
  PROVE  /\ Knows(w)'
         /\ \A v \in Worker : v # w => worker'[v] = worker[v]
<1>0. /\ worker[w].pc = "auditPayout" /\ ledger' = ledger /\ event' = event
      /\ payment' = payment
  BY DEF recordPayoutAudit
<1>1. PICK e \in Event : e = EventOf(w)
  BY <1>0, Holds
<1>2. PICK p \in Payment : p = Target(w) /\ p = PaymentOf[e]
  BY <1>0, <1>1, Holds DEF Target
<1>3. /\ IsPayout(e) /\ Posted(ledger', p, "payout")
      /\ payment'[p].payoutCompleted
  BY <1>0, <1>1, <1>2 DEF PipeInv, Knows, KnowsEvent, KnowsBooks
<1>4. Arrives(w, "processed") /\ <<e, "payout">> \in audit'
  BY <1>1, GotoArrives DEF recordPayoutAudit, PC
<1>5. ~IsSound(e) /\ ~Marked(e)'
  BY <1>0, <1>3
  DEF IsPayout, IsSound, EventTypeToStatus, PipeInv, MarkedIsSound, Marked
<1>6. Finished(e)'
  BY <1>2, <1>3, <1>4, <1>5
  DEF Finished, EffectsDone, LetGo, OutcomeKnown, IsSound
<1>7. Knows(w)'
  BY <1>0, <1>1, <1>4, <1>6, ProcessedKnows
<1> QED
  BY <1>4, <1>7 DEF Arrives

\* A marked event is finished once its effects are there: it is itself the
\* author of its outcome.
LEMMA MarkedFinishes ==
  ASSUME NEW e \in Event, IsSound(e), Marked(e)',
         <<e, "transition">> \in audit',
         TypeOf[e] = "payment.succeeded" =>
           /\ Posted(ledger', PaymentOf[e], "payment_cleared")
           /\ \/ payment'[PaymentOf[e]].lifecycleChecked
              \/ \E f \in Event : /\ IsAuthor(f, PaymentOf[e])' /\ Supersedes(f)
                                  /\ event'[f].status = "processed",
         Supersedes(e) =>
           /\ Posted(ledger', PaymentOf[e], ReversalEntryOf(TypeOf[e]))
           /\ IsCompensated(e)'
  PROVE  Finished(e)'
<1>1. TypeOf[e] \in DOMAIN EventTypeToStatus /\ ~IsPayout(e)
  BY DEF IsSound, IsPayout, EventTypeToStatus
<1>2. Dest(e) = "succeeded" => TypeOf[e] = "payment.succeeded"
  BY <1>1, SucceededType
<1>3. EffectsDone(e)'
  BY <1>1, <1>2 DEF EffectsDone, IsPayout, Supersedes, Dest
<1>4. IsAuthor(e, PaymentOf[e])'
  BY <1>1 DEF IsAuthor, Marked
<1>5. OutcomeKnown(e)'
  BY <1>4 DEF OutcomeKnown, Dest
<1> QED
  BY <1>3, <1>5 DEF Finished, LetGo

\* Whether the effects of a success are still wanted.
LEMMA DispositionKnows ==
  ASSUME PipeInv, Grows, NEW w \in Worker, evaluateSuccessEffectDisposition(w)
  PROVE  /\ Knows(w)'
         /\ \A v \in Worker : v # w => worker'[v] = worker[v]
<1>0. /\ worker[w].pc = "disposition" /\ event' = event /\ ledger' = ledger
  BY DEF evaluateSuccessEffectDisposition
<1>1. PICK e \in Event : e = EventOf(w)
  BY <1>0, Holds
<1>2. PICK p \in Payment : p = Target(w) /\ p = PaymentOf[e]
  BY <1>0, <1>1, Holds DEF Target
<1>3. /\ TypeOf[e] = "payment.succeeded" /\ ~Supersedes(e)
      /\ Posted(ledger', p, "payment_cleared")
  BY <1>0, <1>1, <1>2, TypesApart DEF PipeInv, Knows, KnowsEvent, KnowsBooks
<1>4. CASE Goto(w, "retryable")
  BY <1>0, <1>4, GotoArrives, FailureKnows DEF PC, Arrives
<1>5. CASE Goto(w, "workflow")
  <2>1. Arrives(w, "workflow")
    BY <1>5, GotoArrives DEF PC
  <2>2. Knows(w)'
    BY <1>0, <1>1, <1>2, <1>3, <2>1, OutcomeArrives
  <2> QED
    BY <2>1, <2>2 DEF Arrives
<1>6. CASE /\ worker[w].current \in Superseding
           /\ IsDurablySuperseded(p, worker[w].current)
           /\ Goto(w, "processed")
  <2>1. Arrives(w, "processed")
    BY <1>6, GotoArrives DEF PC
  <2>a. PICK t \in DOMAIN EventTypeToStatus :
          /\ EventTypeToStatus[t] \in Superseding
          /\ \E f \in TrustedEvents(p, t) : event[f].from = "succeeded"
    BY <1>6 DEF IsDurablySuperseded
  <2>2. PICK f \in TrustedEvents(p, t) : event[f].from = "succeeded"
    BY <2>a
  <2>3. /\ f \in Event /\ TypeOf[f] = t /\ PaymentOf[f] = p
        /\ event[f].status = "processed"
    BY <2>2, Trusted
  <2>4. /\ IsAuthor(f, p)' /\ Supersedes(f)
        /\ event'[f].status = "processed"
    BY <1>0, <2>a, <2>2, <2>3 DEF IsAuthor, Supersedes, Dest
  <2>5. IsSound(e) /\ Marked(e)' /\ <<e, "transition">> \in audit'
    BY <1>0, <1>1, PastTransition
  <2>6. Finished(e)'
    BY <1>2, <1>3, <2>3, <2>4, <2>5, MarkedFinishes
  <2>7. Knows(w)'
    BY <1>0, <1>1, <2>1, <2>6, ProcessedKnows
  <2> QED
    BY <2>1, <2>7 DEF Arrives
<1> QED
  BY <1>2, <1>4, <1>5, <1>6 DEF evaluateSuccessEffectDisposition

\* The installment of a success.
LEMMA SuccessKnows ==
  ASSUME PipeInv, Grows, NEW w \in Worker, coordinateSuccess(w)
  PROVE  /\ Knows(w)'
         /\ \A v \in Worker : v # w => worker'[v] = worker[v]
<1>0. worker[w].pc = "workflow" /\ ledger' = ledger
  BY DEF coordinateSuccess
<1>1. PICK e \in Event : e = EventOf(w)
  BY <1>0, Holds
<1>2. TypeOf[e] = "payment.succeeded" /\ ~Supersedes(e)
  BY <1>1, TypesApart DEF coordinateSuccess
<1>3. Posted(ledger', PaymentOf[e], "payment_cleared")
  BY <1>0, <1>1, <1>2 DEF PipeInv, Knows, KnowsBooks, Target
<1>4. Arrives(w, "completion")
  BY GotoArrives DEF coordinateSuccess, PC
<1>5. Knows(w)'
  BY <1>0, <1>1, <1>2, <1>3, <1>4, OutcomeArrives
<1> QED
  BY <1>4, <1>5 DEF Arrives

\* The installment of a failure, which finishes it.
LEMMA FailedKnows ==
  ASSUME PipeInv, Grows, NEW w \in Worker, coordinateFailure(w)
  PROVE  /\ Knows(w)'
         /\ \A v \in Worker : v # w => worker'[v] = worker[v]
<1>0. worker[w].pc = "workflow"
  BY DEF coordinateFailure
<1>1. PICK e \in Event : e = EventOf(w)
  BY <1>0, Holds
<1>2. TypeOf[e] = "payment.failed" /\ ~Supersedes(e)
  BY <1>1, TypesApart DEF coordinateFailure
<1>3. IsSound(e) /\ Marked(e)' /\ <<e, "transition">> \in audit'
  BY <1>0, <1>1, PastTransition
<1>4. Arrives(w, "processed")
  BY GotoArrives DEF coordinateFailure, PC
<1>5. Finished(e)'
  BY <1>2, <1>3, MarkedFinishes
<1>6. Knows(w)'
  BY <1>0, <1>1, <1>4, <1>5, ProcessedKnows
<1> QED
  BY <1>4, <1>6 DEF Arrives

\* The installment of a superseded payment.
LEMMA SupersessionKnows ==
  ASSUME PipeInv, Grows, NEW w \in Worker, coordinateSupersession(w)
  PROVE  /\ Knows(w)'
         /\ \A v \in Worker : v # w => worker'[v] = worker[v]
<1>0. worker[w].pc = "workflow" /\ ledger' = ledger
  BY DEF coordinateSupersession
<1>1. PICK e \in Event : e = EventOf(w)
  BY <1>0, Holds
<1>2. Supersedes(e) /\ TypeOf[e] # "payment.succeeded"
  BY <1>1, TypesApart DEF coordinateSupersession
<1>3. Posted(ledger', PaymentOf[e], ReversalEntryOf(TypeOf[e]))
  BY <1>0, <1>1, <1>2 DEF PipeInv, Knows, KnowsBooks, Target
<1>4. IsCompensated(e)'
  BY <1>1, CompensatedStays DEF coordinateSupersession, IsCompensated
<1>5. Arrives(w, "completion")
  BY GotoArrives DEF coordinateSupersession, PC
<1>6. Knows(w)'
  BY <1>0, <1>1, <1>2, <1>3, <1>4, <1>5, OutcomeArrives
<1> QED
  BY <1>5, <1>6 DEF Arrives

\* The agreement of a success.
LEMMA CompletionKnows ==
  ASSUME PipeInv, Grows, NEW w \in Worker, decideAndApply(w)
  PROVE  /\ Knows(w)'
         /\ \A v \in Worker : v # w => worker'[v] = worker[v]
<1>0. worker[w].pc = "completion" /\ ledger' = ledger
  BY DEF decideAndApply
<1>1. PICK e \in Event : e = EventOf(w)
  BY <1>0, Holds
<1>2. TypeOf[e] = "payment.succeeded" /\ ~Supersedes(e)
  BY <1>1, TypesApart DEF decideAndApply
<1>3. Posted(ledger', PaymentOf[e], "payment_cleared")
  BY <1>0, <1>1, <1>2 DEF PipeInv, Knows, KnowsBooks, Target
<1>4. Arrives(w, "lifecycle")
  BY GotoArrives DEF decideAndApply, PC
<1>5. Knows(w)'
  BY <1>0, <1>1, <1>2, <1>3, <1>4, OutcomeArrives
<1> QED
  BY <1>4, <1>5 DEF Arrives

\* The stamp that finishes a success.
LEMMA LifecycleKnows ==
  ASSUME PipeInv, Grows, NEW w \in Worker, markLifecycleChecked(w)
  PROVE  /\ Knows(w)'
         /\ \A v \in Worker : v # w => worker'[v] = worker[v]
<1>0. worker[w].pc = "lifecycle" /\ ledger' = ledger
  BY DEF markLifecycleChecked
<1>1. PICK e \in Event : e = EventOf(w)
  BY <1>0, Holds
<1>2. PICK p \in Payment : p = Target(w) /\ p = PaymentOf[e]
  BY <1>0, <1>1, Holds DEF Target
<1>3. /\ TypeOf[e] = "payment.succeeded" /\ ~Supersedes(e)
      /\ Posted(ledger', p, "payment_cleared")
  BY <1>0, <1>1, <1>2, TypesApart DEF PipeInv, Knows, KnowsEvent, KnowsBooks
<1>4. payment'[p].lifecycleChecked
  BY <1>2
  DEF markLifecycleChecked, PipeInv, AuthorInv, TypeInv, TypeOK, PaymentRow
<1>5. IsSound(e) /\ Marked(e)' /\ <<e, "transition">> \in audit'
  BY <1>0, <1>1, PastTransition
<1>6. Arrives(w, "processed")
  BY GotoArrives DEF markLifecycleChecked, PC
<1>7. Finished(e)'
  BY <1>2, <1>3, <1>4, <1>5, MarkedFinishes
<1>8. Knows(w)'
  BY <1>0, <1>1, <1>6, <1>7, ProcessedKnows
<1> QED
  BY <1>6, <1>8 DEF Arrives

\* The agreement of a superseded payment, which finishes its event.
LEMMA RecomputeKnows ==
  ASSUME PipeInv, Grows, NEW w \in Worker, recomputeAfterSupersession(w)
  PROVE  /\ Knows(w)'
         /\ \A v \in Worker : v # w => worker'[v] = worker[v]
<1>0. worker[w].pc = "completion" /\ ledger' = ledger
  BY DEF recomputeAfterSupersession
<1>1. PICK e \in Event : e = EventOf(w)
  BY <1>0, Holds
<1>2. Supersedes(e) /\ TypeOf[e] # "payment.succeeded"
  BY <1>1, TypesApart DEF recomputeAfterSupersession
<1>3. Posted(ledger', PaymentOf[e], ReversalEntryOf(TypeOf[e]))
  BY <1>0, <1>1, <1>2 DEF PipeInv, Knows, KnowsBooks, Target
<1>4. IsCompensated(e)'
  BY <1>0, <1>1, <1>2, CompensatedStays DEF PipeInv, Knows, KnowsBooks
<1>5. IsSound(e) /\ Marked(e)' /\ <<e, "transition">> \in audit'
  BY <1>0, <1>1, PastTransition
<1>6. Arrives(w, "processed")
  BY GotoArrives DEF recomputeAfterSupersession, PC
<1>7. Finished(e)'
  BY <1>2, <1>3, <1>4, <1>5, MarkedFinishes
<1>8. Knows(w)'
  BY <1>0, <1>1, <1>6, <1>7, ProcessedKnows
<1> QED
  BY <1>6, <1>8 DEF Arrives

------------------------------------------------------------------------------
\* The invariant is inductive.

\* While w moves, and marks at most its own row, the others know what they
\* knew: nobody else has the token of w's row.
LEMMA OthersKnow ==
  ASSUME PipeInv, Grows, NEW w \in Worker, Knows(w)',
         \A v \in Worker : v # w => worker'[v] = worker[v],
         \A f \in Event : event'[f].from # event[f].from =>
                            worker[w].owner /\ f = EventOf(w)
  PROVE  \A v \in Worker : Knows(v)'
<1> SUFFICES ASSUME NEW v \in Worker, v # w PROVE Knows(v)'
  OBVIOUS
<1>1. CASE worker[v].pc = "idle"
  BY <1>1, IdleKnows
<1>2. CASE worker[v].pc # "idle"
  <2>1. worker[v].event \in Event
    BY <1>2, Holds DEF EventOf
  <2>2. worker[v].owner /\ worker[w].owner => worker[v].event # worker[w].event
    BY DEF PipeInv, AuthorInv, Fenced
  <2>3. StaysPut(v)
    BY <2>1, <2>2 DEF StaysPut, EventOf
  <2> QED
    BY <1>2, <2>3, KnowsStays
<1> QED
  BY <1>1, <1>2

\* When nobody moves and no marker changes, everybody knows what he knew.
LEMMA AllKnow ==
  ASSUME PipeInv, Grows, worker' = worker,
         \A f \in Event : event'[f].from = event[f].from
  PROVE  \A v \in Worker : Knows(v)'
<1> SUFFICES ASSUME NEW v \in Worker PROVE Knows(v)'
  OBVIOUS
<1>1. CASE worker[v].pc = "idle"
  BY <1>1, IdleKnows
<1>2. CASE worker[v].pc # "idle"
  <2>1. worker[v].event \in Event
    BY <1>2, Holds DEF EventOf
  <2>2. StaysPut(v)
    BY <2>1 DEF StaysPut
  <2> QED
    BY <1>2, <2>2, KnowsStays
<1> QED
  BY <1>1, <1>2

\* A worker that ends, one way or the other.
LEMMA ReleaseKnows ==
  ASSUME PipeInv, Grows, NEW w \in Worker, Releases(w)
  PROVE  \A v \in Worker : Knows(v)'
<1>1. worker \in [Worker -> WorkerState]
  BY DEF PipeInv, AuthorInv, TypeInv, TypeOK
<1>2. /\ worker'[w].pc = "idle"
      /\ \A v \in Worker : v # w => worker'[v] = worker[v]
      /\ \A f \in Event : event'[f].from = event[f].from
  BY <1>1, IdleMoves DEF Releases
<1>3. Knows(w)'
  BY <1>2, IdleKnows
<1> QED
  BY <1>2, <1>3, OthersKnow

\* A claim: w starts from the row's marker, and the row's former owner is not
\* one any more.
LEMMA ClaimKnows ==
  ASSUME PipeInv, Grows, NEW w \in Worker, NEW e \in Event, Takes(w, e)
  PROVE  \A v \in Worker : Knows(v)'
<1>1. worker \in [Worker -> WorkerState] /\ event \in [Event -> EventRow]
  BY DEF PipeInv, AuthorInv, TypeInv, TypeOK
<1>2. TakeOwnership(w, e) /\ \A f \in Event : event'[f].from = event[f].from
  BY DEF Takes
<1>3. Knows(w)'
  <2>1. /\ worker'[w].pc = "lookup" /\ EventOf(w)' = e
        /\ worker'[w].from = event[e].from
    BY <1>1, <1>2, ClaimMoves DEF EventOf
  <2>2. worker'[w].from # "none" => Marked(e)'
    BY <1>2, <2>1 DEF Marked
  <2> QED
    BY <2>1, <2>2
    DEF Knows, KnowsEvent, KnowsMarker, KnowsBooks, KnowsPlan, KnowsStatus,
        KnowsDone, AboutOutcome
<1>4. ASSUME NEW v \in Worker, v # w PROVE Knows(v)'
  <2>1. /\ worker'[v].pc = worker[v].pc
        /\ worker'[v].event = worker[v].event
        /\ worker'[v].from = worker[v].from
        /\ worker'[v].current = worker[v].current
        /\ worker'[v].plan = worker[v].plan
        /\ worker'[v].owner => worker[v].owner
    BY <1>1, <1>2, <1>4, ClaimMoves
  <2>2. CASE worker[v].pc = "idle"
    BY <2>1, <2>2, IdleKnows
  <2>3. CASE worker[v].pc # "idle"
    <3>1. worker[v].event \in Event
      BY <2>3, Holds DEF EventOf
    <3>2. StaysPut(v)
      BY <1>2, <2>1, <3>1 DEF StaysPut
    <3> QED
      BY <2>3, <3>2, KnowsStays
  <2> QED
    BY <2>2, <2>3
<1> QED
  BY <1>3, <1>4

\* A finalization or a crash ends a worker's claim.
LEMMA Ends ==
  ASSUME PipeInv, NEW w \in Worker,
         \/ markProcessed(w) \/ markFailedRetryable(w)
         \/ markFailedPermanent(w) \/ Crash(w)
  PROVE  Releases(w)
<1>1. /\ event \in [Event -> EventRow]
      /\ worker[w].pc # "idle" => worker[w].event \in Event
  BY DEF PipeInv, AuthorInv, TypeInv, TypeOK, Holding
<1>2. /\ worker[w].pc # "idle"
      /\ worker' = [worker EXCEPT ![w] = Idle]
      /\ PaymentsKept
  BY DEF markProcessed, markFailedRetryable, markFailedPermanent, Crash,
         Finalize, PaymentsKept
<1>3. \A f \in Event : /\ event'[f].from = event[f].from
                       /\ f # worker[w].event \/ ~worker[w].owner =>
                            event'[f] = event[f]
  <2>1. CASE Crash(w)
    BY <2>1 DEF Crash
  <2>2. CASE markProcessed(w)
    BY <1>1, <1>2, <2>2 DEF markProcessed, Finalize, EventOf, EventRow
  <2>3. CASE markFailedRetryable(w)
    BY <1>1, <1>2, <2>3 DEF markFailedRetryable, Finalize, EventOf, EventRow
  <2>4. CASE markFailedPermanent(w)
    BY <1>1, <1>2, <2>4 DEF markFailedPermanent, Finalize, EventOf, EventRow
  <2> QED
    BY <2>1, <2>2, <2>3, <2>4
<1> QED
  BY <1>2, <1>3 DEF Releases

\* Every step leaves every worker with what it has to know.
LEMMA KnowsStep ==
  ASSUME PipeInv, Grows, [Next]_vars
  PROVE  \A v \in Worker : Knows(v)'
<1>a. /\ event \in [Event -> EventRow]
      /\ worker \in [Worker -> WorkerState]
  BY DEF PipeInv, AuthorInv, TypeInv, TypeOK
<1>1. ASSUME NEW w \in Worker, NEW e \in Event, tryInsertAndClaim(w, e)
      PROVE  \A v \in Worker : Knows(v)'
  <2>1. Takes(w, e)
    BY <1>1, <1>a DEF tryInsertAndClaim, EventRow, Takes, PaymentsKept
  <2> QED
    BY <2>1, ClaimKnows
<1>2. ASSUME NEW w \in Worker, NEW e \in Event, claimExisting(w, e)
      PROVE  \A v \in Worker : Knows(v)'
  <2>1. Takes(w, e)
    BY <1>2, <1>a DEF claimExisting, EventRow, IsEligible, Takes, PaymentsKept
  <2> QED
    BY <2>1, ClaimKnows
<1>3. ASSUME NEW w \in Worker, applyTransition(w)
      PROVE  \A v \in Worker : Knows(v)'
  <2>1. \A f \in Event : event'[f].from # event[f].from =>
                           worker[w].owner /\ f = EventOf(w)
    <3>1. \/ event' = event
          \/ \E old : MarkTransition(w, old)
      BY <1>3 DEF applyTransition
    <3> QED
      BY <1>a, <3>1 DEF MarkTransition
  <2> QED
    BY <1>3, <2>1, TransitionKnows, OthersKnow
<1>4. ASSUME NEW w \in Worker, Step(w), ~applyTransition(w),
             ~markProcessed(w), ~markFailedRetryable(w), ~markFailedPermanent(w)
      PROVE  \A v \in Worker : Knows(v)'
  <2>1. event' = event
    BY <1>4
    DEF Step, LookupPayment, RereadPayment,
        recordTransitionAudit, detectAndRecordConflict, postPaymentCleared,
        reversePayment, NoLedgerEntry, postPayout, insertEntry,
        markPayoutCompleted, recordPayoutAudit,
        evaluateSuccessEffectDisposition, coordinateSuccess, coordinateFailure,
        coordinateSupersession, decideAndApply, markLifecycleChecked,
        recomputeAfterSupersession
  <2>2. Knows(w)' /\ \A v \in Worker : v # w => worker'[v] = worker[v]
    BY <1>4, LookupKnows, RereadKnows, AuditKnows, ConflictKnows,
       ClearedKnows, ReversalKnows, NoEntryKnows, PayoutKnows, InsertKnows,
       StampKnows, PayoutAuditKnows, DispositionKnows, SuccessKnows,
       FailedKnows, SupersessionKnows, CompletionKnows, LifecycleKnows,
       RecomputeKnows
    DEF Step
  <2> QED
    BY <2>1, <2>2, OthersKnow
<1>5. ASSUME NEW w \in Worker,
             \/ markProcessed(w) \/ markFailedRetryable(w)
             \/ markFailedPermanent(w) \/ Crash(w)
      PROVE  \A v \in Worker : Knows(v)'
  BY <1>5, Ends, ReleaseKnows
<1>6. ASSUME NEW w \in Worker, TransientError(w)
      PROVE  \A v \in Worker : Knows(v)'
  <2>1. event' = event /\ worker[w].pc # "idle" /\ Arrives(w, "retryable")
    BY <1>6, GotoArrives DEF TransientError, Working, PC
  <2>2. Knows(w)'
    BY <2>1, FailureKnows
  <2> QED
    BY <2>1, <2>2, OthersKnow DEF Arrives
<1>7. ASSUME NEW e \in Event, LeaseExpires(e) \/ BackoffElapses(e)
      PROVE  \A v \in Worker : Knows(v)'
  <2>1. worker' = worker /\ \A f \in Event : event'[f].from = event[f].from
    BY <1>7, <1>a DEF LeaseExpires, BackoffElapses, EventRow
  <2> QED
    BY <2>1, AllKnow
<1>8. ASSUME NEW i \in Installment, DueDatePasses(i)
      PROVE  \A v \in Worker : Knows(v)'
  BY <1>8, AllKnow DEF DueDatePasses
<1>9. ASSUME NEW p \in Payment, PersistProviderPaymentId(p)
      PROVE  \A v \in Worker : Knows(v)'
  BY <1>9, AllKnow DEF PersistProviderPaymentId
<1>10. CASE UNCHANGED vars
  BY <1>10, AllKnow DEF vars
<1> QED
  BY <1>1, <1>2, <1>3, <1>4, <1>5, <1>6, <1>7, <1>8, <1>9, <1>10 DEF Next

\* A step of one worker moves no other.
LEMMA OthersStay ==
  ASSUME PipeInv, Grows, NEW w \in Worker,
         Step(w) \/ Crash(w) \/ TransientError(w)
  PROVE  \A v \in Worker : v # w => worker'[v] = worker[v]
<1>1. CASE Step(w) /\ ~markProcessed(w) /\ ~markFailedRetryable(w)
             /\ ~markFailedPermanent(w)
  BY <1>1, LookupKnows, TransitionKnows, RereadKnows, AuditKnows, ConflictKnows,
     ClearedKnows, ReversalKnows, NoEntryKnows, PayoutKnows, InsertKnows,
     StampKnows, PayoutAuditKnows, DispositionKnows, SuccessKnows,
     FailedKnows, SupersessionKnows, CompletionKnows, LifecycleKnows,
     RecomputeKnows
  DEF Step
<1>2. CASE \/ markProcessed(w) \/ markFailedRetryable(w)
           \/ markFailedPermanent(w) \/ Crash(w)
  <2>1. worker' = [worker EXCEPT ![w] = Idle]
    BY <1>2, Ends DEF Releases
  <2> QED
    BY <2>1 DEF PipeInv, AuthorInv, TypeInv, TypeOK
<1>3. CASE TransientError(w)
  BY <1>3, GotoArrives DEF TransientError, PC, Arrives
<1> QED
  BY <1>1, <1>2, <1>3

\* Only an insertion touches the ledger.
LEMMA LedgerSteps ==
  ASSUME [Next]_vars, ledger' # ledger
  PROVE  \E w \in Worker : insertEntry(w)
BY ZenonT(60) DEF Next, vars, Step, LookupPayment, applyTransition, RereadPayment,
       recordTransitionAudit, detectAndRecordConflict, postPaymentCleared,
       reversePayment, NoLedgerEntry, postPayout,
       markPayoutCompleted, recordPayoutAudit,
       evaluateSuccessEffectDisposition, coordinateSuccess, coordinateFailure,
       coordinateSupersession, decideAndApply, markLifecycleChecked,
       recomputeAfterSupersession, Finalize, markProcessed,
       markFailedRetryable, markFailedPermanent, tryInsertAndClaim,
       claimExisting, Crash, TransientError, LeaseExpires, BackoffElapses,
       DueDatePasses, PersistProviderPaymentId

\* What an insertion adds, if anything: one entry, which fits the event of the
\* worker that planned it.
LEMMA InsertionFits ==
  ASSUME PipeInv, NEW w \in Worker, insertEntry(w), ledger' # ledger
  PROVE  \E e \in Event, en \in Entry(Payment) :
           /\ ledger' = ledger \cup {en}
           /\ ~Posted(ledger, en.payment, en.entryType)
           /\ PlanFits(e, en)
           /\ \/ IsPayout(e)
              \/ IsSound(e) /\ IsAuthor(e, PaymentOf[e])
<1>0. worker[w].pc = "insert"
  BY DEF insertEntry
<1>1. PICK e \in Event : e = EventOf(w)
  BY <1>0, Holds
<1>2. PICK en \in worker[w].plan : ledger' = InsertIdempotently(ledger, en)
  BY DEF insertEntry
<1>3. en \in Entry(Payment)
  BY <1>2 DEF PipeInv, AuthorInv, TypeInv, TypeOK, WorkerState
<1>4. PlanFits(e, en)
  BY <1>0, <1>1, <1>2 DEF PipeInv, Knows, KnowsPlan
<1>5. /\ ledger' = ledger \cup {en}
      /\ ~Posted(ledger, en.payment, en.entryType)
  BY <1>2 DEF InsertIdempotently
<1>6. ASSUME ~IsPayout(e) PROVE IsSound(e) /\ IsAuthor(e, PaymentOf[e])
  <2>1. IsSound(e) /\ worker[w].from # "none"
    BY <1>0, <1>1, <1>6 DEF PipeInv, Knows, KnowsEvent, KnowsMarker
  <2>2. Marked(e)
    BY <1>0, <1>1, <2>1 DEF PipeInv, Knows, KnowsMarker
  <2> QED
    BY <2>1, <2>2 DEF IsAuthor, IsSound, Marked
<1> QED
  BY <1>3, <1>4, <1>5, <1>6

\* What is posted as a clearing has the payment's amount.
LEMMA ExactStep ==
  ASSUME PipeInv, [Next]_vars
  PROVE  Exact(ledger')
<1> SUFFICES ASSUME NEW en \in ledger', en.entryType = "payment_cleared", en \notin ledger
             PROVE  en.gross = AmountOf[en.payment]
  BY DEF PipeInv, Exact
<1>1. PICK w \in Worker : insertEntry(w)
  BY LedgerSteps
<1>2. PICK e \in Event : PlanFits(e, en)
  BY <1>1, InsertionFits
<1>3. en = ClearedPlan(PaymentOf[e], AmountOf[PaymentOf[e]], FeeIn[e], PlatformFee)
  BY <1>2 DEF PlanFits, ReversalEntryOf
<1> QED
  BY <1>3 DEF ClearedPlan

\* Only the owner, at the end, calls an event processed.
LEMMA ProcessedSteps ==
  ASSUME PipeInv, [Next]_vars, NEW e \in Event,
         event[e].status # "processed", event'[e].status = "processed"
  PROVE  \E w \in Worker :
           /\ worker[w].pc = "processed" /\ worker[w].owner
           /\ e = EventOf(w) /\ event'[e].from = event[e].from
<1>a. /\ event \in [Event -> EventRow]
      /\ \A w \in Worker : worker[w].pc # "idle" => EventOf(w) \in Event
  BY Holds DEF PipeInv, AuthorInv, TypeInv, TypeOK
<1>1. PICK w \in Worker : markProcessed(w)
  <2>1. ~UNCHANGED event
    OBVIOUS
  <2>2. ASSUME NEW w \in Worker, NEW f \in Event,
               tryInsertAndClaim(w, f) \/ claimExisting(w, f)
        PROVE  FALSE
    BY <1>a, <2>2 DEF tryInsertAndClaim, claimExisting, EventRow
  <2>3. ASSUME NEW w \in Worker, applyTransition(w) PROVE FALSE
    BY <1>a, <2>1, <2>3 DEF applyTransition, MarkTransition, EventRow
  <2>4. ASSUME NEW w \in Worker, markFailedRetryable(w) PROVE FALSE
    BY <1>a, <2>4 DEF markFailedRetryable, Finalize, EventRow
  <2>5. ASSUME NEW w \in Worker, markFailedPermanent(w) PROVE FALSE
    BY <1>a, <2>5 DEF markFailedPermanent, Finalize, EventRow
  <2>6. ASSUME NEW f \in Event, LeaseExpires(f) \/ BackoffElapses(f)
        PROVE  FALSE
    BY <1>a, <2>6 DEF LeaseExpires, BackoffElapses, EventRow
  <2> QED
    BY <2>1, <2>2, <2>3, <2>4, <2>5, <2>6, ZenonT(60)
    DEF Next, vars, Step, LookupPayment, RereadPayment,
        recordTransitionAudit, detectAndRecordConflict, postPaymentCleared,
        reversePayment, NoLedgerEntry, postPayout, insertEntry,
        markPayoutCompleted, recordPayoutAudit,
        evaluateSuccessEffectDisposition, coordinateSuccess, coordinateFailure,
        coordinateSupersession, decideAndApply, markLifecycleChecked,
        recomputeAfterSupersession, Crash, TransientError,
        DueDatePasses, PersistProviderPaymentId
<1>2. worker[w].pc = "processed"
  BY <1>1 DEF markProcessed
<1>3. Releases(w)
  BY <1>1, Ends
<1> QED
  BY <1>2, <1>3 DEF Releases, EventOf

\* What is processed is finished.
LEMMA FinishedStep ==
  ASSUME PipeInv, Grows, [Next]_vars
  PROVE  FinishedWhenProcessed'
<1> SUFFICES ASSUME NEW e \in Event, event'[e].status = "processed"
             PROVE  Finished(e)'
  BY DEF FinishedWhenProcessed
<1>1. CASE event[e].status = "processed"
  <2>1. Finished(e) /\ event'[e].from = event[e].from
    BY <1>1 DEF PipeInv, FinishedWhenProcessed, Grows, MarkersGrow
  <2> QED
    BY <2>1, FinishedStays
<1>2. CASE event[e].status # "processed"
  <2>1. PICK w \in Worker : /\ worker[w].pc = "processed" /\ worker[w].owner
                            /\ e = EventOf(w)
                            /\ event'[e].from = event[e].from
    BY <1>2, ProcessedSteps
  <2>2. Finished(e)
    BY <2>1 DEF PipeInv, Knows, KnowsDone
  <2> QED
    BY <2>1, <2>2, FinishedStays
<1> QED
  BY <1>1, <1>2

\* PipeInv is inductive.
LEMMA PipeInvStep == PipeInv /\ [Next]_vars => PipeInv'
<1> SUFFICES ASSUME PipeInv, [Next]_vars PROVE PipeInv'
  OBVIOUS
<1>1. AuthorInv' /\ Grows /\ StatusRange'
  BY AuthorInvStep, Growth DEF PipeInv
<1>2. MarkedIsSound' /\ Exact(ledger') /\ FinishedWhenProcessed'
  BY <1>1, MarkersStaySound, ExactStep, FinishedStep
<1>3. \A v \in Worker : Knows(v)'
  BY <1>1, KnowsStep
<1> QED
  BY <1>1, <1>2, <1>3 DEF PipeInv, Exact

\* Initially nobody knows anything, and nothing is posted.
LEMMA PipeInvInit == Init => PipeInv
<1> SUFFICES ASSUME Init PROVE PipeInv
  OBVIOUS
<1>1. AuthorInv
  BY AuthorInvInit
<1>2. StatusRange /\ MarkedIsSound /\ Exact(ledger) /\ FinishedWhenProcessed
  BY DEF Init, StatusRange, MarkedIsSound, Marked, NoRow, Exact,
         FinishedWhenProcessed
<1>3. \A w \in Worker : Knows(w)
  BY IdleKnows DEF Init, Idle
<1> QED
  BY <1>1, <1>2, <1>3 DEF PipeInv

\* So it always holds.
LEMMA PipeInvAlways == Spec => []PipeInv
BY PipeInvInit, PipeInvStep, PTL DEF Spec

\* What the invariant says of what is processed.
LEMMA PipeMeansDone == PipeInv => ProcessedMeansDone /\ NoOutcomeDropped
<1> SUFFICES ASSUME PipeInv PROVE ProcessedMeansDone /\ NoOutcomeDropped
  OBVIOUS
<1>1. ProcessedMeansDone
  BY DEF PipeInv, FinishedWhenProcessed, Finished, EffectsDone, Marked,
         IsPayout, ProcessedMeansDone
<1>2. NoOutcomeDropped
  BY DEF PipeInv, FinishedWhenProcessed, Finished, LetGo, Dropped, Marked,
         NoOutcomeDropped
<1> QED
  BY <1>1, <1>2

\* Whatever workers did its steps, and however often they stopped, were
\* overtaken or failed: a processed event left its audit row, its ledger entry
\* and its effects, or those of what superseded it.
THEOREM NothingLeftUndone == Spec => []ProcessedMeansDone
BY PipeMeansDone, PipeInvAlways, PTL

\* An event with sound evidence is let go without effect only when its outcome
\* is out of the payment's reach for good.
THEOREM NothingLetGoEarly == Spec => []NoOutcomeDropped
BY PipeMeansDone, PipeInvAlways, PTL

------------------------------------------------------------------------------
\* Fees.  A clearing comes from the success that moved its payment, as long as
\* only the pipeline posts it.

FeeKnown(e) ==
  IsSound(e) /\ TypeOf[e] = "payment.succeeded" /\ ~Marked(e) =>
    \A f \in Event :
      /\ TypeOf[f] = "payment.succeeded" /\ IsSound(f)
      /\ IsAuthor(f, PaymentOf[e]) /\ FeeIn[f] # FeeIn[e]
      => <<"processor_fee_mismatch", e>> \in exceptions

\* A worker with the token of e is about to call it processed.
AtEnd(w, e) ==
  /\ EventOf(w) = e /\ worker[w].owner /\ worker[w].pc = "processed"

FeesInv ==
  /\ ClearedIsEarned
  /\ \A e \in Event :
       event[e].status = "processed" \/ (\E w \in Worker : AtEnd(w, e)) => FeeKnown(e)

\* A clearing is earned when it is posted, and stays so.
LEMMA EarnedStep ==
  ASSUME PipeInv, ClearedIsEarned, Grows, [Next]_vars
  PROVE  ClearedIsEarned'
<1> SUFFICES ASSUME NEW en \in ledger', en.entryType = "payment_cleared"
             PROVE  /\ CreditorNet(en) >= 0
                    /\ en.gross = AmountOf[en.payment]
                    /\ \E e \in Event : /\ IsAuthor(e, en.payment)'
                                        /\ Dest(e) = "succeeded"
                                        /\ IsSound(e)
                                        /\ FeeIn[e] = en.processorFee
  BY DEF ClearedIsEarned, Dest, IsSound, CreditorNet
<1>1. CASE en \in ledger
  BY <1>1, AuthorsStay DEF ClearedIsEarned
<1>2. CASE en \notin ledger
  <2>1. PICK w \in Worker : insertEntry(w)
    BY <1>2, LedgerSteps
  <2>2. PICK e \in Event :
          /\ PlanFits(e, en)
          /\ IsPayout(e) \/ (IsSound(e) /\ IsAuthor(e, PaymentOf[e]))
    BY <1>2, <2>1, InsertionFits
  <2>3. TypeOf[e] = "payment.succeeded"
    BY <2>2 DEF PlanFits, ReversalEntryOf
  <2>4. PICK p \in Payment : p = PaymentOf[e]
    BY ConstantsAssumption
  <2>5. /\ en = ClearedPlan(p, AmountOf[p], FeeIn[e], PlatformFee)
        /\ ~FeesExceedGross(AmountOf[p], FeeIn[e], PlatformFee)
    BY <2>2, <2>3, <2>4, TypesApart DEF PlanFits
  <2>6. AmountOf[p] \in Nat /\ FeeIn[e] \in Nat
    BY ConstantsAssumption
  <2>7. /\ en.gross = AmountOf[p] /\ en.payment = p
        /\ en.processorFee = FeeIn[e] /\ CreditorNet(en) >= 0
    BY <2>5, <2>6 DEF ClearedPlan, FeesExceedGross, PlatformFee, CreditorNet
  <2>8. IsSound(e) /\ IsAuthor(e, p)
    BY <2>2, <2>3, <2>4 DEF IsPayout
  <2>9. Dest(e) = "succeeded" /\ IsAuthor(e, p)'
    BY <2>3, <2>8, SucceededType, AuthorsStay DEF IsSound
  <2> QED
    BY <2>7, <2>8, <2>9
<1> QED
  BY <1>1, <1>2

\* A fee that differs from that of the payment's success is a conflict,
\* posted or not.
LEMMA FeesKnown ==
  ASSUME PipeInv, ClearedIsEarned, NEW p \in Payment,
         NEW f \in Event, IsAuthor(f, p), IsSound(f),
         TypeOf[f] = "payment.succeeded"
  PROVE  FeeIn[f] \in KnownProcessorFees(p)
<1>1. Dest(f) = "succeeded"
  BY SucceededType DEF IsSound
<1>2. CASE Posted(ledger, p, "payment_cleared")
  <2>1. PICK en \in ledger : /\ en = Find(ledger, p, "payment_cleared")
                             /\ en.payment = p
                             /\ en.entryType = "payment_cleared"
    BY <1>2, FindFinds
  <2>2. PICK g \in Event : /\ IsAuthor(g, p) /\ Dest(g) = "succeeded"
                           /\ FeeIn[g] = en.processorFee
    BY <2>1 DEF ClearedIsEarned
  <2>3. g = f
    BY <1>1, <2>2, AuthorsOf
  <2> QED
    BY <1>2, <2>1, <2>2, <2>3 DEF KnownProcessorFees
<1>3. CASE ~Posted(ledger, p, "payment_cleared")
  <2> DEFINE all == Matching(p, "payment.succeeded",
                             LAMBDA e : event[e].from # "none")
  <2>1. f \in all
    BY DEF Matching, IsAuthor, IsSound
  <2>2. \A g \in all : g = f
    <3> SUFFICES ASSUME NEW g \in all PROVE g = f
      OBVIOUS
    <3>1. /\ g \in Event /\ IsAuthor(g, p)
          /\ TypeOf[g] = "payment.succeeded"
      BY DEF Matching, IsAuthor, EventTypeToStatus
    <3>2. Dest(g) = "succeeded"
      BY <3>1, SucceededType DEF IsAuthor
    <3> QED
      BY <1>1, <3>1, <3>2, AuthorsOf
  <2>3. all = {f}
    BY <2>1, <2>2
  <2> HIDE DEF all
  <2>4. Cardinality(all) = 1
    BY <2>3, FS_Singleton
  <2>5. CanonicalSuccess(p) = all
    BY <2>4 DEF CanonicalSuccess, all
  <2> QED
    BY <1>3, <2>1, <2>5 DEF KnownProcessorFees
<1> QED
  BY <1>2, <1>3


\* The fee of an event that is let go stays known: its payment takes no
\* further success.
LEMMA FeeStaysKnown ==
  ASSUME PipeInv, Grows, NEW e \in Event, LetGo(e), FeeKnown(e)
  PROVE  FeeKnown(e)'
<1>1. PICK p \in Payment : p = PaymentOf[e]
  BY ConstantsAssumption
<1> SUFFICES ASSUME IsSound(e), TypeOf[e] = "payment.succeeded", ~Marked(e)',
                    NEW f \in Event, TypeOf[f] = "payment.succeeded",
                    IsSound(f), IsAuthor(f, p)', FeeIn[f] # FeeIn[e]
             PROVE  <<"processor_fee_mismatch", e>> \in exceptions'
  BY <1>1 DEF FeeKnown, IsSound
<1>2. ~Marked(e)
  BY DEF Grows, MarkersGrow, Marked
<1>3. CASE IsAuthor(f, p)
  BY <1>1, <1>2, <1>3 DEF FeeKnown, Grows, BooksGrow
<1>4. CASE ~IsAuthor(f, p)
  <2>1. payment[p].status \in AllowedSources(Dest(f))
    BY <1>4, NewAuthors
  <2>2. Dest(f) = "succeeded"
    BY DEF Dest, EventTypeToStatus
  <2>3. payment[p].status \notin Unresolved
    BY <1>1, <1>2 DEF LetGo, Dropped
  <2> QED
    BY <2>1, <2>2, <2>3, SourcesOf
<1> QED
  BY <1>3, <1>4

\* A worker comes to the end of a sound event that moved nothing only through
\* the conflict.
LEMMA EndsByConflict ==
  ASSUME PipeInv, Grows, [Next]_vars, NEW e \in Event, IsSound(e), ~Marked(e)',
         NEW w \in Worker, AtEnd(w, e)'
  PROVE  AtEnd(w, e) \/ (detectAndRecordConflict(w) /\ EventOf(w) = e)
<1>a. worker \in [Worker -> WorkerState] /\ event \in [Event -> EventRow]
  BY DEF PipeInv, AuthorInv, TypeInv, TypeOK
<1>b. ~Marked(e) /\ ~IsPayout(e)
  BY DEF Grows, MarkersGrow, Marked, IsSound, IsPayout, EventTypeToStatus
<1>c. worker'[w].pc = "processed" /\ worker'[w].event = e /\ worker'[w].owner
  BY DEF AtEnd, EventOf
<1>d. CASE worker'[w] = worker[w]
  BY <1>d DEF AtEnd, EventOf
<1>1. ASSUME NEW v \in Worker, NEW f \in Event,
             tryInsertAndClaim(v, f) \/ claimExisting(v, f)
      PROVE  AtEnd(w, e)
  <2>1. TakeOwnership(v, f)
    BY <1>1 DEF tryInsertAndClaim, claimExisting
  <2>2. v # w
    BY <1>a, <1>c, <2>1, ClaimMoves
  <2> QED
    BY <1>a, <1>c, <2>1, <2>2, ClaimMoves DEF AtEnd, EventOf
<1>2. ASSUME NEW v \in Worker, v # w, Step(v) \/ Crash(v) \/ TransientError(v)
      PROVE  worker'[w] = worker[w]
  BY <1>2, OthersStay
<1>3. ASSUME \/ markProcessed(w) \/ markFailedRetryable(w)
             \/ markFailedPermanent(w) \/ Crash(w)
      PROVE  FALSE
  <2>1. worker'[w].pc = "idle"
    BY <1>3, <1>a, Ends, IdleMoves DEF Releases
  <2> QED
    BY <1>c, <2>1
<1>4. ASSUME NEW pc \in PC \ {"processed"}, Goto(w, pc) PROVE FALSE
  BY <1>4, <1>c, GotoArrives DEF Arrives
<1>6. ASSUME Goto(w, "processed") PROVE EventOf(w) = e
  <2>1. Arrives(w, "processed")
    BY <1>6, GotoArrives DEF PC
  <2> QED
    BY <1>c, <2>1 DEF Arrives, EventOf
<1>7. ASSUME LookupPayment(w) PROVE FALSE
  <2>1. \/ \E pc \in {"retryable", "payout", "transition", "reread"} : Goto(w, pc)
        \/ /\ Goto(w, "processed")
           /\ \/ TypeOf[EventOf(w)] = "unrecognized" \/ EventOf(w) \in Foreign
              \/ /\ TypeOf[EventOf(w)] = "payment.succeeded"
                 /\ AmountIn[EventOf(w)] # AmountOf[PaymentOf[EventOf(w)]]
    BY <1>7 DEF LookupPayment, Target
  <2> QED
    BY <1>4, <1>6, <2>1 DEF PC, IsSound, EventTypeToStatus
<1>8. ASSUME applyTransition(w) \/ RereadPayment(w) PROVE FALSE
  <2>1. worker'[w].pc \in {"audit", "conflict", "retryable"}
    BY <1>8, <1>a DEF applyTransition, RereadPayment, HavingRead, Goto, WorkerState
  <2> QED
    BY <1>c, <2>1
<1>9. ASSUME insertEntry(w) PROVE FALSE
  BY <1>9, <1>a, <1>c, InsertedMoves DEF insertEntry, AfterLedger, PC
<1>10. ASSUME \/ recordTransitionAudit(w) \/ postPaymentCleared(w)
              \/ reversePayment(w) \/ NoLedgerEntry(w) \/ postPayout(w)
              \/ markPayoutCompleted(w) \/ coordinateSuccess(w)
              \/ coordinateSupersession(w) \/ decideAndApply(w)
       PROVE  FALSE
  <2>1. CASE \E en : Insert(w, en)
    BY <2>1, <1>a, <1>c DEF Insert, WorkerState
  <2>2. CASE \E pc \in {"ledger", "retryable", "permanent", "workflow",
                        "disposition", "stampPayout", "auditPayout",
                        "completion", "lifecycle"} : Goto(w, pc)
    BY <1>4, <2>2 DEF PC
  <2> QED
    BY <1>10, <2>1, <2>2
    DEF recordTransitionAudit, postPaymentCleared, reversePayment,
        NoLedgerEntry, postPayout, markPayoutCompleted, AfterLedger,
        coordinateSuccess, coordinateSupersession, decideAndApply
<1>11. ASSUME recordPayoutAudit(w) PROVE FALSE
  <2>1. worker[w].pc = "auditPayout" /\ Goto(w, "processed")
    BY <1>11 DEF recordPayoutAudit
  <2> QED
    BY <1>6, <1>b, <2>1 DEF PipeInv, Knows, KnowsEvent
<1>12. ASSUME \/ evaluateSuccessEffectDisposition(w) \/ coordinateFailure(w)
              \/ markLifecycleChecked(w) \/ recomputeAfterSupersession(w)
       PROVE  FALSE
  <2>1. worker[w].pc \in {"disposition", "workflow", "lifecycle", "completion"}
    BY <1>12
    DEF evaluateSuccessEffectDisposition, coordinateFailure,
        markLifecycleChecked, recomputeAfterSupersession
  <2>2. \E pc \in {"retryable", "workflow", "processed"} : Goto(w, pc)
    BY <1>12
    DEF evaluateSuccessEffectDisposition, coordinateFailure,
        markLifecycleChecked, recomputeAfterSupersession
  <2>3. EventOf(w) = e
    BY <1>4, <1>6, <2>2 DEF PC
  <2> QED
    BY <1>b, <2>1, <2>3, PastTransition
<1>13. ASSUME TransientError(w) PROVE FALSE
  BY <1>4, <1>13 DEF TransientError, PC
<1>14. ASSUME detectAndRecordConflict(w) PROVE EventOf(w) = e
  BY <1>6, <1>14 DEF detectAndRecordConflict
<1> QED
  BY <1>d, <1>1, <1>2, <1>3, <1>7, <1>8, <1>9, <1>10, <1>11, <1>12, <1>13, <1>14
  DEF Next, vars, Step, LeaseExpires, BackoffElapses, DueDatePasses,
      PersistProviderPaymentId

LEMMA FeesInvStep == PipeInv /\ FeesInv /\ [Next]_vars => FeesInv'
<1> SUFFICES ASSUME PipeInv, FeesInv, [Next]_vars PROVE FeesInv'
  OBVIOUS
<1>0. Grows
  BY Growth
<1>1. ClearedIsEarned'
  BY <1>0, EarnedStep DEF FeesInv
<1>2. ASSUME NEW e \in Event,
             event[e].status = "processed" \/ \E w \in Worker : AtEnd(w, e)
      PROVE  FeeKnown(e)'
  <2>1. FeeKnown(e)
    BY <1>2 DEF FeesInv
  <2>2. LetGo(e)
    BY <1>2 DEF AtEnd, PipeInv, FinishedWhenProcessed, Knows, KnowsDone, Finished
  <2> QED
    BY <1>0, <2>1, <2>2, FeeStaysKnown
<1>3. ASSUME NEW e \in Event, NEW w \in Worker, AtEnd(w, e)'
      PROVE  FeeKnown(e)'
  <2> SUFFICES ASSUME IsSound(e), TypeOf[e] = "payment.succeeded", ~Marked(e)',
                      detectAndRecordConflict(w), EventOf(w) = e,
                      NEW f \in Event, TypeOf[f] = "payment.succeeded",
                      IsSound(f), IsAuthor(f, PaymentOf[e])', FeeIn[f] # FeeIn[e]
               PROVE  <<"processor_fee_mismatch", e>> \in exceptions'
    BY <1>0, <1>2, <1>3, EndsByConflict DEF FeeKnown, IsSound
  <2>1. IsAuthor(f, PaymentOf[e]) /\ PaymentOf[e] \in Payment
    BY ConstantsAssumption DEF detectAndRecordConflict, IsAuthor
  <2>2. FeeIn[f] \in KnownProcessorFees(PaymentOf[e])
    BY <2>1, FeesKnown DEF FeesInv
  <2> QED
    BY <2>2 DEF detectAndRecordConflict, Record, ExceptionType, Target
<1>4. ASSUME NEW e \in Event, event'[e].status = "processed" PROVE FeeKnown(e)'
  BY <1>2, <1>4, ProcessedSteps DEF AtEnd
<1> QED
  BY <1>1, <1>3, <1>4 DEF FeesInv

LEMMA FeesInvAlways == Spec => []FeesInv
<1>1. Init => FeesInv
  BY DEF Init, FeesInv, ClearedIsEarned, NoRow, Idle, AtEnd
<1> QED
  BY <1>1, FeesInvStep, PipeInvAlways, PTL DEF Spec

\* An event that disagrees with its payment, or with the processor fee of its
\* payment's success, has its exception when it is processed.
THEOREM NothingSettledInSilence == Spec => []DisagreementIsSurfaced
<1>1. PipeInv /\ FeesInv => DisagreementIsSurfaced
  BY DEF PipeInv, FinishedWhenProcessed, Finished, OutcomeKnown, FeesInv,
         FeeKnown, Marked, DisagreementIsSurfaced
<1> QED
  BY <1>1, PipeInvAlways, FeesInvAlways, PTL

\* Every clearing entry carries its payment's amount and the fee of the one
\* sound event that made the payment succeed, within that amount.
THEOREM MoneyIsEarned == Spec => []ClearedIsEarned
<1>1. FeesInv => ClearedIsEarned
  BY DEF FeesInv
<1> QED
  BY <1>1, FeesInvAlways, PTL

------------------------------------------------------------------------------
\* The pipeline implements PaymentLifecycle.

\* The refinement mapping.
StatusBar == [p \in Payment |-> payment[p].status]
PostedBar ==
  [p \in Payment |-> {en.entryType : en \in {x \in ledger : x.payment = p}}]

\* What the mapped state says is posted is what the ledger has.
LEMMA PostedBarIs ==
  ASSUME NEW p \in Payment, NEW t
  PROVE  t \in PostedBar[p] <=> Posted(ledger, p, t)
BY DEF PostedBar, Posted

\* A transition is a Resolve or a Supersede of its payment.
LEMMA TransitImplements ==
  ASSUME PipeInv, NEW w \in Worker, Transits(w), ledger' = ledger
  PROVE  Lifecycle!LNext
<1>1. PICK e \in Event : e = EventOf(w)
  BY AtTransition DEF Transits
<1>2. PICK p \in Payment : p = Target(w) /\ p = PaymentOf[e]
  BY <1>1, AtTransition DEF Transits, Target
<1>3. PICK s \in {"processing", "succeeded", "failed"} \cup Superseding :
        s = payment[p].status
  BY <1>2, AtTransition DEF Transits
<1>4. PICK d \in {"succeeded", "failed"} \cup Superseding : d = Dest(e)
  BY <1>1, AtTransition DEF Transits
<1>5. /\ s \in AllowedSources(d)
      /\ payment'[p].status = d
      /\ \A q \in Payment : q # p => payment'[q] = payment[q]
  BY <1>1, <1>2, <1>3, <1>4 DEF Transits, EventOf
<1>6. /\ StatusBar' = [StatusBar EXCEPT ![p] = d] /\ StatusBar[p] = s
      /\ PostedBar' = PostedBar
  BY <1>3, <1>5 DEF StatusBar, PostedBar
<1>7. CASE d \in {"succeeded", "failed"}
  <2>1. s = "processing"
    BY <1>3, <1>5, <1>7, SourcesOf, StatusesApart
  <2>2. Lifecycle!Resolve(p)
    BY <1>6, <1>7, <2>1
    DEF Lifecycle!Resolve, Lifecycle!Outcome, StatusBar, PostedBar
  <2> QED
    BY <2>2 DEF Lifecycle!LNext
<1>8. CASE d \in Superseding
  <2>1. s = "succeeded"
    BY <1>5, <1>8, SourcesOf
  <2>2. Lifecycle!Supersede(p)
    BY <1>6, <1>8, <2>1
    DEF Lifecycle!Supersede, Lifecycle!Reversed, StatusBar, PostedBar,
        Superseding
  <2> QED
    BY <2>2 DEF Lifecycle!LNext
<1> QED
  BY <1>7, <1>8

\* The end of a submission is an Accept.
LEMMA PersistImplements ==
  ASSUME PipeInv, NEW p \in Payment, Persists(p), ledger' = ledger
  PROVE  Lifecycle!LNext
<1>1. payment[p].status = "submitted"
  BY DEF PipeInv, AuthorInv, Submitted, Persists
<1>2. /\ StatusBar' = [StatusBar EXCEPT ![p] = "processing"]
      /\ StatusBar[p] = "submitted" /\ PostedBar' = PostedBar
  BY <1>1 DEF StatusBar, PostedBar, Persists
<1>3. Lifecycle!Accept(p)
  BY <1>2 DEF Lifecycle!Accept, StatusBar, PostedBar
<1> QED
  BY <1>3 DEF Lifecycle!LNext

\* An insertion is a Clear, a Reverse or a PayOut of its entry's payment: the
\* author of the event that asked for it is the author of the status.
LEMMA InsertImplements ==
  ASSUME PipeInv, NEW w \in Worker, insertEntry(w), ledger' # ledger
  PROVE  Lifecycle!LNext
<1>1. PICK e \in Event, en \in Entry(Payment) :
        /\ ledger' = ledger \cup {en}
        /\ ~Posted(ledger, en.payment, en.entryType)
        /\ PlanFits(e, en)
        /\ IsPayout(e) \/ (IsSound(e) /\ IsAuthor(e, PaymentOf[e]))
  BY InsertionFits
<1>2. PICK p \in Payment : p = PaymentOf[e] /\ p = en.payment
  BY <1>1, ConstantsAssumption DEF PlanFits
<1>3. PICK t : t = en.entryType
  OBVIOUS
<1>4. /\ StatusBar' = StatusBar
      /\ t \notin PostedBar[p]
      /\ PostedBar' = [PostedBar EXCEPT ![p] = @ \cup {t}]
  <2>1. StatusBar' = StatusBar
    BY DEF insertEntry, StatusBar
  <2>2. t \notin PostedBar[p]
    BY <1>1, <1>2, <1>3, PostedBarIs
  <2>3. \A q \in Payment :
          PostedBar'[q] = IF q = p THEN PostedBar[p] \cup {t} ELSE PostedBar[q]
    BY <1>1, <1>2, <1>3 DEF PostedBar
  <2> QED
    BY <2>1, <2>2, <2>3 DEF PostedBar
<1>5. Lifecycle!Post(p, t)
  BY <1>4 DEF Lifecycle!Post, StatusBar, PostedBar
<1>6. CASE TypeOf[e] = "payment.succeeded"
  <2>1. t = "payment_cleared"
    BY <1>1, <1>3, <1>6, TypesApart DEF PlanFits, ClearedPlan
  <2>2. Dest(e) = "succeeded" /\ IsAuthor(e, p)
    BY <1>1, <1>2, <1>6, SucceededType DEF IsPayout, IsSound
  <2>3. StatusBar[p] \in {"succeeded"} \cup Superseding
    BY <2>2, AuthorsOf DEF StatusBar
  <2>4. Lifecycle!Clear(p)
    BY <1>5, <2>1, <2>3
    DEF Lifecycle!Clear, Lifecycle!Reversed, Superseding, StatusBar
  <2> QED
    BY <2>4 DEF Lifecycle!LNext
<1>7. CASE Supersedes(e)
  <2>1. /\ t = ReversalEntryOf(TypeOf[e])
        /\ Posted(ledger, p, "payment_cleared")
    BY <1>1, <1>2, <1>3, <1>7, TypesApart DEF PlanFits
  <2>2. Dest(e) \in Superseding /\ IsAuthor(e, p)
    BY <1>1, <1>2, <1>7, TypesApart DEF IsPayout, Supersedes
  <2>3. StatusBar[p] = Dest(e)
    BY <2>2, AuthorsOf DEF StatusBar
  <2>4. ReversalEntryOf(TypeOf[e]) = Lifecycle!EntryFor(Dest(e))
    BY <1>7 DEF ReversalEntryOf, Lifecycle!EntryFor, Supersedes, Dest,
                EventTypeToStatus, Superseding
  <2>5. "payment_cleared" \in PostedBar[p]
    BY <2>1, PostedBarIs
  <2>6. Lifecycle!Reverse(p)
    <3>1. t = Lifecycle!EntryFor(StatusBar[p])
      BY <2>1, <2>3, <2>4
    <3>2. Lifecycle!Post(p, Lifecycle!EntryFor(StatusBar[p]))
      BY <1>4, <3>1 DEF Lifecycle!Post, StatusBar, PostedBar
    <3>3. StatusBar[p] \in Lifecycle!Reversed
      BY <2>2, <2>3 DEF Lifecycle!Reversed, Superseding
    <3> QED
      BY <2>5, <3>2, <3>3 DEF Lifecycle!Reverse, StatusBar, PostedBar
  <2> QED
    BY <2>6 DEF Lifecycle!LNext
<1>8. CASE TypeOf[e] = "payout.paid"
  <2>1. t = "payout" /\ Posted(ledger, p, "payment_cleared")
    BY <1>1, <1>2, <1>3, <1>8, TypesApart DEF PlanFits
  <2>2. "payment_cleared" \in PostedBar[p]
    BY <2>1, PostedBarIs
  <2>3. Lifecycle!PayOut(p)
    BY <1>5, <2>1, <2>2 DEF Lifecycle!PayOut, PostedBar
  <2> QED
    BY <2>3 DEF Lifecycle!LNext
<1> QED
  BY <1>1, <1>6, <1>7, <1>8 DEF PlanFits

\* Whatever the order of the events and however many workers process them:
\* every payment is accepted, resolved and superseded at most once and in that
\* order, and its entries are posted as PaymentLifecycle says.
THEOREM PipelineImplementsLifecycle == Spec => ImplementsLifecycle
<1>1. Init => Lifecycle!LInit
  BY DEF Init, Lifecycle!LInit
<1>2. PipeInv /\ [Next]_vars => [Lifecycle!LNext]_(Lifecycle!lifecycleVars)
  <2> SUFFICES ASSUME PipeInv, [Next]_vars
               PROVE  \/ Lifecycle!LNext
                      \/ UNCHANGED <<StatusBar, PostedBar>>
    BY DEF Lifecycle!lifecycleVars, StatusBar, PostedBar
  <2>1. CASE ledger' # ledger
    BY <2>1, LedgerSteps, InsertImplements
  <2>2. CASE ledger' = ledger
    <3>1. StepKind
      BY StepKinds DEF PipeInv, AuthorInv
    <3>2. CASE PaymentsKept
      BY <2>2, <3>2 DEF PaymentsKept, StatusBar, PostedBar
    <3> QED
      BY <2>2, <3>1, <3>2, TransitImplements, PersistImplements
      DEF StepKind, Advances, Releases, Takes, Ticks, Rests
  <2> QED
    BY <2>1, <2>2
<1> QED
  BY <1>1, <1>2, PipeInvAlways, PTL
  DEF Spec, ImplementsLifecycle, Lifecycle!LSpec

------------------------------------------------------------------------------
\* What the ledger covers.

\* The payments of P that count as paid.  In a ledger whose clearings carry
\* their payments' amounts, what a set of payments has paid is the sum of the
\* amounts of those that count.
PaidOf(L, P) == {p \in P : CountsAsPaid(L, p)}

LEMMA PaidIsFinite ==
  ASSUME NEW L, NEW P \in SUBSET Payment
  PROVE  PaidOf(L, P) \in SUBSET Payment /\ IsFiniteSet(PaidOf(L, P))
<1>1. PaidOf(L, P) \in SUBSET Payment
  BY DEF PaidOf
<1> QED
  BY <1>1, FS_Subset, ConstantsAssumption

LEMMA AmountIs ==
  ASSUME NEW L, Exact(L), NEW P \in SUBSET Payment
  PROVE  /\ AmountPaid(L, P) = SumFunctionOnSet(AmountOf, PaidOf(L, P))
         /\ AmountPaid(L, P) \in Nat
<1> DEFINE S == PaidOf(L, P)
           f == [p \in S |-> Find(L, p, "payment_cleared").gross]
<1>1. S \in SUBSET Payment /\ IsFiniteSet(S)
  BY PaidIsFinite
<1>2. AmountPaid(L, P) = SumFunctionOnSet(f, S)
  BY DEF AmountPaid, PaidOf
<1>3. ASSUME NEW p \in S PROVE f[p] = AmountOf[p]
  <2>1. Posted(L, p, "payment_cleared")
    BY DEF PaidOf, CountsAsPaid
  <2>2. /\ Find(L, p, "payment_cleared") \in L
        /\ Find(L, p, "payment_cleared").payment = p
        /\ Find(L, p, "payment_cleared").entryType = "payment_cleared"
    BY <2>1, FindFinds
  <2> QED
    BY <2>2 DEF Exact
<1>4. \A p \in S : AmountOf[p] \in Nat
  BY <1>1, ConstantsAssumption
<1>5. SumFunctionOnSet(f, S) = SumFunctionOnSet(AmountOf, S)
  <2> HIDE DEF f, S
  <2> QED BY <1>1, <1>3, SumSame
<1>6. SumFunctionOnSet(AmountOf, S) \in Nat
  <2> HIDE DEF S
  <2> QED BY <1>1, <1>4, SumNat
<1> QED
  BY <1>2, <1>5, <1>6

\* The more payments count, the more is paid.
LEMMA MorePaid ==
  ASSUME NEW L, NEW M, Exact(L), Exact(M),
         NEW P \in SUBSET Payment, NEW Q \in SUBSET Payment,
         \A p \in P : CountsAsPaid(L, p) => p \in Q /\ CountsAsPaid(M, p)
  PROVE  AmountPaid(L, P) <= AmountPaid(M, Q)
<1>1. PaidOf(L, P) \in SUBSET PaidOf(M, Q)
  BY DEF PaidOf
<1>2. /\ IsFiniteSet(PaidOf(M, Q))
      /\ \A p \in PaidOf(M, Q) : AmountOf[p] \in Nat
  BY PaidIsFinite, ConstantsAssumption
<1>3. SumFunctionOnSet(AmountOf, PaidOf(L, P)) <= SumFunctionOnSet(AmountOf, PaidOf(M, Q))
  BY <1>1, <1>2, SumOfMore
<1> QED
  BY <1>3, AmountIs

\* The ledger of the pipeline is of that kind.
LEMMA LedgerIsExact ==
  /\ PipeInv => Exact(ledger)
  /\ PipeInv' => Exact(ledger')
BY DEF PipeInv, Exact

LEMMA PaymentsOfType ==
  ASSUME NEW i
  PROVE  PaymentsOf(i) \in SUBSET Payment
BY DEF PaymentsOf

\* A payment stops counting when the reversal of a superseding event is
\* posted, and starts when the clearing of a success is: in both cases the
\* first entry of its type, on behalf of an event that has moved the payment.
LEMMA StopsCounting ==
  ASSUME PipeInv, [Next]_vars, NEW p,
         CountsAsPaid(ledger, p), ~CountsAsPaid(ledger', p)
  PROVE  \E e \in Event :
           /\ Supersedes(e) /\ PaymentOf[e] = p /\ Marked(e)
           /\ ~Posted(ledger, p, ReversalEntryOf(TypeOf[e]))
<1>1. PICK w \in Worker : insertEntry(w)
  BY LedgerSteps
<1>2. PICK e \in Event, en \in Entry(Payment) :
        /\ ledger' = ledger \cup {en}
        /\ ~Posted(ledger, en.payment, en.entryType)
        /\ PlanFits(e, en)
        /\ \/ IsPayout(e)
           \/ IsSound(e) /\ IsAuthor(e, PaymentOf[e])
  BY <1>1, InsertionFits
<1>3. en.payment = p /\ en.entryType \in ReversalType
  BY <1>2 DEF CountsAsPaid, IsReversed, Posted
<1>4. Supersedes(e) /\ en.entryType = ReversalEntryOf(TypeOf[e])
  BY <1>2, <1>3 DEF PlanFits, ClearedPlan, ReversalType
<1>5. Marked(e)
  BY <1>2, <1>4, TypesApart DEF IsPayout, IsAuthor, Marked
<1> QED
  BY <1>2, <1>3, <1>4, <1>5 DEF PlanFits

LEMMA StartsCounting ==
  ASSUME PipeInv, [Next]_vars, NEW p,
         ~CountsAsPaid(ledger, p), CountsAsPaid(ledger', p)
  PROVE  \E e \in Event :
           /\ TypeOf[e] = "payment.succeeded" /\ PaymentOf[e] = p /\ Marked(e)
           /\ ~Posted(ledger, p, "payment_cleared")
<1>1. PICK w \in Worker : insertEntry(w)
  BY LedgerSteps
<1>2. PICK e \in Event, en \in Entry(Payment) :
        /\ ledger' = ledger \cup {en}
        /\ ~Posted(ledger, en.payment, en.entryType)
        /\ PlanFits(e, en)
        /\ \/ IsPayout(e)
           \/ IsSound(e) /\ IsAuthor(e, PaymentOf[e])
  BY <1>1, InsertionFits
<1>3. en.payment = p /\ en.entryType = "payment_cleared"
  BY <1>2 DEF CountsAsPaid, IsReversed, Posted
<1>4. TypeOf[e] = "payment.succeeded"
  BY <1>2, <1>3 DEF PlanFits, ReversalEntryOf
<1>5. Marked(e)
  BY <1>2, <1>4 DEF IsPayout, IsAuthor, Marked
<1> QED
  BY <1>2, <1>3, <1>4, <1>5 DEF PlanFits

------------------------------------------------------------------------------
\* Paid until the supersession has decided.

CompensationMark == {"installment_reopened", "installment_reopen_not_required"}

\* A superseding event decides on its installment, and reopens the agreement,
\* after its reversal is posted.
CompensatedIsPosted ==
  \A e \in Event :
    IsCompensated(e) \/ <<e, "agreement_reopened">> \in audit =>
      Posted(ledger, PaymentOf[e], ReversalEntryOf(TypeOf[e]))

\* A paid installment is covered, or an event that took a payment of it back
\* has still to decide on it.
PaidUntilReversed ==
  \A i \in Installment :
    installment[i] = "paid" =>
      \/ IsSatisfied(i)
      \/ \E g \in Event : /\ Supersedes(g) /\ InstallmentOf[PaymentOf[g]] = i
                          /\ Marked(g) /\ ~IsCompensated(g)

\* Who writes the markers.
LEMMA MarkSteps ==
  ASSUME [Next]_vars, NEW e,
         NEW a \in CompensationMark \cup {"agreement_reopened"},
         <<e, a>> \in audit', <<e, a>> \notin audit
  PROVE  \E w \in Worker :
           /\ e = EventOf(w)
           /\ \/ a \in CompensationMark /\ coordinateSupersession(w)
              \/ a = "agreement_reopened" /\ recomputeAfterSupersession(w)
<1>1. CASE UNCHANGED vars
  BY <1>1 DEF vars
<1>2. ASSUME NEW w \in Worker, coordinateSupersession(w)
      PROVE  e = EventOf(w) /\ a \in CompensationMark
  BY <1>2 DEF coordinateSupersession, CompensationMark
<1>3. ASSUME NEW w \in Worker, recomputeAfterSupersession(w)
      PROVE  e = EventOf(w) /\ a = "agreement_reopened"
  BY <1>3 DEF recomputeAfterSupersession
<1>4. ASSUME NEW w \in Worker, recordTransitionAudit(w) \/ recordPayoutAudit(w)
      PROVE  FALSE
  BY <1>4 DEF recordTransitionAudit, recordPayoutAudit, CompensationMark
<1>5. ASSUME NEW w \in Worker, Step(w), ~coordinateSupersession(w),
             ~recomputeAfterSupersession(w), ~recordTransitionAudit(w),
             ~recordPayoutAudit(w)
      PROVE  FALSE
  BY <1>5, ZenonT(60)
  DEF Step, LookupPayment, applyTransition, RereadPayment,
      detectAndRecordConflict, postPaymentCleared,
      reversePayment, NoLedgerEntry, postPayout, insertEntry,
      markPayoutCompleted, evaluateSuccessEffectDisposition,
      coordinateSuccess, coordinateFailure, decideAndApply,
      markLifecycleChecked,
      Finalize, markProcessed, markFailedRetryable, markFailedPermanent
<1>6. CASE Next /\ ~\E w \in Worker : Step(w)
  BY <1>6
  DEF Next, tryInsertAndClaim, claimExisting, Crash, TransientError,
      LeaseExpires, BackoffElapses, DueDatePasses, PersistProviderPaymentId
<1> QED
  BY <1>1, <1>2, <1>3, <1>4, <1>5, <1>6 DEF Next

LEMMA CompensatedStep ==
  ASSUME PipeInv, PipeInv', CompensatedIsPosted, [Next]_vars
  PROVE  CompensatedIsPosted'
<1>0. Grows
  BY Growth DEF PipeInv
<1> SUFFICES ASSUME NEW e \in Event,
                    NEW a \in CompensationMark \cup {"agreement_reopened"},
                    <<e, a>> \in audit'
             PROVE  Posted(ledger', PaymentOf[e], ReversalEntryOf(TypeOf[e]))
  BY DEF CompensatedIsPosted, IsCompensated, CompensationMark
<1>1. CASE <<e, a>> \in audit
  <2>1. Posted(ledger, PaymentOf[e], ReversalEntryOf(TypeOf[e]))
    BY <1>1 DEF CompensatedIsPosted, IsCompensated, CompensationMark
  <2> QED
    BY <1>0, <2>1, PostedStays
<1>2. CASE <<e, a>> \notin audit
  <2>1. PICK w \in Worker :
          /\ e = EventOf(w)
          /\ coordinateSupersession(w) \/ recomputeAfterSupersession(w)
    BY <1>2, MarkSteps
  <2>2. worker[w].pc \in {"workflow", "completion"} /\ Supersedes(e)
    BY <2>1 DEF coordinateSupersession, recomputeAfterSupersession
  <2>3. Posted(ledger, PaymentOf[e], ReversalEntryOf(TypeOf[e]))
    BY <2>1, <2>2 DEF PipeInv, Knows, KnowsBooks, Target
  <2> QED
    BY <1>0, <2>3, PostedStays
<1> QED
  BY <1>1, <1>2

\* An installment is called paid only when it is covered.
LEMMA PaidSteps ==
  ASSUME PipeInv, [Next]_vars, NEW i \in Installment,
         installment'[i] = "paid", installment[i] # "paid"
  PROVE  IsSatisfied(i) /\ ledger' = ledger
<1>0. installment \in [Installment -> {"scheduled", "past_due", "paid", "waived"}]
  BY DEF PipeInv, AuthorInv, TypeInv, TypeOK
<1>1. ASSUME NEW w \in Worker, coordinateSuccess(w)
      PROVE  IsSatisfied(i) /\ ledger' = ledger
  <2>1. PICK j : j = InstallmentOf[Target(w)]
    OBVIOUS
  <2>2. CASE IsSatisfied(j) /\ installment' = [installment EXCEPT ![j] = "paid"]
    BY <1>0, <1>1, <2>2 DEF coordinateSuccess
  <2>3. CASE installment' = [installment EXCEPT ![j] =
                               IF @ = "waived" THEN @ ELSE UnpaidStatus(j)]
    BY <1>0, <2>3 DEF UnpaidStatus
  <2> QED
    BY <1>1, <2>1, <2>2, <2>3 DEF coordinateSuccess
<1>2. ASSUME NEW w \in Worker, coordinateFailure(w) PROVE FALSE
  BY <1>0, <1>2 DEF coordinateFailure
<1>3. ASSUME NEW w \in Worker, coordinateSupersession(w) PROVE FALSE
  BY <1>0, <1>3 DEF coordinateSupersession, UnpaidStatus
<1>4. installment' # installment
  OBVIOUS
<1> QED
  BY <1>1, <1>2, <1>3, <1>4, ZenonT(60)
  DEF Next, vars, schedule, Step, LookupPayment, applyTransition, RereadPayment,
      recordTransitionAudit, detectAndRecordConflict, postPaymentCleared,
      reversePayment, NoLedgerEntry, postPayout, insertEntry,
      markPayoutCompleted, recordPayoutAudit,
      evaluateSuccessEffectDisposition, decideAndApply, markLifecycleChecked,
      recomputeAfterSupersession, Finalize, markProcessed,
      markFailedRetryable, markFailedPermanent, tryInsertAndClaim,
      claimExisting, Crash, TransientError, LeaseExpires, BackoffElapses,
      DueDatePasses, PersistProviderPaymentId

\* An installment that is no longer covered has lost a payment to a
\* superseding event that has not decided yet.
LEMMA StopsCovering ==
  ASSUME PipeInv, PipeInv', [Next]_vars,
         NEW P \in SUBSET Payment, AmountPaid(ledger, P) > AmountPaid(ledger', P)
  PROVE  \E e \in Event :
           /\ Supersedes(e) /\ PaymentOf[e] \in P /\ Marked(e)
           /\ ~Posted(ledger, PaymentOf[e], ReversalEntryOf(TypeOf[e]))
<1>1. AmountPaid(ledger, P) \in Nat /\ AmountPaid(ledger', P) \in Nat
  BY LedgerIsExact, AmountIs
<1>2. PICK p \in P : CountsAsPaid(ledger, p) /\ ~CountsAsPaid(ledger', p)
  <2>1. CASE \A p \in P : CountsAsPaid(ledger, p) => CountsAsPaid(ledger', p)
    <3>1. AmountPaid(ledger, P) <= AmountPaid(ledger', P)
      BY <2>1, LedgerIsExact, MorePaid
    <3> QED
      BY <1>1, <3>1
  <2> QED
    BY <2>1
<1> QED
  BY <1>2, StopsCounting

LEMMA PaidStep ==
  ASSUME PipeInv, PipeInv', CompensatedIsPosted, CompensatedIsPosted',
         PaidUntilReversed, [Next]_vars
  PROVE  PaidUntilReversed'
<1>0. Grows
  BY Growth DEF PipeInv
<1> SUFFICES ASSUME NEW i \in Installment, installment'[i] = "paid",
                    ~IsSatisfied(i)'
             PROVE  \E g \in Event :
                      /\ Supersedes(g) /\ InstallmentOf[PaymentOf[g]] = i
                      /\ Marked(g)' /\ ~IsCompensated(g)'
  BY DEF PaidUntilReversed, Supersedes, Dest
<1>1. \A g \in Event : Marked(g) => Marked(g)'
  BY <1>0 DEF Grows, MarkersGrow, Marked
<1>2. CASE IsSatisfied(i)
  <2>1. DueOn[i] \in Nat /\ PaymentsOf(i) \in SUBSET Payment
    BY ConstantsAssumption, PaymentsOfType
  <2>2. /\ AmountPaid(ledger, PaymentsOf(i)) \in Nat
        /\ AmountPaid(ledger', PaymentsOf(i)) \in Nat
    BY <2>1, LedgerIsExact, AmountIs
  <2>3. AmountPaid(ledger, PaymentsOf(i)) > AmountPaid(ledger', PaymentsOf(i))
    BY <1>2, <2>1, <2>2 DEF IsSatisfied, PaymentsOf
  <2>4. PICK g \in Event :
          /\ Supersedes(g) /\ PaymentOf[g] \in PaymentsOf(i) /\ Marked(g)
          /\ ~Posted(ledger, PaymentOf[g], ReversalEntryOf(TypeOf[g]))
    BY <2>1, <2>3, StopsCovering
  <2>5. PICK w \in Worker : insertEntry(w)
    <3>1. ledger' # ledger
      BY <2>2, <2>3
    <3> QED
      BY <3>1, LedgerSteps
  <2>6. ~IsCompensated(g)'
    BY <2>4, <2>5 DEF CompensatedIsPosted, insertEntry, IsCompensated
  <2> QED
    BY <1>1, <2>4, <2>6 DEF PaymentsOf
<1>3. CASE ~IsSatisfied(i)
  <2>1. installment[i] = "paid"
    BY <1>3, PaidSteps
  <2>2. PICK g \in Event : /\ Supersedes(g) /\ InstallmentOf[PaymentOf[g]] = i
                           /\ Marked(g) /\ ~IsCompensated(g)
    BY <1>3, <2>1 DEF PaidUntilReversed
  <2>3. ASSUME IsCompensated(g)' PROVE FALSE
    <3>1. PICK a \in CompensationMark : <<g, a>> \in audit' /\ <<g, a>> \notin audit
      BY <2>2, <2>3 DEF IsCompensated, CompensationMark
    <3>2. PICK w \in Worker : g = EventOf(w) /\ coordinateSupersession(w)
      BY <3>1, MarkSteps DEF CompensationMark
    <3>3. installment' = [installment EXCEPT ![i] = UnpaidStatus(i)]
      BY <1>3, <2>1, <2>2, <3>2 DEF coordinateSupersession, Target
    <3>4. installment'[i] = UnpaidStatus(i)
      BY <3>3 DEF PipeInv, AuthorInv, TypeInv, TypeOK
    <3> QED
      BY <3>4 DEF UnpaidStatus
  <2> QED
    BY <1>1, <2>2, <2>3
<1> QED
  BY <1>2, <1>3

------------------------------------------------------------------------------
\* Where a worker with the token is about to end with a marked event.

Late == {"completion", "lifecycle", "processed"}

\* The steps that take such an event's effects to their end.
LateStep(w) ==
  \/ evaluateSuccessEffectDisposition(w) \/ coordinateSuccess(w)
  \/ coordinateFailure(w) \/ coordinateSupersession(w) \/ decideAndApply(w)
  \/ markLifecycleChecked(w) \/ recomputeAfterSupersession(w)

LEMMA LateMoves ==
  ASSUME PipeInv, PipeInv', [Next]_vars, NEW e \in Event, Marked(e),
         NEW w \in Worker, EventOf(w)' = e, worker'[w].owner,
         worker'[w].pc \in Late, worker'[w] # worker[w]
  PROVE  /\ LateStep(w) /\ EventOf(w) = e /\ worker[w].owner
<1>0. Grows
  BY Growth DEF PipeInv
<1>a. worker \in [Worker -> WorkerState] /\ event \in [Event -> EventRow]
  BY DEF PipeInv, AuthorInv, TypeInv, TypeOK
<1>b. IsSound(e) /\ ~IsPayout(e)
  BY DEF PipeInv, MarkedIsSound, IsSound, IsPayout, EventTypeToStatus
<1>1. ASSUME NEW v \in Worker, NEW f \in Event,
             tryInsertAndClaim(v, f) \/ claimExisting(v, f)
      PROVE  FALSE
  <2>1. TakeOwnership(v, f)
    BY <1>1 DEF tryInsertAndClaim, claimExisting
  <2>2. CASE v = w
    BY <1>a, <2>1, <2>2, ClaimMoves DEF Late
  <2>3. CASE v # w
    <3>1. worker[w].event # f
      BY <1>a, <2>1, <2>3, ClaimMoves
    <3>2. worker'[w] = worker[w]
      BY <2>1, <2>3, <3>1 DEF TakeOwnership
    <3> QED
      BY <3>2
  <2> QED
    BY <2>2, <2>3
<1>2. ASSUME NEW v \in Worker, Step(v) \/ Crash(v) \/ TransientError(v)
      PROVE  v = w
  BY <1>0, <1>2, OthersStay
<1>3. ASSUME \/ markProcessed(w) \/ markFailedRetryable(w)
             \/ markFailedPermanent(w) \/ Crash(w)
      PROVE  FALSE
  <2>1. worker'[w].pc = "idle"
    BY <1>3, <1>a, Ends, IdleMoves DEF Releases
  <2> QED
    BY <2>1 DEF Late
<1>4. ASSUME NEW pc \in PC \ Late, Goto(w, pc) PROVE FALSE
  BY <1>4, GotoArrives DEF Arrives
<1>5. ASSUME LookupPayment(w) PROVE FALSE
  <2>1. \E pc \in {"retryable", "payout", "transition", "reread", "processed"} :
          Goto(w, pc)
    BY <1>5 DEF LookupPayment
  <2>2. Goto(w, "processed")
    BY <1>4, <2>1 DEF PC, Late
  <2>3. worker'[w].event = worker[w].event
    BY <2>2, GotoArrives DEF Arrives, PC
  <2>4. EventOf(w) = e
    BY <2>3 DEF EventOf
  <2>5. worker'[w].pc = "processed"
    BY <2>2, GotoArrives DEF Arrives, PC
  <2>6. \/ TypeOf[e] = "unrecognized" \/ e \in Foreign
        \/ TypeOf[e] = "payment.succeeded" /\ AmountIn[e] # AmountOf[PaymentOf[e]]
        \/ \E pc \in {"retryable", "payout", "transition", "reread"} : Goto(w, pc)
    BY <1>5, <2>4 DEF LookupPayment, Target
  <2> QED
    BY <1>4, <1>b, <2>6 DEF IsSound, PC, Late, EventTypeToStatus
<1>6. ASSUME applyTransition(w) PROVE FALSE
  <2>1. worker'[w].pc \in {"audit", "conflict", "retryable"}
    BY <1>6, <1>a DEF applyTransition, HavingRead, Goto, WorkerState
  <2> QED
    BY <2>1 DEF Late
<1>7. ASSUME RereadPayment(w) PROVE FALSE
  BY <1>7, <1>a DEF RereadPayment, HavingRead, WorkerState, Late
<1>8. ASSUME detectAndRecordConflict(w) PROVE FALSE
  <2>1. worker[w].pc = "conflict" /\ Arrives(w, "processed") /\ event' = event
    BY <1>8, GotoArrives DEF detectAndRecordConflict, PC
  <2>2. EventOf(w) = e /\ worker[w].owner
    BY <2>1 DEF Arrives, EventOf
  <2> QED
    BY <2>1, <2>2 DEF PipeInv, AuthorInv, Unmarked, Knows, KnowsMarker, Marked, EventOf
<1>9. ASSUME insertEntry(w) PROVE FALSE
  BY <1>9, <1>a, InsertedMoves
  DEF insertEntry, AfterLedger, PC, Late
<1>10. ASSUME \/ recordTransitionAudit(w) \/ postPaymentCleared(w)
              \/ reversePayment(w) \/ NoLedgerEntry(w) \/ postPayout(w)
              \/ markPayoutCompleted(w)
       PROVE  FALSE
  <2>1. CASE \E en : Insert(w, en)
    BY <2>1, <1>a DEF Insert, WorkerState, Late
  <2>2. CASE \E pc \in {"ledger", "retryable", "permanent", "workflow",
                        "disposition", "stampPayout", "auditPayout"} : Goto(w, pc)
    BY <1>4, <2>2 DEF PC, Late
  <2> QED
    BY <1>10, <2>1, <2>2
    DEF recordTransitionAudit, postPaymentCleared, reversePayment,
        NoLedgerEntry, postPayout, markPayoutCompleted, AfterLedger
<1>11. ASSUME recordPayoutAudit(w) PROVE FALSE
  <2>1. worker[w].pc = "auditPayout" /\ Arrives(w, "processed")
    BY <1>11, GotoArrives DEF recordPayoutAudit, PC
  <2>2. EventOf(w) = e
    BY <2>1 DEF Arrives, EventOf
  <2> QED
    BY <1>b, <2>1, <2>2 DEF PipeInv, Knows, KnowsEvent
<1>12. ASSUME TransientError(w) PROVE FALSE
  BY <1>4, <1>12 DEF TransientError, PC, Late
<1>13. worker' # worker
  OBVIOUS
<1>14. LateStep(w)
  BY <1>1, <1>2, <1>3, <1>5, <1>6, <1>7, <1>8, <1>9, <1>10, <1>11, <1>12, <1>13
  DEF Next, vars, Step, LateStep, LeaseExpires, BackoffElapses, DueDatePasses,
      PersistProviderPaymentId
<1>15. \E pc \in {"processed", "workflow", "retryable", "completion",
                  "lifecycle"} : Goto(w, pc)
  BY <1>14
  DEF LateStep, evaluateSuccessEffectDisposition, coordinateSuccess,
      coordinateFailure, coordinateSupersession, decideAndApply,
      markLifecycleChecked, recomputeAfterSupersession
<1>16. \E pc : Arrives(w, pc)
  BY <1>15, GotoArrives DEF PC
<1> QED
  BY <1>14, <1>16 DEF Arrives, EventOf

------------------------------------------------------------------------------
\* Paid in full until the supersession has reopened the agreement.

\* An event that took a payment back and is on its way to reopen the
\* agreement: nobody who can finish it has got past that.
Reopens(g) ==
  /\ Supersedes(g) /\ Marked(g)
  /\ event[g].status # "processed"
  /\ <<g, "agreement_reopened">> \notin audit
  /\ \A w \in Worker : EventOf(w) = g /\ worker[w].owner =>
                         worker[w].pc # "processed"

PaidInFullUntilReversed ==
  agreement = "paid_in_full" => IsSettled \/ \E g \in Event : Reopens(g)

\* The agreement is called paid in full only when it is settled, and no
\* waiver is taken back but for a payment in full of the installment.
LEMMA PaidInFullSteps ==
  ASSUME PipeInv, [Next]_vars,
         agreement' = "paid_in_full", agreement # "paid_in_full"
  PROVE  IsSettled /\ ledger' = ledger /\ installment' = installment
<1>1. ASSUME NEW w \in Worker, decideAndApply(w)
      PROVE  IsSettled /\ ledger' = ledger /\ installment' = installment
  BY <1>1 DEF decideAndApply
<1>2. ASSUME NEW w \in Worker, recomputeAfterSupersession(w) PROVE FALSE
  BY <1>2 DEF recomputeAfterSupersession
<1>3. agreement' # agreement
  OBVIOUS
<1> QED
  BY <1>1, <1>2, <1>3, ZenonT(60)
  DEF Next, vars, schedule, Step, LookupPayment, applyTransition, RereadPayment,
      recordTransitionAudit, detectAndRecordConflict, postPaymentCleared,
      reversePayment, NoLedgerEntry, postPayout, insertEntry,
      markPayoutCompleted, recordPayoutAudit,
      evaluateSuccessEffectDisposition, coordinateSuccess, coordinateFailure,
      coordinateSupersession, markLifecycleChecked,
      Finalize, markProcessed, markFailedRetryable, markFailedPermanent,
      tryInsertAndClaim, claimExisting, Crash, TransientError, LeaseExpires,
      BackoffElapses, DueDatePasses, PersistProviderPaymentId

LEMMA WaivedSteps ==
  ASSUME PipeInv, [Next]_vars, NEW i \in Installment,
         installment[i] = "waived", installment'[i] # "waived"
  PROVE  installment'[i] = "paid"
<1>0. installment \in [Installment -> {"scheduled", "past_due", "paid", "waived"}]
  BY DEF PipeInv, AuthorInv, TypeInv, TypeOK
<1>1. ASSUME NEW w \in Worker, coordinateSuccess(w)
      PROVE  installment'[i] = "paid"
  <2>1. PICK j : j = InstallmentOf[Target(w)]
    OBVIOUS
  <2>2. CASE installment' = [installment EXCEPT ![j] = "paid"]
    BY <1>0, <2>2
  <2>3. CASE installment' = [installment EXCEPT ![j] =
                               IF @ = "waived" THEN @ ELSE UnpaidStatus(j)]
    BY <1>0, <2>3
  <2> QED
    BY <1>1, <2>1, <2>2, <2>3 DEF coordinateSuccess
<1>2. ASSUME NEW w \in Worker, coordinateFailure(w) PROVE FALSE
  BY <1>0, <1>2 DEF coordinateFailure
<1>3. ASSUME NEW w \in Worker, coordinateSupersession(w) PROVE FALSE
  BY <1>0, <1>3 DEF coordinateSupersession
<1>4. installment' # installment
  OBVIOUS
<1> QED
  BY <1>1, <1>2, <1>3, <1>4, ZenonT(60)
  DEF Next, vars, schedule, Step, LookupPayment, applyTransition, RereadPayment,
      recordTransitionAudit, detectAndRecordConflict, postPaymentCleared,
      reversePayment, NoLedgerEntry, postPayout, insertEntry,
      markPayoutCompleted, recordPayoutAudit,
      evaluateSuccessEffectDisposition, decideAndApply, markLifecycleChecked,
      recomputeAfterSupersession, Finalize, markProcessed,
      markFailedRetryable, markFailedPermanent, tryInsertAndClaim,
      claimExisting, Crash, TransientError, LeaseExpires, BackoffElapses,
      DueDatePasses, PersistProviderPaymentId

\* As long as no payment stops counting, and no waiver is taken back but for
\* what is covered, a settled agreement is settled.
LEMMA StillSettled ==
  ASSUME PipeInv, PipeInv', IsSettled,
         \A p \in Payment : CountsAsPaid(ledger, p) => CountsAsPaid(ledger', p),
         \A i \in Installment :
           installment'[i] # "waived" => installment[i] # "waived" \/ IsSatisfied(i)
  PROVE  IsSettled'
<1>1. ASSUME NEW P \in SUBSET Payment, NEW n \in Int, AmountPaid(ledger, P) >= n
      PROVE  AmountPaid(ledger', P) >= n
  <2>1. AmountPaid(ledger, P) \in Nat /\ AmountPaid(ledger', P) \in Nat
    BY LedgerIsExact, AmountIs
  <2>2. AmountPaid(ledger, P) <= AmountPaid(ledger', P)
    BY LedgerIsExact, MorePaid
  <2> QED
    BY <1>1, <2>1, <2>2
<1>2. AmountPaid(ledger', Payment) >= Principal
  <2>1. Principal \in Int
    BY SumInt, ConstantsAssumption DEF Principal
  <2> QED
    BY <1>1, <2>1 DEF IsSettled
<1>3. ASSUME NEW i \in Installment, IsSatisfied(i) PROVE IsSatisfied(i)'
  <2>1. DueOn[i] \in Int /\ PaymentsOf(i) \in SUBSET Payment
    BY ConstantsAssumption, PaymentsOfType
  <2>2. AmountPaid(ledger', PaymentsOf(i)) >= DueOn[i]
    BY <1>1, <1>3, <2>1 DEF IsSatisfied
  <2> QED
    BY <2>2 DEF IsSatisfied, PaymentsOf
<1>4. ASSUME NEW i \in Installment, installment'[i] # "waived"
      PROVE  IsSatisfied(i)'
  BY <1>3, <1>4 DEF IsSettled
<1> QED
  BY <1>2, <1>4 DEF IsSettled, Principal

LEMMA StaysSettled ==
  ASSUME PipeInv, PipeInv', [Next]_vars, IsSettled,
         \A p \in Payment : CountsAsPaid(ledger, p) => CountsAsPaid(ledger', p)
  PROVE  IsSettled'
<1>1. ASSUME NEW i \in Installment, installment'[i] # "waived",
             installment[i] = "waived"
      PROVE  IsSatisfied(i)
  <2>1. installment'[i] = "paid"
    BY <1>1, WaivedSteps
  <2> QED
    BY <1>1, <2>1, PaidSteps
<1> QED
  BY <1>1, StillSettled

\* An event on its way to reopen the agreement does so, or finds it settled,
\* or is still on its way.
LEMMA ReopensStays ==
  ASSUME PipeInv, PipeInv', [Next]_vars, NEW g \in Event, Reopens(g),
         agreement = "paid_in_full", agreement' = "paid_in_full", ~IsSettled'
  PROVE  Reopens(g)'
<1>0. Grows
  BY Growth DEF PipeInv
<1>1. (Supersedes(g) /\ Marked(g))'
  BY <1>0 DEF Reopens, Grows, MarkersGrow, Marked, Supersedes, Dest
<1>2. ASSUME event'[g].status = "processed" PROVE FALSE
  BY <1>2, ProcessedSteps DEF Reopens
<1>3. ASSUME NEW w \in Worker, recomputeAfterSupersession(w), g = EventOf(w)
      PROVE  FALSE
  <2>1. IsSettled
    BY <1>3 DEF recomputeAfterSupersession, Reopens
  <2>2. ledger' = ledger /\ installment' = installment
    BY <1>3 DEF recomputeAfterSupersession
  <2> QED
    BY <2>1, <2>2 DEF IsSettled, IsSatisfied, PaymentsOf, Principal
<1>4. <<g, "agreement_reopened">> \notin audit'
  BY <1>3, MarkSteps DEF Reopens, CompensationMark
<1>5. ASSUME NEW w \in Worker, EventOf(w)' = g, worker'[w].owner,
             worker'[w].pc = "processed"
      PROVE  FALSE
  <2>1. worker'[w] # worker[w]
    BY <1>5 DEF Reopens, EventOf
  <2>2. LateStep(w) /\ EventOf(w) = g
    BY <1>5, <2>1, LateMoves DEF Late, Reopens
  <2>3. /\ TypeOf[g] # "payment.succeeded" /\ TypeOf[g] # "payment.failed"
    BY TypesApart DEF Reopens
  <2>4. coordinateSupersession(w) \/ evaluateSuccessEffectDisposition(w)
          \/ markLifecycleChecked(w)
    BY <1>3, <2>2, <2>3
    DEF LateStep, coordinateSuccess, coordinateFailure, decideAndApply
  <2>5. coordinateSupersession(w)
    BY <2>2, <2>3, <2>4
    DEF PipeInv, Knows, KnowsEvent, evaluateSuccessEffectDisposition,
        markLifecycleChecked
  <2>6. Arrives(w, "completion")
    BY <2>5, GotoArrives DEF coordinateSupersession, PC
  <2> QED
    BY <1>5, <2>6 DEF Arrives
<1> QED
  BY <1>1, <1>2, <1>4, <1>5 DEF Reopens, Supersedes, Dest

LEMMA PaidInFullStep ==
  ASSUME PipeInv, PipeInv', CompensatedIsPosted, PaidInFullUntilReversed,
         [Next]_vars
  PROVE  PaidInFullUntilReversed'
<1>0. Grows
  BY Growth DEF PipeInv
<1> SUFFICES ASSUME agreement' = "paid_in_full", ~IsSettled'
             PROVE  \E g \in Event : Reopens(g)'
  BY DEF PaidInFullUntilReversed
<1>1. agreement = "paid_in_full"
  <2>1. ~(IsSettled /\ ledger' = ledger /\ installment' = installment)
    BY DEF IsSettled, IsSatisfied, PaymentsOf, Principal
  <2> QED
    BY <2>1, PaidInFullSteps
<1>2. CASE IsSettled
  <2>1. PICK p \in Payment : CountsAsPaid(ledger, p) /\ ~CountsAsPaid(ledger', p)
    BY <1>2, StaysSettled
  <2>2. PICK g \in Event :
          /\ Supersedes(g) /\ PaymentOf[g] = p /\ Marked(g)
          /\ ~Posted(ledger, p, ReversalEntryOf(TypeOf[g]))
    BY <2>1, StopsCounting
  <2>3. <<g, "agreement_reopened">> \notin audit
    BY <2>2 DEF CompensatedIsPosted
  <2>4. ~Finished(g)
    BY <2>2 DEF Finished, EffectsDone
  <2>5. event[g].status # "processed"
    BY <2>4 DEF PipeInv, FinishedWhenProcessed
  <2>6. \A w \in Worker : EventOf(w) = g /\ worker[w].owner =>
                            worker[w].pc # "processed"
    BY <2>4 DEF PipeInv, Knows, KnowsDone
  <2>7. Reopens(g)
    BY <2>2, <2>3, <2>5, <2>6 DEF Reopens
  <2> QED
    BY <1>1, <2>7, ReopensStays
<1>3. CASE ~IsSettled
  BY <1>1, <1>3, ReopensStays DEF PaidInFullUntilReversed
<1> QED
  BY <1>2, <1>3

------------------------------------------------------------------------------
\* No retry of what is covered, but for a success that has not come to the
\* schedule yet.

\* An event whose schedule effects are behind it, or behind its worker.
Concluded(e) ==
  \/ event[e].status = "processed"
  \/ \E w \in Worker : /\ EventOf(w) = e /\ worker[w].owner
                       /\ worker[w].pc \in Late

\* A payment whose success has not come to the schedule yet, and the others.
Fresh(q) ==
  \E e \in Event : /\ TypeOf[e] = "payment.succeeded" /\ PaymentOf[e] = q
                   /\ Marked(e) /\ ~Concluded(e)

Considered(i) == {q \in PaymentsOf(i) : ~Fresh(q)}

\* The payments that have come to the schedule do not cover an installment
\* with a scheduled retry.
RetryIsNeeded ==
  \A p \in Payment :
    retry[p] = "scheduled" =>
      AmountPaid(ledger, Considered(InstallmentOf[p])) < DueOn[InstallmentOf[p]]

\* A retry is scheduled for what is not covered.
LEMMA RetrySteps ==
  ASSUME PipeInv, [Next]_vars, NEW p \in Payment,
         retry'[p] = "scheduled", retry[p] # "scheduled"
  PROVE  ~IsSatisfied(InstallmentOf[p]) /\ ledger' = ledger
<1>0. retry \in [Payment -> {"none", "scheduled", "canceled"}]
  BY DEF PipeInv, AuthorInv, TypeInv, TypeOK
<1>1. ASSUME NEW w \in Worker, coordinateFailure(w)
      PROVE  ~IsSatisfied(InstallmentOf[p]) /\ ledger' = ledger
  <2>1. /\ ~IsSatisfied(InstallmentOf[Target(w)])
        /\ retry' = [retry EXCEPT ![Target(w)] = IF @ = "none" THEN "scheduled" ELSE @]
    BY <1>1 DEF coordinateFailure
  <2>2. p = Target(w)
    BY <1>0, <2>1
  <2> QED
    BY <1>1, <2>1, <2>2 DEF coordinateFailure
<1>2. ASSUME NEW w \in Worker, coordinateSuccess(w) PROVE FALSE
  <2>1. \/ retry' = retry
        \/ retry' = [q \in Payment |-> IF q \in CancelableRetries(Target(w))
                                         THEN "canceled" ELSE retry[q]]
    BY <1>2 DEF coordinateSuccess
  <2> QED
    BY <2>1
<1>3. retry' # retry
  OBVIOUS
<1> QED
  BY <1>1, <1>2, <1>3, ZenonT(60)
  DEF Next, vars, schedule, Step, LookupPayment, applyTransition, RereadPayment,
      recordTransitionAudit, detectAndRecordConflict, postPaymentCleared,
      reversePayment, NoLedgerEntry, postPayout, insertEntry,
      markPayoutCompleted, recordPayoutAudit, coordinateSupersession,
      evaluateSuccessEffectDisposition, decideAndApply, markLifecycleChecked,
      recomputeAfterSupersession, Finalize, markProcessed,
      markFailedRetryable, markFailedPermanent, tryInsertAndClaim,
      claimExisting, Crash, TransientError, LeaseExpires, BackoffElapses,
      DueDatePasses, PersistProviderPaymentId

\* What is not covered is not covered by a part of its payments either.
LEMMA NotCoveredByFewer ==
  ASSUME PipeInv, NEW i \in Installment, ~IsSatisfied(i), ledger' = ledger,
         NEW P \in SUBSET PaymentsOf(i)
  PROVE  AmountPaid(ledger', P) < DueOn[i]
<1>1. /\ P \in SUBSET Payment /\ PaymentsOf(i) \in SUBSET Payment
      /\ DueOn[i] \in Nat /\ Exact(ledger)
  BY PaymentsOfType, ConstantsAssumption, LedgerIsExact
<1>2. AmountPaid(ledger, P) <= AmountPaid(ledger, PaymentsOf(i))
  BY <1>1, MorePaid
<1>3. AmountPaid(ledger, P) \in Nat /\ AmountPaid(ledger, PaymentsOf(i)) \in Nat
  BY <1>1, AmountIs
<1> QED
  BY <1>1, <1>2, <1>3 DEF IsSatisfied

\* An event whose effects are not there is not concluded.
LEMMA NotConcluded ==
  ASSUME PipeInv, NEW e \in Event, TypeOf[e] = "payment.succeeded", Marked(e),
         ~Posted(ledger, PaymentOf[e], "payment_cleared")
  PROVE  ~Concluded(e)
<1>1. Dest(e) = "succeeded"
  BY DEF Dest, EventTypeToStatus
<1>2. ~Finished(e)
  BY <1>1 DEF Finished, EffectsDone
<1>3. event[e].status # "processed"
  BY <1>2 DEF PipeInv, FinishedWhenProcessed
<1>4. ASSUME NEW w \in Worker, EventOf(w) = e, worker[w].owner,
             worker[w].pc \in Late
      PROVE  FALSE
  BY <1>2, <1>4 DEF PipeInv, Knows, KnowsDone, KnowsBooks, Late, Target
<1> QED
  BY <1>3, <1>4 DEF Concluded

\* The steps by which a success comes to the schedule.
LEMMA Concludes ==
  ASSUME PipeInv, PipeInv', [Next]_vars, NEW e \in Event, Marked(e),
         TypeOf[e] = "payment.succeeded", ~Concluded(e), Concluded(e)'
  PROVE  \E w \in Worker :
           /\ e = EventOf(w)
           /\ \/ coordinateSuccess(w)
              \/ evaluateSuccessEffectDisposition(w) /\ Goto(w, "processed")
<1>1. event'[e].status # "processed"
  BY ProcessedSteps DEF Concluded, Late
<1>2. PICK w \in Worker : /\ EventOf(w)' = e /\ worker'[w].owner
                          /\ worker'[w].pc \in Late
  BY <1>1 DEF Concluded
<1>3. worker'[w] # worker[w]
  BY <1>2 DEF Concluded, EventOf
<1>4. LateStep(w) /\ EventOf(w) = e /\ worker[w].owner
  BY <1>2, <1>3, LateMoves
<1>5. worker[w].pc \notin Late
  BY <1>4 DEF Concluded
<1>6. coordinateSuccess(w) \/ evaluateSuccessEffectDisposition(w)
  BY <1>4, <1>5, TypesApart
  DEF LateStep, coordinateFailure, coordinateSupersession, decideAndApply,
      markLifecycleChecked, recomputeAfterSupersession, Late
<1>7. CASE evaluateSuccessEffectDisposition(w)
  <2>1. \/ Goto(w, "workflow") \/ Goto(w, "retryable") \/ Goto(w, "processed")
    BY <1>7 DEF evaluateSuccessEffectDisposition
  <2>2. Goto(w, "processed")
    BY <1>2, <2>1, GotoArrives DEF Late, PC, Arrives
  <2> QED
    BY <1>4, <1>7, <2>2
<1> QED
  BY <1>4, <1>6, <1>7

\* A success that is given up for what superseded it counts no more.
LEMMA GivenUp ==
  ASSUME PipeInv, NEW w \in Worker, evaluateSuccessEffectDisposition(w),
         Goto(w, "processed")
  PROVE  ~CountsAsPaid(ledger, Target(w))
<1>0. PICK p \in Payment : p = Target(w)
  BY Holds DEF evaluateSuccessEffectDisposition
<1>1. IsDurablySuperseded(p, worker[w].current) /\ worker[w].current \in Superseding
  <2>1. ~Goto(w, "workflow") /\ ~Goto(w, "retryable")
    BY GotoArrives DEF PC, Arrives
  <2> QED
    BY <1>0, <2>1 DEF evaluateSuccessEffectDisposition
<1>2. PICK t \in DOMAIN EventTypeToStatus :
        /\ EventTypeToStatus[t] \in Superseding
        /\ \E f \in TrustedEvents(p, t) : event[f].from = "succeeded"
  BY <1>1 DEF IsDurablySuperseded
<1>3. PICK f \in TrustedEvents(p, t) : event[f].from = "succeeded"
  BY <1>2
<1>4. /\ f \in Event /\ TypeOf[f] = t /\ PaymentOf[f] = p
      /\ event[f].status = "processed"
  BY <1>3, Trusted
<1>5. Supersedes(f) /\ Marked(f)
  BY <1>2, <1>3, <1>4 DEF Supersedes, Dest, Marked
<1>6. Posted(ledger, p, ReversalEntryOf(t))
  BY <1>4, <1>5 DEF PipeInv, FinishedWhenProcessed, Finished, EffectsDone
<1>7. ReversalEntryOf(t) \in ReversalType
  BY DEF ReversalEntryOf, ReversalType
<1> QED
  BY <1>0, <1>6, <1>7 DEF CountsAsPaid, IsReversed

LEMMA RetryStep ==
  ASSUME PipeInv, PipeInv', RetryIsNeeded, [Next]_vars
  PROVE  RetryIsNeeded'
<1>0. Grows
  BY Growth DEF PipeInv
<1> SUFFICES ASSUME NEW p \in Payment, retry'[p] = "scheduled",
                    NEW i \in Installment, i = InstallmentOf[p]
             PROVE  AmountPaid(ledger', Considered(i)') < DueOn[i]
  BY ConstantsAssumption DEF RetryIsNeeded
<1>1. /\ Considered(i)' \in SUBSET PaymentsOf(i)
      /\ Considered(i) \in SUBSET PaymentsOf(i)
      /\ PaymentsOf(i) \in SUBSET Payment /\ DueOn[i] \in Nat
  BY PaymentsOfType, ConstantsAssumption DEF Considered, PaymentsOf
<1>2. CASE retry[p] # "scheduled"
  BY <1>1, <1>2, RetrySteps, NotCoveredByFewer
<1>3. CASE retry[p] = "scheduled"
  <2>1. AmountPaid(ledger, Considered(i)) < DueOn[i]
    BY <1>3 DEF RetryIsNeeded
  <2>2. CASE \A q \in Considered(i)' : CountsAsPaid(ledger', q) =>
               q \in Considered(i) /\ CountsAsPaid(ledger, q)
    <3>1. /\ Exact(ledger) /\ Exact(ledger')
          /\ Considered(i) \in SUBSET Payment /\ Considered(i)' \in SUBSET Payment
      BY <1>1, LedgerIsExact
    <3>2. AmountPaid(ledger', Considered(i)') <= AmountPaid(ledger, Considered(i))
      BY <2>2, <3>1, MorePaid
    <3>3. /\ AmountPaid(ledger', Considered(i)') \in Nat
          /\ AmountPaid(ledger, Considered(i)) \in Nat
      BY <3>1, AmountIs
    <3> QED
      BY <1>1, <2>1, <3>2, <3>3
  <2>3. ASSUME NEW q \in Considered(i)', CountsAsPaid(ledger', q),
               ~CountsAsPaid(ledger, q)
        PROVE  FALSE
    <3>1. PICK e \in Event :
            /\ TypeOf[e] = "payment.succeeded" /\ PaymentOf[e] = q /\ Marked(e)
            /\ ~Posted(ledger, q, "payment_cleared")
      BY <2>3, StartsCounting
    <3>2. Marked(e)' /\ ~Concluded(e)
      BY <1>0, <3>1, NotConcluded DEF Grows, MarkersGrow, Marked
    <3>3. ASSUME Concluded(e)' PROVE FALSE
      <4>1. ledger' = ledger
        BY <3>1, <3>2, <3>3, Concludes
        DEF coordinateSuccess, evaluateSuccessEffectDisposition
      <4> QED
        BY <2>3, <4>1
    <3>4. Fresh(q)'
      BY <3>1, <3>2, <3>3 DEF Fresh
    <3> QED
      BY <2>3, <3>4 DEF Considered
  <2>4. ASSUME NEW q \in Considered(i)', CountsAsPaid(ledger', q),
               CountsAsPaid(ledger, q), q \notin Considered(i)
        PROVE  AmountPaid(ledger', Considered(i)') < DueOn[i]
    <3>1. q \in PaymentsOf(i) /\ InstallmentOf[q] = i /\ Fresh(q) /\ ~Fresh(q)'
      BY <1>1, <2>4 DEF Considered, PaymentsOf
    <3>2. PICK e \in Event :
            /\ TypeOf[e] = "payment.succeeded" /\ PaymentOf[e] = q
            /\ Marked(e) /\ ~Concluded(e)
      BY <3>1 DEF Fresh
    <3>3. Concluded(e)'
      BY <1>0, <3>1, <3>2 DEF Fresh, Grows, MarkersGrow, Marked
    <3>4. PICK w \in Worker :
            /\ e = EventOf(w)
            /\ \/ coordinateSuccess(w)
               \/ evaluateSuccessEffectDisposition(w) /\ Goto(w, "processed")
      BY <3>2, <3>3, Concludes
    <3>5. Target(w) = q
      BY <3>2, <3>4 DEF Target
    <3>6. coordinateSuccess(w)
      BY <2>4, <3>4, <3>5, GivenUp
    <3>7. ~IsSatisfied(i)
      <4>1. p \in CancelableRetries(q)
        BY <1>3, <3>1 DEF CancelableRetries, PaymentsOf
      <4> QED
        BY <3>1, <3>5, <3>6, <4>1 DEF coordinateSuccess
    <3> QED
      BY <1>1, <3>6, <3>7, NotCoveredByFewer DEF coordinateSuccess
  <2> QED
    BY <2>2, <2>3, <2>4
<1> QED
  BY <1>2, <1>3

------------------------------------------------------------------------------
\* The books and the schedule.

CoverInv ==
  /\ PipeInv
  /\ CompensatedIsPosted /\ PaidUntilReversed /\ PaidInFullUntilReversed
  /\ RetryIsNeeded

LEMMA CoverInvInit == Init => CoverInv
<1> SUFFICES ASSUME Init PROVE CoverInv
  OBVIOUS
<1>1. CompensatedIsPosted /\ PaidUntilReversed /\ PaidInFullUntilReversed
  BY DEF Init, CompensatedIsPosted, IsCompensated, PaidUntilReversed,
         PaidInFullUntilReversed
<1>2. RetryIsNeeded
  BY DEF Init, RetryIsNeeded
<1> QED
  BY <1>1, <1>2, PipeInvInit DEF CoverInv

LEMMA CoverInvStep == CoverInv /\ [Next]_vars => CoverInv'
<1> SUFFICES ASSUME CoverInv, [Next]_vars PROVE CoverInv'
  OBVIOUS
<1>1. PipeInv /\ PipeInv'
  BY PipeInvStep DEF CoverInv
<1>2. CompensatedIsPosted'
  BY <1>1, CompensatedStep DEF CoverInv
<1>3. PaidUntilReversed' /\ PaidInFullUntilReversed'
  BY <1>1, <1>2, PaidStep, PaidInFullStep DEF CoverInv
<1>4. RetryIsNeeded'
  BY <1>1, RetryStep DEF CoverInv
<1> QED
  BY <1>1, <1>2, <1>3, <1>4 DEF CoverInv

LEMMA CoverInvAlways == Spec => []CoverInv
BY CoverInvInit, CoverInvStep, PTL DEF Spec

\* What the invariant says of what is paid and of what is retried.
LEMMA CoverMeansPaid == CoverInv => PaidIsCovered
<1> SUFFICES ASSUME CoverInv PROVE PaidIsCovered
  OBVIOUS
<1>1. ASSUME NEW i \in Installment, installment[i] = "paid", ~IsSatisfied(i)
      PROVE  SupersessionPending(PaymentsOf(i))
  <2>1. PICK g \in Event : /\ Supersedes(g) /\ InstallmentOf[PaymentOf[g]] = i
                           /\ Marked(g) /\ ~IsCompensated(g)
    BY <1>1 DEF CoverInv, PaidUntilReversed
  <2>2. event[g].status # "processed"
    BY <2>1 DEF CoverInv, PipeInv, FinishedWhenProcessed, Finished, EffectsDone
  <2>3. PaymentOf[g] \in PaymentsOf(i)
    BY <2>1, ConstantsAssumption DEF PaymentsOf
  <2> QED
    BY <2>1, <2>2, <2>3 DEF SupersessionPending, Marked
<1>2. ASSUME agreement = "paid_in_full", ~IsSettled
      PROVE  SupersessionPending(Payment)
  BY <1>2, ConstantsAssumption
  DEF CoverInv, PaidInFullUntilReversed, Reopens, SupersessionPending, Marked
<1> QED
  BY <1>1, <1>2 DEF PaidIsCovered

LEMMA CoverMeansNoRetry == CoverInv => NoRetryOfCovered
<1> SUFFICES ASSUME CoverInv, NEW p \in Payment, NEW i \in Installment,
                    i = InstallmentOf[p],
                    retry[p] = "scheduled", IsSatisfied(i)
             PROVE  \E e \in Event : /\ TypeOf[e] = "payment.succeeded"
                                     /\ InstallmentOf[PaymentOf[e]] = i
                                     /\ event[e].from # "none"
                                     /\ event[e].status # "processed"
  BY ConstantsAssumption DEF NoRetryOfCovered
<1>1. AmountPaid(ledger, Considered(i)) < DueOn[i]
  BY DEF CoverInv, RetryIsNeeded
<1>2. /\ AmountPaid(ledger, PaymentsOf(i)) \in Nat
      /\ DueOn[i] \in Nat
      /\ AmountPaid(ledger, PaymentsOf(i)) >= DueOn[i]
  BY LedgerIsExact, PaymentsOfType, AmountIs, ConstantsAssumption
  DEF CoverInv, IsSatisfied
<1>3. Considered(i) # PaymentsOf(i)
  BY <1>1, <1>2
<1>4. PICK q \in PaymentsOf(i) : Fresh(q)
  BY <1>3 DEF Considered
<1> QED
  BY <1>4 DEF Fresh, Concluded, PaymentsOf, Marked

\* No installment and no agreement is called paid that the ledger does not
\* cover, unless an event that took the money back has still to finish.
THEOREM NothingPaidUncovered == Spec => []PaidIsCovered
BY CoverMeansPaid, CoverInvAlways, PTL

\* No retry stays scheduled for an installment that is covered, unless the
\* success that covers it has still to finish.
THEOREM NoRetryWhenCovered == Spec => []NoRetryOfCovered
BY CoverMeansNoRetry, CoverInvAlways, PTL

------------------------------------------------------------------------------
\* The repair batch beside the pipeline, and refunds through the service
\* (Reconciliation).  A refund writes a status without a marker, so nothing
\* that rests on authors can be said of all of this; what is booked rests on
\* the evidence alone.

\* What may be booked as a clearing.
Booked(en) ==
  en.entryType = "payment_cleared" =>
    /\ CreditorNet(en) >= 0
    /\ en.gross = AmountOf[en.payment]
    /\ \E e \in Event : /\ TypeOf[e] = "payment.succeeded" /\ IsSound(e)
                        /\ PaymentOf[e] = en.payment
                        /\ FeeIn[e] = en.processorFee

\* Where a worker goes on the strength of the evidence it has checked.
OnEvidence == {"transition", "reread", "audit", "ledger"}

HandsSound(w) ==
  /\ worker[w].pc \in OnEvidence => IsSound(EventOf(w))
  /\ \A en \in worker[w].plan : Booked(en)

BatchState ==
  [pc : {"idle", "financial", "insert", "except", "lifecycle", "stamp"},
   payment : Payment \cup {"none"}, status : PaymentAttemptStatus \cup {"none"},
   held : BOOLEAN, plan : SUBSET Entry(Payment)]

BatchSound ==
  /\ batch \in BatchState
  /\ batch.pc # "idle" => batch.payment \in Payment
  /\ \A en \in batch.plan : Booked(en)

EvidenceInv ==
  TypeInv /\ (\A w \in Worker : HandsSound(w)) /\ BatchSound /\ BookedOnEvidence

\* Sound evidence may be booked, and so may what is no clearing.
LEMMA ClearingIsBooked ==
  ASSUME NEW e \in Event, IsSound(e), TypeOf[e] = "payment.succeeded",
         FeeIn[e] + PlatformFee <= AmountOf[PaymentOf[e]]
  PROVE  Booked(ClearedPlan(PaymentOf[e], AmountOf[PaymentOf[e]], FeeIn[e], PlatformFee))
<1>1. PICK p \in Payment : p = PaymentOf[e]
  BY ConstantsAssumption
<1>2. AmountOf[p] \in Nat /\ FeeIn[e] \in Nat
  BY ConstantsAssumption
<1> QED
  BY <1>1, <1>2 DEF Booked, ClearedPlan, CreditorNet, PlatformFee

LEMMA OthersAreBooked ==
  ASSUME NEW L \in SUBSET Entry(Payment), NEW p, Posted(L, p, "payment_cleared")
  PROVE  /\ Booked(PayoutPlan(L, p))
         /\ \A t \in ReversalType : Booked(ReversalPlan(L, p, t))
<1>1. Find(L, p, "payment_cleared") \in Entry(Payment)
  BY FindFinds
<1>2. PayoutPlan(L, p).entryType = "payout"
  BY <1>1 DEF PayoutPlan, Entry
<1>3. \A t \in ReversalType : ReversalPlan(L, p, t).entryType = t
  BY <1>1 DEF ReversalPlan, Entry
<1> QED
  BY <1>2, <1>3 DEF Booked, ReversalType

\* One worker has moved: it keeps its event, and holds no plan or the same.
LEMMA HandsGo ==
  ASSUME TypeInv, \A v \in Worker : HandsSound(v), NEW w \in Worker, NEW pc \in PC,
         Goto(w, pc), pc \in OnEvidence => IsSound(EventOf(w))
  PROVE  \A v \in Worker : HandsSound(v)'
<1>1. /\ \A v \in Worker : v # w => worker'[v] = worker[v]
      /\ worker'[w].pc = pc /\ worker'[w].event = worker[w].event
      /\ worker'[w].plan = worker[w].plan
  BY GotoMoves DEF TypeInv, TypeOK
<1>2. HandsSound(w)'
  BY <1>1 DEF HandsSound, EventOf, IsSound
<1> QED
  BY <1>1, <1>2 DEF HandsSound, EventOf, IsSound

LEMMA HandsPlan ==
  ASSUME TypeInv, \A v \in Worker : HandsSound(v), NEW w \in Worker,
         NEW en \in Entry(Payment), Insert(w, en), Booked(en)
  PROVE  \A v \in Worker : HandsSound(v)'
<1>1. /\ \A v \in Worker : v # w => worker'[v] = worker[v]
      /\ worker'[w].pc = "insert" /\ worker'[w].plan = {en}
  BY InsertMoves DEF TypeInv, TypeOK
<1>2. HandsSound(w)'
  BY <1>1 DEF HandsSound, OnEvidence
<1> QED
  BY <1>1, <1>2 DEF HandsSound, EventOf, IsSound

LEMMA HandsLetGo ==
  ASSUME TypeInv, \A v \in Worker : HandsSound(v), NEW w \in Worker,
         worker' = [worker EXCEPT ![w] = Idle]
  PROVE  \A v \in Worker : HandsSound(v)'
<1>1. \A v \in Worker : v # w => worker'[v] = worker[v]
  BY IdleMoves DEF TypeInv, TypeOK
<1>2. worker'[w] = Idle
  BY IdleMoves DEF TypeInv, TypeOK
<1>3. HandsSound(w)'
  BY <1>2 DEF HandsSound, OnEvidence, Idle
<1> QED
  BY <1>1, <1>3 DEF HandsSound, EventOf, IsSound

\* No step of the pipeline takes a worker past the evidence checks that has
\* not passed them, or plans what may not be booked.
LEMMA HandsStep ==
  ASSUME TypeInv, \A v \in Worker : HandsSound(v), [Next]_vars
  PROVE  \A v \in Worker : HandsSound(v)'
<1>a. /\ worker \in [Worker -> WorkerState] /\ event \in [Event -> EventRow]
      /\ payment \in [Payment -> PaymentRow]
      /\ ledger \in SUBSET Entry(Payment)
  BY DEF TypeInv, TypeOK
<1>b. ASSUME NEW w \in Worker, worker[w].pc # "idle"
      PROVE  EventOf(w) \in Event /\ Target(w) \in Payment
  BY <1>b, ConstantsAssumption DEF TypeInv, Holding, EventOf, Target
<1>c. CASE worker' = worker
  BY <1>c DEF HandsSound, EventOf, IsSound
<1>1. ASSUME NEW w \in Worker, NEW e \in Event, TakeOwnership(w, e)
      PROVE  \A v \in Worker : HandsSound(v)'
  <2>1. \A v \in Worker : v # w => /\ worker'[v].pc = worker[v].pc
                                   /\ worker'[v].event = worker[v].event
                                   /\ worker'[v].plan = worker[v].plan
    BY <1>a, <1>1, ClaimMoves
  <2>2. worker'[w].pc = "lookup"
    BY <1>a, <1>1, ClaimMoves
  <2>3. worker'[w].plan = {}
    BY <1>1 DEF TakeOwnership, Idle
  <2>4. HandsSound(w)'
    BY <2>2, <2>3 DEF HandsSound, OnEvidence
  <2> QED
    BY <2>1, <2>4 DEF HandsSound, EventOf, IsSound
<1>2. ASSUME NEW w \in Worker, LookupPayment(w)
      PROVE  \A v \in Worker : HandsSound(v)'
  <2>1. \E pc \in PC : Goto(w, pc) /\ (pc \in OnEvidence => IsSound(EventOf(w)))
    BY <1>2 DEF LookupPayment, PC, OnEvidence, IsSound, Target
  <2> QED
    BY <2>1, HandsGo
<1>3. ASSUME NEW w \in Worker, applyTransition(w) \/ RereadPayment(w)
      PROVE  \A v \in Worker : HandsSound(v)'
  <2>0. worker[w].pc \in {"transition", "reread"} /\ IsSound(EventOf(w))
    BY <1>3 DEF applyTransition, RereadPayment, HandsSound, OnEvidence
  <2>1. EventOf(w) \in Event /\ Target(w) \in Payment
    BY <1>b, <2>0
  <2>a. PICK old : old = payment[Target(w)].status
    OBVIOUS
  <2>b. PICK to : to = Dest(EventOf(w))
    OBVIOUS
  <2>c. old \in PaymentAttemptStatus
    BY <1>a, <2>1, <2>a DEF PaymentRow
  <2>d. to \in PaymentAttemptStatus
    <3>1. IsSound(EventOf(w)) => TypeOf[EventOf(w)] \in DOMAIN EventTypeToStatus
      BY DEF IsSound
    <3> QED
      BY <2>0, <2>b, <3>1, DestType DEF Dest, Superseding, PaymentAttemptStatus
  <2>2. /\ \A v \in Worker : v # w => worker'[v] = worker[v]
        /\ worker'[w].event = worker[w].event
        /\ worker'[w].plan = worker[w].plan
    <3>1. CASE \E pc \in PC : HavingRead(w, old, pc)
      BY <1>a, <2>c, <3>1, ReadMoves
    <3>2. CASE \E pc \in PC : Goto(w, pc)
      BY <1>a, <3>2, GotoMoves
    <3>3. CASE worker' = [worker EXCEPT ![w].current = to, ![w].from = old,
                                        ![w].pc = "audit"]
      BY <1>a, <2>c, <2>d, <3>3, TransitionMoves
    <3>4. \/ \E pc \in PC : HavingRead(w, old, pc)
          \/ \E pc \in PC : Goto(w, pc)
          \/ worker' = [worker EXCEPT ![w].current = to, ![w].from = old,
                                      ![w].pc = "audit"]
      BY <1>3, <2>a, <2>b DEF applyTransition, RereadPayment, PC
    <3> QED
      BY <3>1, <3>2, <3>3, <3>4
  <2>3. HandsSound(w)'
    BY <2>0, <2>2 DEF HandsSound, EventOf, IsSound
  <2> QED
    BY <2>2, <2>3 DEF HandsSound, EventOf, IsSound
<1>4. ASSUME NEW w \in Worker, recordTransitionAudit(w)
      PROVE  \A v \in Worker : HandsSound(v)'
  BY <1>4, HandsGo DEF recordTransitionAudit, HandsSound, OnEvidence, PC
<1>5. ASSUME NEW w \in Worker, postPaymentCleared(w)
      PROVE  \A v \in Worker : HandsSound(v)'
  <2>1. PICK e \in Event : e = EventOf(w) /\ Target(w) = PaymentOf[e]
    BY <1>5, <1>b DEF postPaymentCleared, Target
  <2>2. TypeOf[e] = "payment.succeeded" /\ IsSound(e)
    BY <1>5, <2>1 DEF postPaymentCleared, HandsSound, OnEvidence
  <2>3. CASE \E pc \in PC \ OnEvidence : Goto(w, pc)
    BY <2>3, HandsGo
  <2>4. CASE /\ ~FeesExceedGross(AmountOf[PaymentOf[e]], FeeIn[e], PlatformFee)
             /\ Insert(w, ClearedPlan(PaymentOf[e], AmountOf[PaymentOf[e]], FeeIn[e], PlatformFee))
    <3>1. PaymentOf[e] \in Payment /\ AmountOf[PaymentOf[e]] \in Nat /\ FeeIn[e] \in Nat
      BY ConstantsAssumption
    <3>2. ClearedPlan(PaymentOf[e], AmountOf[PaymentOf[e]], FeeIn[e], PlatformFee)
            \in Entry(Payment)
      BY <1>a, <3>1, PlanType DEF PlatformFee
    <3>3. FeeIn[e] + PlatformFee <= AmountOf[PaymentOf[e]]
      BY <2>4, <3>1 DEF FeesExceedGross, PlatformFee
    <3> QED
      BY <2>2, <2>4, <3>2, <3>3, ClearingIsBooked, HandsPlan
  <2> QED
    BY <1>5, <2>1, <2>3, <2>4 DEF postPaymentCleared, AfterLedger, PC, OnEvidence
<1>6. ASSUME NEW w \in Worker, reversePayment(w)
      PROVE  \A v \in Worker : HandsSound(v)'
  <2>1. CASE \E pc \in PC \ OnEvidence : Goto(w, pc)
    BY <2>1, HandsGo
  <2>2. ASSUME NEW t \in ReversalType, Posted(ledger, Target(w), "payment_cleared"),
               Insert(w, ReversalPlan(ledger, Target(w), t))
        PROVE  \A v \in Worker : HandsSound(v)'
    <3>1. Target(w) \in Payment
      BY <1>6, <1>b DEF reversePayment
    <3>2. ReversalPlan(ledger, Target(w), t) \in Entry(Payment)
      BY <1>a, <2>2, <3>1, PlanType
    <3>3. Booked(ReversalPlan(ledger, Target(w), t))
      BY <1>a, <2>2, OthersAreBooked
    <3> QED
      BY <2>2, <3>2, <3>3, HandsPlan
  <2>3. ReversalEntryOf(TypeOf[EventOf(w)]) \in ReversalType
    BY DEF ReversalEntryOf, ReversalType
  <2>4. AfterLedger(EventOf(w)) \in PC \ OnEvidence
    BY DEF AfterLedger, PC, OnEvidence
  <2>5. "retryable" \in PC \ OnEvidence
    BY DEF PC, OnEvidence
  <2> QED
    BY <1>6, <2>1, <2>2, <2>3, <2>4, <2>5 DEF reversePayment
<1>7. ASSUME NEW w \in Worker, postPayout(w)
      PROVE  \A v \in Worker : HandsSound(v)'
  <2>1. CASE \E pc \in PC \ OnEvidence : Goto(w, pc)
    BY <2>1, HandsGo
  <2>2. CASE /\ Posted(ledger, Target(w), "payment_cleared")
             /\ Insert(w, PayoutPlan(ledger, Target(w)))
    <3>1. Target(w) \in Payment
      BY <1>7, <1>b DEF postPayout
    <3>2. PayoutPlan(ledger, Target(w)) \in Entry(Payment)
      BY <1>a, <2>2, <3>1, PlanType
    <3>3. Booked(PayoutPlan(ledger, Target(w)))
      BY <1>a, <2>2, OthersAreBooked
    <3> QED
      BY <2>2, <3>2, <3>3, HandsPlan
  <2> QED
    BY <1>7, <2>1, <2>2 DEF postPayout, CanPayOut, PC, OnEvidence
<1>8. ASSUME NEW w \in Worker, insertEntry(w)
      PROVE  \A v \in Worker : HandsSound(v)'
  <2>1. AfterLedger(EventOf(w)) \in PC \ OnEvidence
    BY DEF AfterLedger, PC, OnEvidence
  <2>2. /\ \A v \in Worker : v # w => worker'[v] = worker[v]
        /\ worker'[w].pc = AfterLedger(EventOf(w)) /\ worker'[w].plan = {}
    BY <1>8, <1>a, <2>1, InsertedMoves DEF insertEntry
  <2>3. HandsSound(w)'
    BY <2>1, <2>2 DEF HandsSound
  <2> QED
    BY <2>2, <2>3 DEF HandsSound, EventOf, IsSound
<1>9. ASSUME NEW w \in Worker,
             \/ detectAndRecordConflict(w) \/ NoLedgerEntry(w)
             \/ markPayoutCompleted(w) \/ recordPayoutAudit(w)
             \/ evaluateSuccessEffectDisposition(w) \/ coordinateSuccess(w)
             \/ coordinateFailure(w) \/ coordinateSupersession(w)
             \/ decideAndApply(w) \/ markLifecycleChecked(w)
             \/ recomputeAfterSupersession(w) \/ TransientError(w)
      PROVE  \A v \in Worker : HandsSound(v)'
  <2>1. \E pc \in {"processed", "workflow", "auditPayout", "retryable",
                   "completion", "lifecycle"} : Goto(w, pc)
    BY <1>9
    DEF detectAndRecordConflict, NoLedgerEntry, markPayoutCompleted,
        recordPayoutAudit, evaluateSuccessEffectDisposition, coordinateSuccess,
        coordinateFailure, coordinateSupersession, decideAndApply,
        markLifecycleChecked, recomputeAfterSupersession, TransientError
  <2> QED
    BY <2>1, HandsGo DEF PC, OnEvidence
<1>10. ASSUME NEW w \in Worker,
              \/ markProcessed(w) \/ markFailedRetryable(w)
              \/ markFailedPermanent(w) \/ Crash(w)
       PROVE  \A v \in Worker : HandsSound(v)'
  BY <1>10, HandsLetGo
  DEF markProcessed, markFailedRetryable, markFailedPermanent, Finalize, Crash
<1> QED
  BY <1>c, <1>1, <1>2, <1>3, <1>4, <1>5, <1>6, <1>7, <1>8, <1>9, <1>10
  DEF Next, vars, Step, tryInsertAndClaim, claimExisting, LeaseExpires,
      BackoffElapses, DueDatePasses, PersistProviderPaymentId

\* An insertion of what may be booked.
LEMMA InsertBooks ==
  ASSUME BookedOnEvidence, NEW en, Booked(en), ledger' = InsertIdempotently(ledger, en)
  PROVE  BookedOnEvidence'
<1>1. ledger' \subseteq ledger \cup {en}
  BY DEF InsertIdempotently
<1> QED
  BY <1>1 DEF BookedOnEvidence, Booked, CreditorNet, IsSound

LEMMA PipelineBooks ==
  ASSUME EvidenceInv, [Next]_vars, UNCHANGED batch
  PROVE  EvidenceInv'
<1>1. TypeInv' /\ \A w \in Worker : HandsSound(w)'
  BY TypeInvStep, HandsStep DEF EvidenceInv
<1>2. BatchSound'
  BY DEF EvidenceInv, BatchSound, Booked, CreditorNet, IsSound
<1>3. BookedOnEvidence'
  <2>1. CASE ledger' = ledger
    BY <2>1 DEF EvidenceInv, BookedOnEvidence, CreditorNet, IsSound
  <2>2. ASSUME NEW w \in Worker, insertEntry(w) PROVE BookedOnEvidence'
    BY <2>2, InsertBooks DEF insertEntry, EvidenceInv, HandsSound
  <2> QED
    BY <2>1, <2>2, LedgerSteps
<1> QED
  BY <1>1, <1>2, <1>3 DEF EvidenceInv

\* What a repair posts is proved by one trusted event whose figures agree.
LEMMA RepairPlans ==
  ASSUME EvidenceInv, NEW p \in Payment
  PROVE  /\ ClearingRepair(p) \subseteq Entry(Payment)
         /\ \A en \in ClearingRepair(p) : Booked(en)
         /\ \A s : /\ ReversalRepair(p, s) \subseteq Entry(Payment)
                   /\ \A en \in ReversalRepair(p, s) : Booked(en)
<1>a. ledger \in SUBSET Entry(Payment)
  BY DEF EvidenceInv, TypeInv, TypeOK
<1>1. ASSUME NEW en \in ClearingRepair(p)
      PROVE  en \in Entry(Payment) /\ Booked(en)
  <2>1. PICK e \in UnambiguousTrustedEvent(p, "payment.succeeded") :
          /\ AmountIn[e] = AmountOf[p] /\ FeeIn[e] + PlatformFee <= AmountOf[p]
          /\ en = ClearedPlan(p, AmountOf[p], FeeIn[e], PlatformFee)
    BY DEF ClearingRepair
  <2>2. e \in TrustedEvents(p, "payment.succeeded")
    BY <2>1 DEF UnambiguousTrustedEvent
  <2>3. /\ e \in Event /\ TypeOf[e] = "payment.succeeded" /\ PaymentOf[e] = p
        /\ e \notin Foreign
    BY <2>2 DEF TrustedEvents, Matching
  <2>4. IsSound(e)
    BY <2>1, <2>3 DEF IsSound, EventTypeToStatus
  <2>5. Booked(en)
    BY <2>1, <2>3, <2>4, ClearingIsBooked
  <2>6. AmountOf[p] \in Nat /\ FeeIn[e] \in Nat /\ PlatformFee \in Nat
    BY <2>3, ConstantsAssumption DEF PlatformFee
  <2>7. en \in Entry(Payment)
    BY <1>a, <2>1, <2>6, PlanType
  <2> QED
    BY <2>5, <2>7
<1>2. ASSUME NEW s, NEW en \in ReversalRepair(p, s)
      PROVE  en \in Entry(Payment) /\ Booked(en)
  <2>1. /\ Posted(ledger, p, "payment_cleared")
        /\ en = ReversalPlan(ledger, p, ReversalEntryFor(s))
    BY <1>2 DEF ReversalRepair
  <2>2. ReversalEntryFor(s) \in ReversalType
    BY DEF ReversalEntryFor, ReversalType
  <2> QED
    BY <1>a, <2>1, <2>2, PlanType, OthersAreBooked
<1> QED
  BY <1>1, <1>2

\* Outside the pipeline only payments, the agreement and the ledger are
\* written, and within their types.
LEMMA RestIsKept ==
  ASSUME EvidenceInv, UNCHANGED <<event, worker, installment, retry, audit,
                                  exceptions, overdue, arrivals>>,
         payment' \in [Payment -> PaymentRow], ledger' \subseteq Entry(Payment),
         agreement' \in {"first_payment_pending", "active", "past_due", "paid_in_full"},
         faults' \in 0..MaxFaults
  PROVE  TypeInv' /\ \A w \in Worker : HandsSound(w)'
<1>1. TypeOK'
  BY DEF EvidenceInv, TypeInv, TypeOK
<1>2. Holding'
  BY DEF EvidenceInv, TypeInv, Holding
<1> QED
  BY <1>1, <1>2 DEF EvidenceInv, TypeInv, HandsSound, EventOf, IsSound, Booked, CreditorNet

LEMMA RepairBooks ==
  ASSUME EvidenceInv, RepairStep \/ RepairCrash
  PROVE  EvidenceInv'
<1>a. /\ batch \in BatchState /\ (batch.pc # "idle" => batch.payment \in Payment)
      /\ \A en \in batch.plan : Booked(en)
  BY DEF EvidenceInv, BatchSound
<1>b. /\ payment \in [Payment -> PaymentRow] /\ ledger \subseteq Entry(Payment)
      /\ agreement \in {"first_payment_pending", "active", "past_due", "paid_in_full"}
      /\ faults \in 0..MaxFaults /\ MaxFaults \in Nat
  BY ConstantsAssumption DEF EvidenceInv, TypeInv, TypeOK
<1>c. NoCandidate \in BatchState /\ NoCandidate.pc = "idle" /\ NoCandidate.plan = {}
  BY DEF NoCandidate, BatchState
<1>d. ASSUME NEW pc \in {"idle", "financial", "insert", "except", "lifecycle", "stamp"},
             NEW P \in SUBSET Entry(Payment), \A en \in P : Booked(en),
             batch' = [batch EXCEPT !.pc = pc, !.plan = P], batch.pc # "idle"
      PROVE  BatchSound'
  <2>1. /\ batch' \in BatchState /\ batch'.payment = batch.payment /\ batch'.plan = P
    BY <1>a, <1>d DEF BatchState
  <2> QED
    BY <1>a, <1>d, <2>1 DEF BatchSound, Booked, CreditorNet, IsSound
<1>e. ASSUME NEW pc \in {"idle", "financial", "insert", "except", "lifecycle", "stamp"},
             batch' = [batch EXCEPT !.pc = pc], batch.pc # "idle"
      PROVE  BatchSound'
  <2>1. /\ batch' \in BatchState /\ batch'.payment = batch.payment
        /\ batch'.plan = batch.plan
    BY <1>a, <1>e DEF BatchState
  <2> QED
    BY <1>a, <1>e, <2>1 DEF BatchSound, Booked, CreditorNet, IsSound
<1>f. ASSUME batch' = NoCandidate PROVE BatchSound'
  BY <1>c, <1>f DEF BatchSound
<1>g. ASSUME ledger' = ledger PROVE BookedOnEvidence'
  BY <1>g DEF EvidenceInv, BookedOnEvidence, CreditorNet, IsSound
<1>1. CASE repairFinancialEffects
  <2>1. UNCHANGED vars /\ batch.pc = "financial"
    BY <1>1 DEF repairFinancialEffects
  <2>2. TypeInv' /\ \A w \in Worker : HandsSound(w)'
    BY <1>b, <2>1, RestIsKept DEF vars, schedule, clock
  <2>3. batch.payment \in Payment
    BY <1>a, <2>1
  <2>4. PICK P : P = IF batch.status = "succeeded" THEN ClearingRepair(batch.payment)
                     ELSE ReversalRepair(batch.payment, batch.status)
    OBVIOUS
  <2>5. P \in SUBSET Entry(Payment) /\ \A en \in P : Booked(en)
    BY <2>3, <2>4, RepairPlans
  <2>6. \/ batch' = [batch EXCEPT !.pc = "lifecycle"]
        \/ batch' = [batch EXCEPT !.pc = "except"]
        \/ batch' = [batch EXCEPT !.pc = "insert", !.plan = P]
    BY <1>1, <2>4 DEF repairFinancialEffects
  <2>7. BatchSound'
    BY <1>d, <1>e, <2>1, <2>5, <2>6
  <2> QED
    BY <1>g, <2>1, <2>2, <2>7 DEF EvidenceInv, vars
<1>2. CASE insertRepair
  <2>1. PICK en \in batch.plan : ledger' = InsertIdempotently(ledger, en)
    BY <1>2 DEF insertRepair
  <2>2. en \in Entry(Payment) /\ Booked(en)
    BY <1>a, <2>1 DEF BatchState
  <2>3. ledger' \subseteq Entry(Payment)
    BY <1>b, <2>1, <2>2 DEF InsertIdempotently
  <2>4. TypeInv' /\ \A w \in Worker : HandsSound(w)'
    BY <1>b, <1>2, <2>3, RestIsKept DEF insertRepair, schedule, clock
  <2>5. BookedOnEvidence'
    BY <2>1, <2>2, InsertBooks DEF EvidenceInv
  <2>6. /\ batch' = [batch EXCEPT !.pc = "lifecycle", !.plan = {}]
        /\ batch.pc # "idle"
    BY <1>2 DEF insertRepair
  <2>7. BatchSound'
    <3>1. {} \in SUBSET Entry(Payment) /\ \A x \in {} : Booked(x)
      OBVIOUS
    <3> QED
      BY <1>d, <2>6, <3>1
  <2> QED
    BY <2>4, <2>5, <2>7 DEF EvidenceInv
<1>3. CASE recordPostingFailure
  <2>1. TypeInv' /\ \A w \in Worker : HandsSound(w)'
    BY <1>b, <1>3, RestIsKept DEF recordPostingFailure, vars, schedule, clock
  <2>2. BatchSound'
    BY <1>3, <1>e DEF recordPostingFailure
  <2> QED
    BY <1>3, <1>g, <2>1, <2>2 DEF EvidenceInv, recordPostingFailure, vars
<1>4. CASE repairLifecycle
  <2>1. agreement' \in {"first_payment_pending", "active", "past_due", "paid_in_full"}
    BY <1>b, <1>4 DEF repairLifecycle, checkAndAdvance
  <2>2. TypeInv' /\ \A w \in Worker : HandsSound(w)'
    BY <1>b, <1>4, <2>1, RestIsKept DEF repairLifecycle, clock
  <2>3. BatchSound'
    BY <1>4, <1>e, <1>f DEF repairLifecycle
  <2> QED
    BY <1>4, <1>g, <2>2, <2>3 DEF EvidenceInv, repairLifecycle
<1>5. CASE stampLifecycle
  <2>1. payment' \in [Payment -> PaymentRow]
    BY <1>b, <1>5 DEF stampLifecycle, PaymentRow
  <2>2. TypeInv' /\ \A w \in Worker : HandsSound(w)'
    BY <1>b, <1>5, <2>1, RestIsKept DEF stampLifecycle, schedule, clock
  <2> QED
    BY <1>5, <1>f, <1>g, <2>2 DEF EvidenceInv, stampLifecycle
<1>6. CASE RepairCrash
  <2>1. TypeInv' /\ \A w \in Worker : HandsSound(w)'
    BY <1>b, <1>6, RestIsKept DEF RepairCrash, schedule
  <2> QED
    BY <1>6, <1>f, <1>g, <2>1 DEF EvidenceInv, RepairCrash
<1> QED
  BY <1>1, <1>2, <1>3, <1>4, <1>5, <1>6 DEF RepairStep

\* The rest of what happens beside the pipeline.
LEMMA AsideBooks ==
  ASSUME EvidenceInv, NEW p \in Payment,
         \/ repairBatch(p) \/ RepairBackoffElapses(p) \/ resolveException(p)
         \/ refundPayment(p) \/ markRefunded(p)
  PROVE  EvidenceInv'
<1>b. /\ payment \in [Payment -> PaymentRow] /\ ledger \subseteq Entry(Payment)
      /\ agreement \in {"first_payment_pending", "active", "past_due", "paid_in_full"}
      /\ faults \in 0..MaxFaults
  BY DEF EvidenceInv, TypeInv, TypeOK
<1>1. payment' \in [Payment -> PaymentRow]
  <2>1. CASE markRefunded(p)
    BY <1>b, <2>1 DEF markRefunded, PaymentRow, PaymentAttemptStatus
  <2>2. CASE ~markRefunded(p)
    BY <1>b, <2>2 DEF repairBatch, RepairBackoffElapses, resolveException,
                      refundPayment, vars
  <2> QED
    BY <2>1, <2>2
<1>2. UNCHANGED <<event, worker, ledger, schedule, audit, exceptions, clock>>
  BY DEF repairBatch, RepairBackoffElapses, resolveException, refundPayment,
         markRefunded, vars
<1>3. TypeInv' /\ \A w \in Worker : HandsSound(w)'
  BY <1>b, <1>1, <1>2, RestIsKept DEF schedule, clock
<1>4. BookedOnEvidence'
  BY <1>2 DEF EvidenceInv, BookedOnEvidence, CreditorNet, IsSound
<1>5. BatchSound'
  <2>1. CASE repairBatch(p)
    <3>1. payment[p].status \in PaymentAttemptStatus
      BY <1>b DEF PaymentRow
    <3>2. /\ batch' \in BatchState /\ batch'.payment = p /\ batch'.plan = {}
      BY <2>1, <3>1 DEF repairBatch, BatchState
    <3> QED
      BY <3>2 DEF BatchSound
  <2>2. CASE batch' = batch
    BY <2>2 DEF EvidenceInv, BatchSound, Booked, CreditorNet, IsSound
  <2> QED
    BY <2>1, <2>2 DEF RepairBackoffElapses, resolveException, refundPayment,
                      markRefunded, repairs
<1> QED
  BY <1>3, <1>4, <1>5 DEF EvidenceInv

LEMMA EvidenceInvStep == EvidenceInv /\ [RNext]_allVars => EvidenceInv'
<1> SUFFICES ASSUME EvidenceInv, [RNext]_allVars PROVE EvidenceInv'
  OBVIOUS
<1>1. CASE [Next]_vars /\ UNCHANGED batch
  BY <1>1, PipelineBooks
<1>2. CASE RepairStep \/ RepairCrash
  BY <1>2, RepairBooks
<1>3. ASSUME NEW p \in Payment,
             \/ repairBatch(p) \/ RepairBackoffElapses(p) \/ resolveException(p)
             \/ refundPayment(p) \/ markRefunded(p)
      PROVE  EvidenceInv'
  BY <1>3, AsideBooks
<1> QED
  BY <1>1, <1>2, <1>3 DEF RNext, allVars, repairs

LEMMA EvidenceInvInit == RInit => EvidenceInv
<1> SUFFICES ASSUME RInit PROVE EvidenceInv
  OBVIOUS
<1>1. TypeInv
  BY TypeInvInit DEF RInit
<1>2. \A w \in Worker : HandsSound(w)
  BY DEF RInit, Init, Idle, HandsSound, OnEvidence
<1>3. BatchSound
  BY DEF RInit, NoCandidate, BatchSound, BatchState
<1>4. BookedOnEvidence
  BY DEF RInit, Init, BookedOnEvidence
<1> QED
  BY <1>1, <1>2, <1>3, <1>4 DEF EvidenceInv

\* Only evidence is booked, by the pipeline, by a repair that works on a stale
\* row while the pipeline goes on, and whatever is refunded meanwhile.
THEOREM OnlyEvidenceIsBooked == RSpec => []BookedOnEvidence
<1>1. EvidenceInv => BookedOnEvidence
  BY DEF EvidenceInv
<1> QED
  BY <1>1, EvidenceInvInit, EvidenceInvStep, PTL DEF RSpec

------------------------------------------------------------------------------
\* The repair batch beside the pipeline, as long as no refund through the
\* service has written a status: every status has its author then, and the
\* batch posts no more than that author would.

\* The candidate's status is the one that was read, or a success that has been
\* superseded since, and what is planned for it fits.
BatchFits ==
  LET p == batch.payment IN
  batch.pc # "idle" =>
    /\ batch.status \in {"succeeded"} \cup Superseding
    /\ \/ payment[p].status = batch.status
       \/ batch.status = "succeeded" /\ payment[p].status \in Superseding
    /\ \A en \in batch.plan :
         /\ en.payment = p
         /\ en.entryType = IF batch.status = "succeeded" THEN "payment_cleared"
                           ELSE ReversalEntryFor(batch.status)

\* What a step of the batch leaves alone, and what it may write.
Mends ==
  /\ UNCHANGED <<event, worker, installment, retry, audit, exceptions>>
  /\ \A p \in Payment :
       /\ payment'[p].status = payment[p].status /\ payment'[p].id = payment[p].id
       /\ payment'[p].payoutCompleted = payment[p].payoutCompleted
       /\ payment[p].lifecycleChecked => payment'[p].lifecycleChecked
  /\ \/ ledger' = ledger
     \/ /\ batch.pc = "insert" /\ agreement' = agreement
        /\ \E en \in batch.plan : ledger' = InsertIdempotently(ledger, en)
  /\ agreement' # agreement /\ agreement' = "paid_in_full" => IsSettled /\ ledger' = ledger

LEMMA BatchMends ==
  ASSUME EvidenceInv,
         RepairStep \/ RepairCrash \/ \E p \in Payment : repairBatch(p)
  PROVE  Mends
<1>a. /\ payment \in [Payment -> PaymentRow]
      /\ batch.pc # "idle" => batch.payment \in Payment
  BY DEF EvidenceInv, TypeInv, TypeOK, BatchSound
<1>1. CASE stampLifecycle
  <2>1. PICK q \in Payment : q = batch.payment
    BY <1>a, <1>1 DEF stampLifecycle
  <2>2. payment' = [payment EXCEPT ![q].lifecycleChecked = TRUE]
    BY <1>1, <2>1 DEF stampLifecycle
  <2>3. \A p \in Payment :
          /\ payment'[p].status = payment[p].status /\ payment'[p].id = payment[p].id
          /\ payment'[p].payoutCompleted = payment[p].payoutCompleted
          /\ payment[p].lifecycleChecked => payment'[p].lifecycleChecked
    BY <1>a, <2>2 DEF PaymentRow
  <2> QED
    BY <1>1, <2>3 DEF stampLifecycle, schedule, Mends
<1>2. CASE repairLifecycle
  <2>1. agreement' # agreement /\ agreement' = "paid_in_full" => IsSettled
    BY <1>2 DEF repairLifecycle, checkAndAdvance
  <2> QED
    BY <1>2, <2>1 DEF repairLifecycle, Mends
<1>3. CASE insertRepair
  BY <1>3 DEF insertRepair, Mends, schedule
<1>4. CASE UNCHANGED <<event, worker, payment, ledger, schedule, audit, exceptions>>
  BY <1>4 DEF Mends, schedule
<1> QED
  BY <1>1, <1>2, <1>3, <1>4
  DEF RepairStep, RepairCrash, repairBatch, repairFinancialEffects,
      recordPostingFailure, vars

\* The pipeline's invariant stands up to that: who moved a payment, and what
\* is finished or known, does not depend on who posts first.
LEMMA MendsGrow ==
  ASSUME PipeInv, Mends
  PROVE  Grows
<1>1. BooksGrow
  BY DEF Mends, BooksGrow, InsertIdempotently
<1>2. PaymentsGrow
  BY DEF Mends, PaymentsGrow, Forward
<1>3. MarkersGrow
  BY DEF Mends, MarkersGrow, Marked
<1> QED
  BY <1>1, <1>2, <1>3 DEF Grows

LEMMA MendsPipe ==
  ASSUME PipeInv, EvidenceInv', Mends
  PROVE  PipeInv'
<1>0. Grows
  BY MendsGrow
<1>1. AuthorInv'
  <2>1. TypeInv'
    BY DEF EvidenceInv
  <2>2. Fenced' /\ Unmarked' /\ Submitted'
    <3>1. \A w \in Worker : worker[w].pc = "transition" =>
            PaymentOf[worker[w].event] \in Payment
      BY ConstantsAssumption DEF PipeInv, AuthorInv, TypeInv, Holding
    <3>2. Fenced'
      BY DEF PipeInv, AuthorInv, Fenced, Mends
    <3>3. Unmarked'
      BY <3>1 DEF PipeInv, AuthorInv, Unmarked, Mends
    <3>4. Submitted'
      BY DEF PipeInv, AuthorInv, Submitted, Mends
    <3> QED
      BY <3>2, <3>3, <3>4
  <2>3. StatusHasOneAuthor'
    BY AuthorsKept DEF PipeInv, AuthorInv, PaymentsKept, Mends
  <2> QED
    BY <2>1, <2>2, <2>3 DEF AuthorInv
<1>2. StatusRange' /\ MarkedIsSound'
  BY <1>0, MarkersStaySound DEF PipeInv, StatusRange, Mends
<1>3. Exact(ledger)'
  BY DEF EvidenceInv, BookedOnEvidence, Exact
<1>4. FinishedWhenProcessed'
  BY <1>0, FinishedStays DEF PipeInv, FinishedWhenProcessed, Mends
<1>5. \A w \in Worker : Knows(w)'
  BY <1>0, AllKnow DEF Mends
<1> QED
  BY <1>1, <1>2, <1>3, <1>4, <1>5 DEF PipeInv, Exact

\* A payment stops or starts counting by a repair as it does by the pipeline:
\* on behalf of an event that has moved the payment.
LEMMA ReversalsAgree ==
  ASSUME NEW e \in Event, Supersedes(e)
  PROVE  ReversalEntryOf(TypeOf[e]) = ReversalEntryFor(Dest(e))
<1>1. TypeOf[e] \in {"payment.succeeded", "payment.failed", "payment.refunded",
                     "payment.disputed", "payment.returned", "payment.reversed"}
  BY DEF Supersedes, EventTypeToStatus
<1> QED
  BY <1>1 DEF Supersedes, Dest, EventTypeToStatus, ReversalEntryOf,
              ReversalEntryFor, Superseding

LEMMA MendPosts ==
  ASSUME PipeInv, EvidenceInv, BatchFits, Mends, ledger' # ledger
  PROVE  \E p \in Payment, en \in Entry(Payment), e \in Event :
           /\ ledger' = ledger \cup {en} /\ en.payment = p
           /\ ~Posted(ledger, p, en.entryType)
           /\ PaymentOf[e] = p /\ Marked(e)
           /\ \/ /\ TypeOf[e] = "payment.succeeded"
                 /\ en.entryType = "payment_cleared"
              \/ /\ Supersedes(e)
                 /\ en.entryType = ReversalEntryOf(TypeOf[e])
<1>1. PICK en \in batch.plan : ledger' = InsertIdempotently(ledger, en)
  BY DEF Mends
<1>2. batch.pc # "idle"
  BY DEF Mends
<1>3. PICK p \in Payment : p = batch.payment
  BY <1>2 DEF EvidenceInv, BatchSound
<1>4. /\ en \in Entry(Payment) /\ en.payment = p
      /\ en.entryType = IF batch.status = "succeeded" THEN "payment_cleared"
                        ELSE ReversalEntryFor(batch.status)
  BY <1>1, <1>2, <1>3 DEF BatchFits, EvidenceInv, BatchSound, BatchState
<1>5. ledger' = ledger \cup {en} /\ ~Posted(ledger, p, en.entryType)
  BY <1>1, <1>4 DEF InsertIdempotently
<1>6. PICK s : s = payment[p].status
  OBVIOUS
<1>7. s \in {"succeeded"} \cup Superseding
  BY <1>2, <1>3, <1>6 DEF BatchFits
<1>8. CASE batch.status = "succeeded"
  <2>1. PICK e \in Event : IsAuthor(e, p) /\ Dest(e) = "succeeded"
    <3>1. s \in Superseding \/ (s = "succeeded" /\ s \notin Unresolved)
      BY <1>7, StatusesApart
    <3> QED
      BY <1>6, <3>1, AuthorsOf
  <2>2. TypeOf[e] = "payment.succeeded"
    BY <2>1, SucceededType DEF IsAuthor
  <2> QED
    BY <1>4, <1>5, <1>8, <2>1, <2>2 DEF IsAuthor, Marked
<1>9. CASE batch.status # "succeeded"
  <2>1. s = batch.status /\ s \in Superseding /\ s \notin Unresolved
    BY <1>2, <1>3, <1>6, <1>9, StatusesApart DEF BatchFits
  <2>2. PICK e \in Event : IsAuthor(e, p) /\ Dest(e) = s
    BY <1>6, <2>1, AuthorsOf
  <2>3. Supersedes(e)
    BY <2>1, <2>2 DEF IsAuthor, Supersedes
  <2>4. ReversalEntryOf(TypeOf[e]) = en.entryType
    BY <1>4, <1>9, <2>1, <2>2, <2>3, ReversalsAgree
  <2> QED
    BY <1>4, <1>5, <2>2, <2>3, <2>4 DEF IsAuthor, Marked
<1> QED
  BY <1>8, <1>9

LEMMA MendStops ==
  ASSUME PipeInv, EvidenceInv, BatchFits, Mends, NEW p,
         CountsAsPaid(ledger, p), ~CountsAsPaid(ledger', p)
  PROVE  \E e \in Event :
           /\ Supersedes(e) /\ PaymentOf[e] = p /\ Marked(e)
           /\ ~Posted(ledger, p, ReversalEntryOf(TypeOf[e]))
<1>1. ledger' # ledger
  OBVIOUS
<1>2. PICK q \in Payment, en \in Entry(Payment), e \in Event :
        /\ ledger' = ledger \cup {en} /\ en.payment = q
        /\ ~Posted(ledger, q, en.entryType)
        /\ PaymentOf[e] = q /\ Marked(e)
        /\ \/ en.entryType = "payment_cleared"
           \/ Supersedes(e) /\ en.entryType = ReversalEntryOf(TypeOf[e])
  BY <1>1, MendPosts
<1>3. q = p /\ en.entryType \in ReversalType
  BY <1>2 DEF CountsAsPaid, IsReversed, Posted
<1> QED
  BY <1>2, <1>3 DEF ReversalType

LEMMA MendStarts ==
  ASSUME PipeInv, EvidenceInv, BatchFits, Mends, NEW p,
         ~CountsAsPaid(ledger, p), CountsAsPaid(ledger', p)
  PROVE  \E e \in Event :
           /\ TypeOf[e] = "payment.succeeded" /\ PaymentOf[e] = p /\ Marked(e)
           /\ ~Posted(ledger, p, "payment_cleared")
<1>1. ledger' # ledger
  OBVIOUS
<1>2. PICK q \in Payment, en \in Entry(Payment), e \in Event :
        /\ ledger' = ledger \cup {en} /\ en.payment = q
        /\ ~Posted(ledger, q, en.entryType)
        /\ PaymentOf[e] = q /\ Marked(e)
        /\ \/ TypeOf[e] = "payment.succeeded" /\ en.entryType = "payment_cleared"
           \/ Supersedes(e) /\ en.entryType = ReversalEntryOf(TypeOf[e])
  BY <1>1, MendPosts
<1>3. q = p /\ en.entryType = "payment_cleared"
  BY <1>2 DEF CountsAsPaid, IsReversed, Posted
<1> QED
  BY <1>2, <1>3 DEF ReversalEntryOf

\* What is called paid stays covered, or the event that takes it back has
\* still to come to the schedule.
LEMMA MendsPaid ==
  ASSUME CoverInv, EvidenceInv, BatchFits, PipeInv', Mends
  PROVE  CompensatedIsPosted' /\ PaidUntilReversed'
<1>0. /\ PipeInv /\ Grows /\ CompensatedIsPosted
      /\ UNCHANGED <<event, audit, installment>>
  BY MendsGrow DEF CoverInv, Mends
<1>1. CompensatedIsPosted'
  <2>1. \A p, t : Posted(ledger, p, t) => Posted(ledger', p, t)
    BY <1>0, PostedStays
  <2> QED
    BY <1>0, <2>1 DEF CompensatedIsPosted, IsCompensated
<1>2. ASSUME NEW i \in Installment, installment'[i] = "paid", ~IsSatisfied(i)'
      PROVE  \E g \in Event : /\ Supersedes(g) /\ InstallmentOf[PaymentOf[g]] = i
                              /\ Marked(g) /\ ~IsCompensated(g)
  <2>1. CASE ~IsSatisfied(i)
    BY <1>0, <1>2, <2>1 DEF CoverInv, PaidUntilReversed
  <2>2. CASE IsSatisfied(i)
    <3>1. DueOn[i] \in Nat /\ PaymentsOf(i) \in SUBSET Payment
      BY ConstantsAssumption, PaymentsOfType
    <3>2. /\ AmountPaid(ledger, PaymentsOf(i)) \in Nat
          /\ AmountPaid(ledger', PaymentsOf(i)) \in Nat
      BY <1>0, <3>1, LedgerIsExact, AmountIs
    <3>3. ~(AmountPaid(ledger, PaymentsOf(i)) <= AmountPaid(ledger', PaymentsOf(i)))
      BY <1>2, <2>2, <3>1, <3>2 DEF IsSatisfied, PaymentsOf
    <3>4. PICK p \in PaymentsOf(i) :
            CountsAsPaid(ledger, p) /\ ~CountsAsPaid(ledger', p)
      BY <1>0, <3>1, <3>3, LedgerIsExact, MorePaid
    <3>5. PICK g \in Event :
            /\ Supersedes(g) /\ PaymentOf[g] = p /\ Marked(g)
            /\ ~Posted(ledger, p, ReversalEntryOf(TypeOf[g]))
      BY <1>0, <3>4, MendStops
    <3> QED
      BY <1>0, <3>5 DEF CompensatedIsPosted, PaymentsOf
  <2> QED
    BY <2>1, <2>2
<1>3. PaidUntilReversed'
  BY <1>0, <1>2 DEF PaidUntilReversed, Supersedes, Dest, Marked, IsCompensated
<1> QED
  BY <1>1, <1>3

LEMMA MendsPaidInFull ==
  ASSUME CoverInv, EvidenceInv, BatchFits, PipeInv', Mends
  PROVE  PaidInFullUntilReversed'
<1>0. /\ PipeInv /\ CompensatedIsPosted
      /\ UNCHANGED <<event, worker, audit, installment>>
  BY DEF CoverInv, Mends
<1>1. ASSUME NEW g \in Event, Reopens(g) PROVE Reopens(g)'
  BY <1>0, <1>1 DEF Reopens, Supersedes, Dest, Marked, EventOf
<1> SUFFICES ASSUME agreement' = "paid_in_full", ~IsSettled'
             PROVE  \E g \in Event : Reopens(g)
  BY <1>1 DEF PaidInFullUntilReversed
<1>2. agreement = "paid_in_full"
  <2>1. ~(IsSettled /\ ledger' = ledger)
    BY <1>0 DEF IsSettled, IsSatisfied, PaymentsOf, Principal
  <2> QED
    BY <2>1 DEF Mends
<1>3. CASE IsSettled
  <2>1. PICK p \in Payment : CountsAsPaid(ledger, p) /\ ~CountsAsPaid(ledger', p)
    BY <1>0, <1>3, StillSettled
  <2>2. PICK g \in Event :
          /\ Supersedes(g) /\ PaymentOf[g] = p /\ Marked(g)
          /\ ~Posted(ledger, p, ReversalEntryOf(TypeOf[g]))
    BY <1>0, <2>1, MendStops
  <2>3. <<g, "agreement_reopened">> \notin audit
    BY <1>0, <2>2 DEF CompensatedIsPosted
  <2>4. ~Finished(g)
    BY <2>2 DEF Finished, EffectsDone
  <2>5. event[g].status # "processed"
    BY <1>0, <2>4 DEF PipeInv, FinishedWhenProcessed
  <2>6. \A w \in Worker : EventOf(w) = g /\ worker[w].owner =>
                            worker[w].pc # "processed"
    BY <1>0, <2>4 DEF PipeInv, Knows, KnowsDone
  <2> QED
    BY <2>2, <2>3, <2>5, <2>6 DEF Reopens
<1>4. CASE ~IsSettled
  BY <1>2, <1>4 DEF CoverInv, PaidInFullUntilReversed
<1> QED
  BY <1>3, <1>4

\* What starts to count by a repair is the payment of a success that has not
\* come to the schedule yet.
LEMMA MendsRetry ==
  ASSUME CoverInv, EvidenceInv, BatchFits, PipeInv', Mends
  PROVE  RetryIsNeeded'
<1>0. PipeInv /\ UNCHANGED <<event, worker, retry>>
  BY DEF CoverInv, Mends
<1> SUFFICES ASSUME NEW p \in Payment, retry[p] = "scheduled",
                    NEW i \in Installment, i = InstallmentOf[p]
             PROVE  AmountPaid(ledger', Considered(i)') < DueOn[i]
  BY <1>0, ConstantsAssumption DEF RetryIsNeeded
<1>1. Considered(i)' = Considered(i)
  BY <1>0 DEF Considered, PaymentsOf, Fresh, Concluded, Marked, EventOf
<1>2. Considered(i) \in SUBSET Payment /\ DueOn[i] \in Nat
  BY ConstantsAssumption DEF Considered, PaymentsOf
<1>3. AmountPaid(ledger, Considered(i)) < DueOn[i]
  BY DEF CoverInv, RetryIsNeeded
<1>4. ASSUME NEW q \in Considered(i), CountsAsPaid(ledger', q),
             ~CountsAsPaid(ledger, q)
      PROVE  FALSE
  <2>1. PICK e \in Event :
          /\ TypeOf[e] = "payment.succeeded" /\ PaymentOf[e] = q /\ Marked(e)
          /\ ~Posted(ledger, q, "payment_cleared")
    BY <1>0, <1>4, MendStarts
  <2>2. ~Concluded(e)
    BY <1>0, <2>1, NotConcluded
  <2> QED
    BY <2>1, <2>2 DEF Considered, Fresh
<1>5. /\ Exact(ledger) /\ Exact(ledger')
  BY <1>0, LedgerIsExact
<1>6. AmountPaid(ledger', Considered(i)) <= AmountPaid(ledger, Considered(i))
  BY <1>2, <1>4, <1>5, MorePaid
<1>7. /\ AmountPaid(ledger', Considered(i)) \in Nat
      /\ AmountPaid(ledger, Considered(i)) \in Nat
  BY <1>2, <1>5, AmountIs
<1> QED
  BY <1>1, <1>2, <1>3, <1>6, <1>7

LEMMA MendsCover ==
  ASSUME CoverInv, EvidenceInv, EvidenceInv', BatchFits, Mends
  PROVE  CoverInv'
<1>1. PipeInv'
  BY MendsPipe DEF CoverInv
<1> QED
  BY <1>1, MendsPaid, MendsPaidInFull, MendsRetry DEF CoverInv

\* The candidate goes on fitting while the pipeline moves its payment on.
LEMMA FitsWhileMoving ==
  ASSUME PipeInv, EvidenceInv, BatchFits, [Next]_vars, UNCHANGED batch
  PROVE  BatchFits'
<1> SUFFICES ASSUME batch.pc # "idle" PROVE BatchFits'
  BY DEF BatchFits
<1>1. PICK p \in Payment : p = batch.payment
  BY DEF EvidenceInv, BatchSound
<1>2. Forward(payment[p].status, payment'[p].status)
  BY Growth DEF Grows, PaymentsGrow
<1>3. /\ batch.status \in {"succeeded"} \cup Superseding
      /\ \/ payment[p].status = batch.status
         \/ batch.status = "succeeded" /\ payment[p].status \in Superseding
  BY <1>1 DEF BatchFits
<1>4. \/ payment'[p].status = batch.status
      \/ batch.status = "succeeded" /\ payment'[p].status \in Superseding
  BY <1>2, <1>3 DEF Forward, Superseding
<1> QED
  BY <1>1, <1>3, <1>4 DEF BatchFits

\* A candidate is taken as its row is, and what a repair plans for it fits.
LEMMA FitsWhileMending ==
  ASSUME EvidenceInv, BatchFits, Mends,
         RepairStep \/ RepairCrash \/ \E p \in Payment : repairBatch(p)
  PROVE  BatchFits'
<1>a. batch \in BatchState /\ (batch.pc # "idle" => batch.payment \in Payment)
  BY DEF EvidenceInv, BatchSound
<1>1. ASSUME NEW p \in Payment, repairBatch(p) PROVE BatchFits'
  <2>1. /\ batch'.payment = p /\ batch'.status = payment[p].status
        /\ batch'.plan = {} /\ payment' = payment
    BY <1>1 DEF repairBatch, vars
  <2>2. payment[p].status \in {"succeeded"} \cup Superseding
    BY <1>1 DEF repairBatch, IsMissingClearing, IsMissingReversal,
                NeedsLifecycleCheck
  <2> QED
    BY <2>1, <2>2 DEF BatchFits
<1>2. CASE batch' = NoCandidate
  BY <1>2 DEF BatchFits, NoCandidate
<1>3. ASSUME batch.pc # "idle", batch'.payment = batch.payment,
             batch'.status = batch.status,
             \A en \in batch'.plan :
               \/ en \in batch.plan
               \/ /\ en.payment = batch.payment
                  /\ en.entryType = IF batch.status = "succeeded"
                                    THEN "payment_cleared"
                                    ELSE ReversalEntryFor(batch.status)
      PROVE  BatchFits'
  <2>1. PICK p \in Payment : p = batch.payment
    BY <1>a, <1>3
  <2>2. payment'[p].status = payment[p].status
    BY DEF Mends
  <2> QED
    BY <1>3, <2>1, <2>2 DEF BatchFits
<1>4. CASE repairFinancialEffects
  <2>1. batch.pc = "financial"
    BY <1>4 DEF repairFinancialEffects
  <2>2. PICK p \in Payment : p = batch.payment
    BY <1>a, <2>1
  <2>3. PICK P : P = IF batch.status = "succeeded" THEN ClearingRepair(p)
                     ELSE ReversalRepair(p, batch.status)
    OBVIOUS
  <2>4. ASSUME NEW en \in P
        PROVE  /\ en.payment = p
               /\ en.entryType = IF batch.status = "succeeded"
                                 THEN "payment_cleared"
                                 ELSE ReversalEntryFor(batch.status)
    <3>1. CASE batch.status = "succeeded"
      BY <2>3, <2>4, <3>1 DEF ClearingRepair, ClearedPlan
    <3>2. CASE batch.status # "succeeded"
      <4>1. /\ Posted(ledger, p, "payment_cleared")
            /\ en = ReversalPlan(ledger, p, ReversalEntryFor(batch.status))
        BY <2>3, <2>4, <3>2 DEF ReversalRepair
      <4>2. /\ Find(ledger, p, "payment_cleared") \in Entry(Payment)
            /\ Find(ledger, p, "payment_cleared").payment = p
        BY <4>1, FindFinds DEF EvidenceInv, TypeInv, TypeOK
      <4> QED
        BY <3>2, <4>1, <4>2 DEF ReversalPlan, Entry
    <3> QED
      BY <3>1, <3>2
  <2>5. \/ batch' = [batch EXCEPT !.pc = "lifecycle"]
        \/ batch' = [batch EXCEPT !.pc = "except"]
        \/ batch' = [batch EXCEPT !.pc = "insert", !.plan = P]
    BY <1>4, <2>2, <2>3 DEF repairFinancialEffects
  <2>6. /\ batch'.payment = batch.payment /\ batch'.status = batch.status
        /\ batch'.plan = batch.plan \/ batch'.plan = P
    BY <1>a, <2>5 DEF BatchState
  <2> QED
    BY <1>3, <2>1, <2>2, <2>4, <2>6
<1>5. CASE insertRepair
  <2>1. /\ batch.pc # "idle"
        /\ batch'.payment = batch.payment /\ batch'.status = batch.status
        /\ batch'.plan = {}
    BY <1>a, <1>5 DEF insertRepair, BatchState
  <2> QED
    BY <1>3, <2>1
<1>6. ASSUME NEW pc, batch.pc # "idle", batch' = [batch EXCEPT !.pc = pc]
      PROVE  BatchFits'
  <2>1. /\ batch'.payment = batch.payment /\ batch'.status = batch.status
        /\ batch'.plan = batch.plan
    BY <1>a, <1>6 DEF BatchState
  <2> QED
    BY <1>3, <1>6, <2>1
<1>7. CASE recordPostingFailure
  BY <1>6, <1>7 DEF recordPostingFailure
<1>8. CASE repairLifecycle
  BY <1>2, <1>6, <1>8 DEF repairLifecycle
<1> QED
  BY <1>1, <1>2, <1>4, <1>5, <1>7, <1>8
  DEF RepairStep, RepairCrash, stampLifecycle

\* The inductive invariant of the two together.
RepairInv ==
  /\ EvidenceInv
  /\ refund \in [Payment -> {"none", "asked", "done"}]
  /\ ~IsRefunded => CoverInv /\ BatchFits

LEMMA RepairInvInit == RInit => RepairInv
<1> SUFFICES ASSUME RInit PROVE RepairInv
  OBVIOUS
<1>1. EvidenceInv /\ CoverInv
  BY EvidenceInvInit, CoverInvInit DEF RInit
<1>2. BatchFits /\ refund \in [Payment -> {"none", "asked", "done"}]
  BY DEF RInit, NoCandidate, BatchFits
<1> QED
  BY <1>1, <1>2 DEF RepairInv

\* A refund that has been written stays.
LEMMA RefundSteps ==
  ASSUME RepairInv, [RNext]_allVars
  PROVE  /\ refund' \in [Payment -> {"none", "asked", "done"}]
         /\ IsRefunded => IsRefunded'
         /\ \A p \in Payment : markRefunded(p) => IsRefunded'
<1>0. refund \in [Payment -> {"none", "asked", "done"}]
  BY DEF RepairInv
<1>1. ASSUME NEW p \in Payment, refundPayment(p)
      PROVE  /\ refund' \in [Payment -> {"none", "asked", "done"}]
             /\ \A q \in Payment : refund[q] = "done" => refund'[q] = "done"
  BY <1>0, <1>1 DEF refundPayment
<1>2. ASSUME NEW p \in Payment, markRefunded(p)
      PROVE  /\ refund' \in [Payment -> {"none", "asked", "done"}]
             /\ refund'[p] = "done"
             /\ \A q \in Payment : refund[q] = "done" => refund'[q] = "done"
  BY <1>0, <1>2 DEF markRefunded
<1>3. CASE refund' = refund
  BY <1>0, <1>2, <1>3 DEF IsRefunded
<1>4. CASE \E p \in Payment : refundPayment(p) \/ markRefunded(p)
  BY <1>1, <1>2, <1>4 DEF IsRefunded
<1>5. refund' = refund \/ \E p \in Payment : refundPayment(p) \/ markRefunded(p)
  BY DEF RNext, allVars, RepairStep, repairFinancialEffects, insertRepair,
         recordPostingFailure, repairLifecycle, stampLifecycle, RepairCrash,
         repairBatch, RepairBackoffElapses, resolveException
<1> QED
  BY <1>3, <1>4, <1>5

LEMMA RepairInvStep == RepairInv /\ [RNext]_allVars => RepairInv'
<1> SUFFICES ASSUME RepairInv, [RNext]_allVars PROVE RepairInv'
  OBVIOUS
<1>1. EvidenceInv /\ EvidenceInv'
  BY EvidenceInvStep DEF RepairInv
<1>2. refund' \in [Payment -> {"none", "asked", "done"}]
  BY RefundSteps
<1> SUFFICES ASSUME ~IsRefunded' PROVE CoverInv' /\ BatchFits'
  BY <1>1, <1>2 DEF RepairInv
<1>3. CoverInv /\ BatchFits /\ PipeInv
  BY RefundSteps DEF RepairInv, CoverInv
<1>4. CASE [Next]_vars /\ UNCHANGED batch
  BY <1>1, <1>3, <1>4, CoverInvStep, FitsWhileMoving
<1>5. CASE RepairStep \/ RepairCrash \/ \E p \in Payment : repairBatch(p)
  <2>1. Mends
    BY <1>1, <1>5, BatchMends
  <2> QED
    BY <1>1, <1>3, <1>5, <2>1, MendsCover, FitsWhileMending
<1>6. ASSUME NEW p \in Payment, markRefunded(p) PROVE FALSE
  BY <1>6, RefundSteps
<1>7. ASSUME NEW p \in Payment,
             \/ RepairBackoffElapses(p) \/ resolveException(p) \/ refundPayment(p)
      PROVE  UNCHANGED vars /\ UNCHANGED batch
  BY <1>7 DEF RepairBackoffElapses, resolveException, refundPayment, repairs
<1> QED
  BY <1>4, <1>5, <1>6, <1>7 DEF RNext, allVars, repairs

LEMMA RepairInvAlways == RSpec => []RepairInv
BY RepairInvInit, RepairInvStep, PTL DEF RSpec

\* An agreement is called complete only when it is, also by a repair batch that
\* decides on a row it read before a reversal came, unless the event that
\* reversed it has still to finish (and no refund through the service has
\* written a status).
THEOREM CompletionWithRepairs == RSpec => []CompletionIsEarnedWithoutRefunds
<1>1. RepairInv => CompletionIsEarnedWithoutRefunds
  BY CoverMeansPaid
  DEF RepairInv, CompletionIsEarnedWithoutRefunds, CompletionIsEarned, PaidIsCovered
<1> QED
  BY <1>1, RepairInvAlways, PTL

\* What the pipeline promises when it is alone.
PipelinePromises ==
  /\ StatusHasOneAuthor /\ ProcessedMeansDone /\ NoOutcomeDropped
  /\ PaidIsCovered /\ NoRetryOfCovered

\* A repair batch that posts what the pipeline is about to post takes nothing
\* of that back, as long as no refund through the service has written a
\* status: every status has one author, what is processed is done, no outcome
\* is dropped within reach, what is paid is covered, nothing covered is retried.
THEOREM RepairsDisturbNothing == RSpec => [](~IsRefunded => PipelinePromises)
<1>1. PipeInv => StatusHasOneAuthor /\ ProcessedMeansDone /\ NoOutcomeDropped
  BY PipeMeansDone DEF PipeInv, AuthorInv
<1>2. RepairInv => (~IsRefunded => PipelinePromises)
  BY <1>1, CoverMeansPaid, CoverMeansNoRetry DEF RepairInv, CoverInv, PipelinePromises
<1> QED
  BY <1>2, RepairInvAlways, PTL
==============================================================================
