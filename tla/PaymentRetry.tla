----------------------------- MODULE PaymentRetry -----------------------------
(***************************************************************************)
(* The automatic retry of failed payments: PaymentRetryService's sweep and *)
(* the execution half of FailedPaymentRetryCoordinator.                    *)
(*                                                                         *)
(* Each retry charges the debtor once more for one installment, through a  *)
(* payment_attempt of its own (the anchor, key `retry-<id>`) that is       *)
(* inserted before the provider is called.  A worker is one sweep at one   *)
(* retry.  Sweeps overlap, die at any point, and may never learn what      *)
(* became of a charge; a later sweep looks it up by key and goes on.  The  *)
(* debtor may pay by hand meanwhile.  Each transaction that locks the      *)
(* installment is one action, the provider call inside it included.        *)
(*                                                                         *)
(* The execution token is written once, with the claim, and never again,   *)
(* so comparing it adds nothing to comparing the status.  The event        *)
(* pipeline (PaymentWebhook) appears as its transition and its effects.    *)
(***************************************************************************)
EXTENDS PaymentStatus, Integers, FiniteSetsExt

CONSTANTS
  Retry,       \* retries of failed payments of the installment
  Manual,      \* payments the debtor makes by hand
  Worker,
  Amount,      \* [Retry \cup Manual -> Nat], a retry's is its original's
  Due,         \* the installment's amount
  MaxFaults    \* crashes and answers that never arrive

Attempt == Retry \cup Manual

ASSUME RetryAssumption ==
  /\ Retry \cap Manual = {}
  /\ "none" \notin Retry
  /\ Amount \in [Attempt -> Nat \ {0}]
  /\ Due \in Nat
  /\ MaxFaults \in Nat

VARIABLES
  retry,    \* payment_retry.status
  attempt,  \* payment_attempt of each retry and manual payment
  posted,   \* attempts with a clearing entry in the ledger
  charge,   \* the provider's record of each retry's key
  event,    \* outcomes the provider reported, by webhook or lookup
  applied,  \* outcomes whose transition is in and whose effects are not
  worker,   \* where each sweep is
  faults

vars == <<retry, attempt, posted, charge, event, applied, worker, faults>>

Found == {"none", "pending", "succeeded", "failed"}
PC == {"idle", "prepare", "intent", "dispatch", "lookup", "persist", "report",
       "fire", "resolve", "resolveLookup", "redispatch"}

TypeOK ==
  /\ retry \in [Retry -> {"scheduled", "claimed", "fired", "canceled"}]
  /\ attempt \in [Attempt -> [status : PaymentAttemptStatus \cup {"absent"}, id : BOOLEAN]]
  /\ posted \subseteq Attempt
  /\ charge \in [Retry -> Found]
  /\ event \in [Retry -> SUBSET {"succeeded", "failed"}]
  /\ applied \in [Retry -> SUBSET {"succeeded", "failed"}]
  /\ worker \in [Worker -> [pc : PC, retry : Retry \cup {"none"}, found : Found]]
  /\ faults \in 0..MaxFaults

Idle == [pc |-> "idle", retry |-> "none", found |-> "none"]

\* The originals have failed, and coordinateFailure has scheduled a retry of
\* each.
Init ==
  /\ retry = [t \in Retry |-> "scheduled"]
  /\ attempt = [a \in Attempt |-> [status |-> "absent", id |-> FALSE]]
  /\ posted = {}
  /\ charge = [t \in Retry |-> "none"]
  /\ event = [t \in Retry |-> {}]
  /\ applied = [t \in Retry |-> {}]
  /\ worker = [w \in Worker |-> Idle]
  /\ faults = 0

------------------------------------------------------------------------------
\* What the transactions read under the installment's lock.

\* What the attempts A amount to.
Total(A) == SumFunctionOnSet(Amount, A)

Exists(a)   == attempt[a].status # "absent"
Credited    == Total(posted)
IsSatisfied == Credited >= Due

\* assertWithinInstallmentCeilingWithinTx, and the agreement's balance.
WithinCeiling(a) == Credited + Amount[a] <= Due

\* May still succeed, or succeeded and is not in the ledger yet.
HasCompetingAttempt(a) ==
  \E b \in Attempt \ {a} :
    \/ attempt[b].status \in Unresolved
    \/ attempt[b].status = "succeeded" /\ b \notin posted

At(w, where)   == worker[w].pc = where
Goto(w, where) == worker' = [worker EXCEPT ![w].pc = where]
End(w)         == worker' = [worker EXCEPT ![w] = Idle]
Fault          == faults < MaxFaults /\ faults' = faults + 1

------------------------------------------------------------------------------
\* Firing what is due.

\* The sweep reads the due retries without a lock.
findDueForFiring(w, t) ==
  /\ At(w, "idle") /\ retry[t] = "scheduled"
  /\ worker' = [worker EXCEPT ![w] = [Idle EXCEPT !.pc = "prepare", !.retry = t]]
  /\ UNCHANGED <<retry, attempt, posted, charge, event, applied, faults>>

\* Mutant: a retry is called off whatever became of it meanwhile.
CancelById(t) == retry' = [retry EXCEPT ![t] = "canceled"]

\* markCanceled: only while the retry is still scheduled.
markCanceled(t) ==
  retry' = IF retry[t] = "scheduled" THEN [retry EXCEPT ![t] = "canceled"] ELSE retry

\* The mandate or card is not usable any more, or a party or a limit stands
\* against the payment: the retry is called off.
prepareRetrySubmission(w) ==
  /\ At(w, "prepare")
  /\ \/ Goto(w, "intent") /\ UNCHANGED retry
     \/ markCanceled(worker[w].retry) /\ End(w)
  /\ UNCHANGED <<attempt, posted, charge, event, applied, faults>>

\* Mutant: the intent is declared next to another attempt in flight.
ClaimIfScheduled(t) == retry[t] = "scheduled" /\ ~IsSatisfied

\* What lets a retry be claimed and its anchor inserted.
MayClaim(t) ==
  /\ ~IsSatisfied
  /\ ~HasCompetingAttempt(t)
  /\ retry[t] = "scheduled"

\* establishDurableDispatchIntent: claim and anchor commit together.  An
\* anchor that is there already is taken up where it stands.
establishDurableDispatchIntent(w) ==
  LET t == worker[w].retry IN
  /\ At(w, "intent")
  /\ \/ /\ ~IsSatisfied /\ Exists(t)
        /\ Goto(w, "dispatch")
        /\ UNCHANGED <<retry, attempt>>
     \/ /\ ~Exists(t) /\ MayClaim(t)
        /\ retry' = [retry EXCEPT ![t] = "claimed"]
        /\ attempt' = [attempt EXCEPT ![t].status = "submitted"]
        /\ Goto(w, "dispatch")
     \/ /\ IF Exists(t) THEN IsSatisfied ELSE ~MayClaim(t)
        /\ End(w)
        /\ UNCHANGED <<retry, attempt>>
  /\ UNCHANGED <<posted, charge, event, applied, faults>>

------------------------------------------------------------------------------
\* The provider call, under the installment's lock.

\* Anchor failed, retry called off, in one transaction.
CloseAnchor(w, t) ==
  /\ attempt' = [attempt EXCEPT ![t].status = "failed"]
  /\ retry' = [retry EXCEPT ![t] = "canceled"]
  /\ End(w)
  /\ UNCHANGED <<charge, faults>>

Taken(t) == charge' = [charge EXCEPT ![t] = IF @ = "none" THEN "pending" ELSE @]

\* createPayment: one charge for a key however often it is asked for, and a
\* key that was taken on is never refused.  An answer that does not come
\* (AmbiguousProviderResponseError) leaves no trace here, and a crash after
\* the call rolls the transaction back.
CallProvider(w, t) ==
  \/ charge[t] = "none" /\ CloseAnchor(w, t)
  \/ /\ Taken(t)
     /\ attempt' = [attempt EXCEPT ![t].id = TRUE,
                                   ![t].status = IF charge'[t] = "pending"
                                                   THEN "processing" ELSE @]
     /\ Goto(w, "lookup")
     /\ UNCHANGED <<retry, faults>>
  \/ /\ Fault
     /\ Taken(t) \/ UNCHANGED charge
     /\ End(w)
     /\ UNCHANGED <<retry, attempt>>

\* What dispatchProviderCallForAnchor and resolveNotFoundOutcome do with a
\* submitted anchor.
DispatchAnchor(w, t) ==
  \/ (IsSatisfied \/ ~WithinCeiling(t)) /\ CloseAnchor(w, t)
  \/ ~IsSatisfied /\ WithinCeiling(t) /\ CallProvider(w, t)

\* markRetryFiredIfClaimed.
markRetryFiredIfClaimed(t) ==
  retry' = IF retry[t] = "claimed" THEN [retry EXCEPT ![t] = "fired"] ELSE retry

\* An anchor that somebody else resolved meanwhile is left alone.
dispatchProviderCallForAnchor(w) ==
  LET t == worker[w].retry IN
  /\ At(w, "dispatch")
  /\ \/ attempt[t].status = "submitted" /\ DispatchAnchor(w, t)
     \/ /\ attempt[t].status # "submitted"
        /\ IF attempt[t].status = "failed" THEN UNCHANGED retry
                                          ELSE markRetryFiredIfClaimed(t)
        /\ End(w)
        /\ UNCHANGED <<attempt, charge, faults>>
  /\ UNCHANGED <<posted, event, applied>>

------------------------------------------------------------------------------
\* Finding out what became of a charge.

\* resolveSubmittedAnchor: lookup by key.
resolveSubmittedAnchor(w) ==
  LET t == worker[w].retry IN
  /\ At(w, "lookup")
  /\ \/ /\ charge[t] # "none"
        /\ worker' = [worker EXCEPT ![w].pc = "persist", ![w].found = charge[t]]
     \/ charge[t] = "none" /\ End(w)
  /\ UNCHANGED <<retry, attempt, posted, charge, event, applied, faults>>

\* Mutant: the id is taken for persisted with the call.
PersistNothing(w) ==
  /\ At(w, "persist")
  /\ Goto(w, "report")
  /\ UNCHANGED <<retry, attempt, posted, charge, event, applied, faults>>

\* applyFoundOutcome, in its three statements: the id, the outcome (as an
\* event of its own for the pipeline, or processing), and the retry.
persistFoundId(w) ==
  /\ At(w, "persist")
  /\ attempt' = [attempt EXCEPT ![worker[w].retry].id = TRUE]
  /\ Goto(w, "report")
  /\ UNCHANGED <<retry, posted, charge, event, applied, faults>>

applyFoundOutcome(w) ==
  LET t == worker[w].retry
      d == worker[w].found
  IN
  /\ At(w, "report")
  /\ IF d \in {"succeeded", "failed"}
       THEN event' = [event EXCEPT ![t] = @ \cup {d}] /\ UNCHANGED attempt
       ELSE /\ attempt' = IF attempt[t].status = "submitted"
                            THEN [attempt EXCEPT ![t].status = "processing"] ELSE attempt
            /\ UNCHANGED event
  /\ Goto(w, "fire")
  /\ UNCHANGED <<retry, posted, charge, applied, faults>>

markRetryFired(w) ==
  /\ At(w, "fire")
  /\ markRetryFiredIfClaimed(worker[w].retry)
  /\ End(w)
  /\ UNCHANGED <<attempt, posted, charge, event, applied, faults>>

\* The second half of a sweep: retries that were left claimed.
findClaimedForResumption(w, t) ==
  /\ At(w, "idle") /\ retry[t] = "claimed"
  /\ worker' = [worker EXCEPT ![w] = [Idle EXCEPT !.pc = "resolve", !.retry = t]]
  /\ UNCHANGED <<retry, attempt, posted, charge, event, applied, faults>>

resolveAmbiguousRetry(w) ==
  LET t == worker[w].retry IN
  /\ At(w, "resolve")
  /\ \/ /\ retry[t] = "claimed" /\ attempt[t].status = "submitted"
        /\ Goto(w, "resolveLookup")
        /\ UNCHANGED retry
     \/ /\ retry[t] = "claimed" /\ attempt[t].status # "submitted" /\ Exists(t)
        /\ markRetryFiredIfClaimed(t)
        /\ End(w)
     \/ (retry[t] # "claimed" \/ ~Exists(t)) /\ End(w) /\ UNCHANGED retry
  /\ UNCHANGED <<attempt, posted, charge, event, applied, faults>>

retrievePaymentByIdempotencyKey(w) ==
  LET t == worker[w].retry IN
  /\ At(w, "resolveLookup")
  /\ worker' = [worker EXCEPT
       ![w].pc = IF charge[t] = "none" THEN "redispatch" ELSE "persist",
       ![w].found = charge[t]]
  /\ UNCHANGED <<retry, attempt, posted, charge, event, applied, faults>>

\* resolveNotFoundOutcome: everything is checked again under the lock, and
\* the charge is asked for again under the same key.
resolveNotFoundOutcome(w) ==
  LET t == worker[w].retry IN
  /\ At(w, "redispatch")
  /\ \/ attempt[t].status = "submitted" /\ DispatchAnchor(w, t)
     \/ /\ attempt[t].status # "submitted"
        /\ markRetryFiredIfClaimed(t)
        /\ End(w)
        /\ UNCHANGED <<attempt, charge, faults>>
  /\ UNCHANGED <<posted, event, applied>>

Crash(w) ==
  /\ ~At(w, "idle")
  /\ Fault
  /\ End(w)
  /\ UNCHANGED <<retry, attempt, posted, charge, event, applied>>

------------------------------------------------------------------------------
\* The provider, the event pipeline and the debtor.

Settle(t) ==
  /\ charge[t] = "pending"
  /\ \E d \in {"succeeded", "failed"} :
       /\ charge' = [charge EXCEPT ![t] = d]
       /\ event' = [event EXCEPT ![t] = @ \cup {d}]
  /\ UNCHANGED <<retry, attempt, posted, applied, worker, faults>>

applyTransition(t) ==
  /\ attempt[t].id
  /\ \E d \in event[t] :
       /\ event' = [event EXCEPT ![t] = @ \ {d}]
       /\ \/ /\ attempt[t].status \in AllowedSources(d)
             /\ attempt' = [attempt EXCEPT ![t].status = d]
             /\ applied' = [applied EXCEPT ![t] = @ \cup {d}]
          \/ /\ isTransitionPermanentlyIllegal(attempt[t].status, d)
             /\ UNCHANGED <<attempt, applied>>
  /\ UNCHANGED <<retry, posted, charge, worker, faults>>

\* What coordinateSuccess calls off: CANCELABLE_RETRY_STATUSES without an
\* anchor.
CancelOpenRetries ==
  retry' = [t \in Retry |->
              IF retry[t] \in {"scheduled", "claimed"} /\ ~Exists(t) THEN "canceled"
                                                                     ELSE retry[t]]

\* The ledger entry, then coordinateSuccess.
Post(a) ==
  /\ posted' = posted \cup {a}
  /\ IF Total(posted') >= Due
       THEN CancelOpenRetries ELSE UNCHANGED retry

\* The failure of a retry's own charge is not retried again.
applyEffects(t) ==
  /\ \E d \in applied[t] :
       /\ applied' = [applied EXCEPT ![t] = @ \ {d}]
       /\ IF d = "succeeded" THEN Post(t) ELSE UNCHANGED <<posted, retry>>
  /\ UNCHANGED <<attempt, charge, event, worker, faults>>

\* A manual payment: reservation, row and ledger entry in one transaction.
postManualPayment(m) ==
  /\ ~Exists(m) /\ ~HasCompetingAttempt(m) /\ WithinCeiling(m)
  /\ attempt' = [attempt EXCEPT ![m].status = "succeeded"]
  /\ Post(m)
  /\ UNCHANGED <<charge, event, applied, worker, faults>>

------------------------------------------------------------------------------
Step(w) ==
  \/ prepareRetrySubmission(w) \/ establishDurableDispatchIntent(w)
  \/ dispatchProviderCallForAnchor(w) \/ resolveSubmittedAnchor(w)
  \/ persistFoundId(w) \/ applyFoundOutcome(w) \/ markRetryFired(w)
  \/ resolveAmbiguousRetry(w) \/ retrievePaymentByIdempotencyKey(w)
  \/ resolveNotFoundOutcome(w)

Sweep(w, t) == findDueForFiring(w, t) \/ findClaimedForResumption(w, t)

Next ==
  \/ \E w \in Worker : Step(w) \/ Crash(w) \/ \E t \in Retry : Sweep(w, t)
  \/ \E t \in Retry : Settle(t) \/ applyTransition(t) \/ applyEffects(t)
  \/ \E m \in Manual : postManualPayment(m)

Spec == Init /\ [][Next]_vars

\* The sweep runs again and again and takes the oldest rows first; the
\* provider settles; the pipeline retries until an event is applied.
FairSpec ==
  /\ Spec
  /\ \A w \in Worker : WF_vars(Step(w))
  /\ \A t \in Retry : /\ SF_vars(\E w \in Worker : Sweep(w, t))
                      /\ WF_vars(Settle(t))
                      /\ WF_vars(applyTransition(t)) /\ WF_vars(applyEffects(t))

------------------------------------------------------------------------------
\* Properties.

\* The retries and the debtor together never draw more than the installment
\* is due, whatever crashes and answers are lost.
NotOvercharged ==
  Total({a \in Attempt : \/ a \in posted
                         \/ a \in Retry /\ charge[a] \in {"pending", "succeeded"}})
    <= Due

\* The rows tell what the provider did, whichever of several sweeps wrote
\* them last: a failed anchor was never taken on by the provider or failed
\* there too, a retry that was called off never charged anybody, and one that
\* is called fired did.
RowsMatchCharges ==
  \A t \in Retry :
    /\ attempt[t].status = "failed" => charge[t] \in {"none", "failed"}
    /\ retry[t] = "canceled" => charge[t] = "none"
    /\ retry[t] = "fired" => charge[t] # "none"

\* In the end every retry is fired or called off, and the money it took has
\* reached the ledger, in spite of lost answers.
EveryRetryResolves ==
  \A t \in Retry :
    /\ <>[](retry[t] \in {"fired", "canceled"})
    /\ charge[t] = "succeeded" ~> t \in posted
==============================================================================
