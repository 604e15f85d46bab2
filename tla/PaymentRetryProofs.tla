-------------------------- MODULE PaymentRetryProofs --------------------------
(***************************************************************************)
(* The rows of PaymentRetry tell what the provider did, and nobody is      *)
(* charged more than is due, for any number of retries, manual payments,   *)
(* sweeps and faults.                                                      *)
(*                                                                         *)
(* RowsMatchCharges is not inductive.  That an anchor is closed only while *)
(* nothing was charged for it depends on the other attempts: what a charge *)
(* was within when it was made, it is still within as long as its anchor   *)
(* is submitted, because nobody else can pay meanwhile (OneActive).        *)
(***************************************************************************)
EXTENDS PaymentRetry, SumProofs

------------------------------------------------------------------------------
\* The inductive invariant, part by part.

\* May still draw money that the ledger does not show.
IsActive(a) ==
  \/ attempt[a].status \in Unresolved
  \/ attempt[a].status = "succeeded" /\ a \notin posted

OneActive ==
  \A a, b \in Attempt : IsActive(a) /\ IsActive(b) => a = b

\* What is posted succeeded, and a payment by hand is posted at once.
PostedSucceeded == \A a \in posted : attempt[a].status = "succeeded"
ManualAtOnce ==
  \A m \in Manual :
    \/ attempt[m].status = "absent"
    \/ attempt[m].status = "succeeded" /\ m \in posted

\* How far a retry, its anchor and its charge are.
AnchorRange(t) ==
  attempt[t].status \in
    {"absent", "submitted", "processing", "succeeded", "failed"}

AnchorMatches(t) ==
  /\ attempt[t].status = "absent" => charge[t] = "none"
  /\ attempt[t].status = "processing" => charge[t] # "none"
  /\ attempt[t].status = "succeeded" => charge[t] = "succeeded"
  /\ attempt[t].status = "failed" =>
       \/ charge[t] = "failed"
       \/ charge[t] = "none" /\ retry[t] = "canceled"
  /\ attempt[t].status = "submitted" /\ charge[t] # "none" =>
       ~IsSatisfied /\ WithinCeiling(t)

RetryMatches(t) ==
  /\ retry[t] = "scheduled" => attempt[t].status = "absent"
  /\ retry[t] = "canceled" =>
       charge[t] = "none" /\ attempt[t].status \in {"absent", "failed"}
  /\ retry[t] = "fired" => charge[t] # "none"

\* An outcome that was reported is the charge's, one that was applied the
\* anchor's, and it is posted once.
OutcomesMatch(t) ==
  /\ \A d \in event[t] : charge[t] = d
  /\ \A d \in applied[t] :
       attempt[t].status = d /\ (d = "succeeded" => t \notin posted)

\* What a sweep has found out of its retry.
SweepKnows(w) ==
  LET t == worker[w].retry
      pc == worker[w].pc
  IN
  pc # "idle" =>
    /\ t \in Retry
    /\ pc \in {"dispatch", "resolveLookup", "redispatch"} => Exists(t)
    /\ pc \in {"persist", "report", "fire"} => charge[t] # "none"
    /\ pc \in {"persist", "report"} /\ worker[w].found \in {"succeeded", "failed"} =>
         charge[t] = worker[w].found

Anchors ==
  \A t \in Retry : /\ AnchorRange(t) /\ AnchorMatches(t)
                   /\ RetryMatches(t) /\ OutcomesMatch(t)

RetryInv ==
  /\ TypeOK /\ OneActive /\ PostedSucceeded /\ ManualAtOnce /\ Anchors
  /\ \A w \in Worker : SweepKnows(w)


------------------------------------------------------------------------------
\* What a step that leaves the books alone and touches one retry has to show.

\* Nothing is written about s.
Same(s) ==
  /\ attempt'[s] = attempt[s] /\ charge'[s] = charge[s] /\ retry'[s] = retry[s]
  /\ event'[s] = event[s] /\ applied'[s] = applied[s]

\* An anchor stays, a charge is not taken back, and an outcome is final.
Keeps(t) ==
  /\ Exists(t) => Exists(t)'
  /\ charge[t] # "none" => charge'[t] # "none"
  /\ charge[t] \in {"succeeded", "failed"} => charge'[t] = charge[t]

RowFacts(t) ==
  AnchorRange(t) /\ AnchorMatches(t) /\ RetryMatches(t) /\ OutcomesMatch(t)

\* Without a new entry in the ledger nothing changes in what it covers.
LEMMA BooksStay ==
  ASSUME posted' = posted
  PROVE  /\ IsSatisfied' <=> IsSatisfied
         /\ \A a \in Attempt : WithinCeiling(a)' <=> WithinCeiling(a)
<1>1. Credited' = Credited BY DEF Credited
<1> QED BY <1>1 DEF IsSatisfied, WithinCeiling

\* What holds of a retry nobody writes about goes on holding.
LEMMA SameFacts ==
  ASSUME NEW s \in Retry, RowFacts(s), Same(s), posted' = posted
  PROVE  RowFacts(s)'
<1>1. s \in Attempt BY DEF Attempt
<1>2. /\ IsSatisfied' <=> IsSatisfied
      /\ WithinCeiling(s)' <=> WithinCeiling(s)
  BY <1>1, BooksStay
<1>3. AnchorRange(s)' BY DEF RowFacts, AnchorRange, Same
<1>4. AnchorMatches(s)' BY <1>2 DEF RowFacts, AnchorMatches, Same
<1>5. RetryMatches(s)' BY DEF RowFacts, RetryMatches, Same
<1>6. OutcomesMatch(s)' BY DEF RowFacts, OutcomesMatch, Same
<1> QED BY <1>3, <1>4, <1>5, <1>6 DEF RowFacts

\* A sweep that does not move still knows what it knew.
LEMMA SweepStays ==
  ASSUME NEW v \in Worker, SweepKnows(v), worker'[v] = worker[v],
         \A t \in Retry : Keeps(t)
  PROVE  SweepKnows(v)'
BY DEF SweepKnows, Keeps, Exists

\* Nobody competes with an attempt exactly when no other one is active.
LEMMA CompetingIsActive ==
  ASSUME NEW a \in Attempt
  PROVE  HasCompetingAttempt(a) <=> \E b \in Attempt \ {a} : IsActive(b)
BY DEF HasCompetingAttempt, IsActive

\* The invariant after a step that writes about one retry only and posts
\* nothing.
LEMMA OneRetryTouched ==
  ASSUME RetryInv, TypeOK', NEW t \in Retry,
         posted' = posted,
         \A s \in Retry \ {t} : Same(s),
         \A m \in Manual : attempt'[m] = attempt[m],
         RowFacts(t)', Keeps(t),
         t \in posted => attempt'[t].status = "succeeded",
         IsActive(t)' => IsActive(t) \/ ~HasCompetingAttempt(t),
         \A v \in Worker : worker'[v] = worker[v] \/ SweepKnows(v)'
  PROVE  RetryInv'
<1>1. OneActive'
  <2>1. t \in Attempt BY DEF Attempt
  <2>2. \A a \in Attempt \ {t} : attempt'[a] = attempt[a]
    BY DEF Same, Attempt
  <2>3. \A a \in Attempt \ {t} : IsActive(a)' <=> IsActive(a)
    BY <2>2 DEF IsActive
  <2>4. IsActive(t)' => \A b \in Attempt \ {t} : ~IsActive(b)
    BY <2>1, CompetingIsActive DEF RetryInv, OneActive
  <2> QED BY <2>1, <2>3, <2>4 DEF OneActive, RetryInv
<1>2. PostedSucceeded'
  <2>1. \A a \in posted : a # t => attempt'[a] = attempt[a]
    BY DEF Same, RetryInv, TypeOK, Attempt
  <2> QED BY <2>1 DEF PostedSucceeded, RetryInv
<1>3. ManualAtOnce' BY DEF ManualAtOnce, RetryInv
<1>4. \A s \in Retry : RowFacts(s)'
  <2>1. \A s \in Retry : RowFacts(s) BY DEF RetryInv, Anchors, RowFacts
  <2> QED BY <2>1, SameFacts
<1>5. Anchors' BY <1>4 DEF Anchors, RowFacts
<1>6. \A v \in Worker : SweepKnows(v)'
  <2>1. \A s \in Retry : Keeps(s) BY DEF Same, Keeps, Exists
  <2> QED BY <2>1, SweepStays DEF RetryInv
<1> QED BY <1>1, <1>2, <1>3, <1>5, <1>6 DEF RetryInv

\* The same after a step that writes about nothing: the sweep only moves.
LEMMA OnlyMoves ==
  ASSUME RetryInv, TypeOK', NEW w \in Worker, NEW t \in Retry,
         UNCHANGED <<retry, attempt, posted, charge, event, applied>>,
         \A v \in Worker \ {w} : worker'[v] = worker[v],
         SweepKnows(w)'
  PROVE  RetryInv'
<1>1. \A s \in Retry : Same(s) BY DEF Same
<1>2. RowFacts(t)'
  <2>1. RowFacts(t) BY DEF RetryInv, Anchors, RowFacts
  <2> QED BY <1>1, <2>1, SameFacts
<1>3. Keeps(t) BY DEF Keeps, Exists
<1>4. t \in posted => attempt'[t].status = "succeeded"
  BY DEF RetryInv, PostedSucceeded
<1>5. IsActive(t)' => IsActive(t) BY DEF IsActive
<1> QED BY <1>1, <1>2, <1>3, <1>4, <1>5, OneRetryTouched

------------------------------------------------------------------------------
\* The sweep, action by action.

\* Where a sweep may go keeps its record well formed.
LEMMA WorkerTypes ==
  ASSUME TypeOK, NEW w \in Worker
  PROVE  /\ \A where \in PC :
              /\ [worker EXCEPT ![w].pc = where] \in
                   [Worker -> [pc : PC, retry : Retry \cup {"none"}, found : Found]]
              /\ [worker EXCEPT ![w].pc = where][w] =
                   [pc |-> where, retry |-> worker[w].retry, found |-> worker[w].found]
         /\ [worker EXCEPT ![w] = Idle] \in
              [Worker -> [pc : PC, retry : Retry \cup {"none"}, found : Found]]
<1>1. worker[w] \in [pc : PC, retry : Retry \cup {"none"}, found : Found]
  BY DEF TypeOK
<1>2. Idle \in [pc : PC, retry : Retry \cup {"none"}, found : Found]
  BY DEF Idle, PC, Found
<1>3. [worker EXCEPT ![w] = Idle] \in
        [Worker -> [pc : PC, retry : Retry \cup {"none"}, found : Found]]
  BY <1>2 DEF TypeOK
<1>4. ASSUME NEW where \in PC
      PROVE  /\ [worker EXCEPT ![w].pc = where] \in
                  [Worker -> [pc : PC, retry : Retry \cup {"none"}, found : Found]]
             /\ [worker EXCEPT ![w].pc = where][w] =
                  [pc |-> where, retry |-> worker[w].retry, found |-> worker[w].found]
  <2>1. [worker EXCEPT ![w].pc = where] =
          [worker EXCEPT ![w] =
             [pc |-> where, retry |-> worker[w].retry, found |-> worker[w].found]]
    <3>1. [worker[w] EXCEPT !.pc = where] =
            [pc |-> where, retry |-> worker[w].retry, found |-> worker[w].found]
      BY <1>1
    <3> QED BY <3>1
  <2>2. [pc |-> where, retry |-> worker[w].retry, found |-> worker[w].found] \in
          [pc : PC, retry : Retry \cup {"none"}, found : Found]
    BY <1>1
  <2> QED BY <2>1, <2>2 DEF TypeOK
<1> QED BY <1>3, <1>4

\* A sweep that ends knows nothing and owes nothing.
LEMMA EndKnows ==
  ASSUME TypeOK, NEW w \in Worker, End(w)
  PROVE  /\ worker' \in
              [Worker -> [pc : PC, retry : Retry \cup {"none"}, found : Found]]
         /\ \A v \in Worker \ {w} : worker'[v] = worker[v]
         /\ SweepKnows(w)'
<1>1. worker' \in
        [Worker -> [pc : PC, retry : Retry \cup {"none"}, found : Found]]
  BY WorkerTypes DEF End
<1>2. worker'[w].pc = "idle" BY DEF End, Idle, TypeOK
<1> QED BY <1>1, <1>2 DEF End, SweepKnows, TypeOK

\* A sweep that goes on goes on at the same retry.
LEMMA GotoKeeps ==
  ASSUME TypeOK, NEW w \in Worker, NEW where \in PC, Goto(w, where)
  PROVE  /\ worker' \in
              [Worker -> [pc : PC, retry : Retry \cup {"none"}, found : Found]]
         /\ \A v \in Worker \ {w} : worker'[v] = worker[v]
         /\ worker'[w].pc = where
         /\ worker'[w].retry = worker[w].retry
         /\ worker'[w].found = worker[w].found
<1>1. worker'[w] =
        [pc |-> where, retry |-> worker[w].retry, found |-> worker[w].found]
  BY WorkerTypes DEF Goto
<1>2. worker' \in
        [Worker -> [pc : PC, retry : Retry \cup {"none"}, found : Found]]
  BY WorkerTypes DEF Goto
<1> QED BY <1>1, <1>2 DEF Goto, TypeOK

\* Picking up a retry, due or left claimed.
LEMMA SweepStep ==
  ASSUME RetryInv, NEW w \in Worker, NEW t \in Retry, Sweep(w, t)
  PROVE  RetryInv'
<1>0. TypeOK BY DEF RetryInv
<1>1. UNCHANGED <<retry, attempt, posted, charge, event, applied, faults>>
  BY DEF Sweep, findDueForFiring, findClaimedForResumption
<1>2. PICK where \in {"prepare", "resolve"} :
        worker' = [worker EXCEPT ![w] = [pc |-> where, retry |-> t, found |-> "none"]]
  BY DEF Sweep, findDueForFiring, findClaimedForResumption, Idle
<1>3. TypeOK'
  <2>1. [pc |-> where, retry |-> t, found |-> "none"] \in
          [pc : PC, retry : Retry \cup {"none"}, found : Found]
    BY DEF PC, Found
  <2> QED BY <1>0, <1>1, <1>2, <2>1 DEF TypeOK
<1>4. worker'[w] = [pc |-> where, retry |-> t, found |-> "none"]
  BY <1>0, <1>2 DEF TypeOK
<1>5. SweepKnows(w)' BY <1>4 DEF SweepKnows
<1>6. \A v \in Worker \ {w} : worker'[v] = worker[v] BY <1>0, <1>2 DEF TypeOK
<1> QED BY <1>1, <1>3, <1>5, <1>6, OnlyMoves

\* A sweep that dies.
LEMMA CrashStep ==
  ASSUME RetryInv, NEW w \in Worker, Crash(w)
  PROVE  RetryInv'
<1>0. TypeOK BY DEF RetryInv
<1>1. UNCHANGED <<retry, attempt, posted, charge, event, applied>> /\ End(w)
  BY DEF Crash
<1>2. worker[w].retry \in Retry BY DEF Crash, At, RetryInv, SweepKnows
<1>3. PICK t \in Retry : TRUE BY <1>2
<1>4. faults' \in 0..MaxFaults
  BY <1>0, RetryAssumption DEF Crash, Fault, TypeOK
<1>5. TypeOK' BY <1>0, <1>1, <1>4, EndKnows DEF TypeOK
<1> QED BY <1>0, <1>1, <1>3, <1>5, EndKnows, OnlyMoves

\* The record of a payment attempt.
AttemptRow == [status : PaymentAttemptStatus \cup {"absent"}, id : BOOLEAN]

\* Writing an anchor's status, or its provider id, touches that row alone.
LEMMA StatusWritten ==
  ASSUME TypeOK, NEW t \in Attempt, NEW st \in PaymentAttemptStatus \cup {"absent"},
         attempt' = [attempt EXCEPT ![t].status = st]
  PROVE  /\ attempt' \in [Attempt -> AttemptRow]
         /\ attempt'[t].status = st /\ attempt'[t].id = attempt[t].id
         /\ \A a \in Attempt \ {t} : attempt'[a] = attempt[a]
<1>1. attempt[t] \in AttemptRow BY DEF TypeOK, AttemptRow
<1>2. [attempt[t] EXCEPT !.status = st] = [status |-> st, id |-> attempt[t].id]
  BY <1>1 DEF AttemptRow
<1>3. [status |-> st, id |-> attempt[t].id] \in AttemptRow
  BY <1>1 DEF AttemptRow
<1>4. attempt' = [attempt EXCEPT ![t] = [status |-> st, id |-> attempt[t].id]]
  BY <1>2
<1>5. attempt' \in [Attempt -> AttemptRow]
  BY <1>3, <1>4 DEF TypeOK, AttemptRow
<1>6. attempt'[t] = [status |-> st, id |-> attempt[t].id]
  BY <1>4 DEF TypeOK
<1> QED BY <1>4, <1>5, <1>6 DEF TypeOK

\* The same for the provider id.
LEMMA IdWritten ==
  ASSUME TypeOK, NEW t \in Attempt, NEW yes \in BOOLEAN,
         attempt' = [attempt EXCEPT ![t].id = yes]
  PROVE  /\ attempt' \in [Attempt -> AttemptRow]
         /\ attempt'[t].status = attempt[t].status
         /\ \A a \in Attempt \ {t} : attempt'[a] = attempt[a]
<1>1. attempt[t] \in AttemptRow BY DEF TypeOK, AttemptRow
<1>2. [attempt[t] EXCEPT !.id = yes] = [status |-> attempt[t].status, id |-> yes]
  BY <1>1 DEF AttemptRow
<1>3. [status |-> attempt[t].status, id |-> yes] \in AttemptRow
  BY <1>1 DEF AttemptRow
<1>4. attempt' = [attempt EXCEPT ![t] = [status |-> attempt[t].status, id |-> yes]]
  BY <1>2
<1>5. attempt' \in [Attempt -> AttemptRow]
  BY <1>3, <1>4 DEF TypeOK, AttemptRow
<1>6. attempt'[t] = [status |-> attempt[t].status, id |-> yes]
  BY <1>4 DEF TypeOK
<1> QED BY <1>4, <1>5, <1>6 DEF TypeOK

\* The same for both at once.
LEMMA BothWritten ==
  ASSUME TypeOK, NEW t \in Attempt, NEW yes \in BOOLEAN,
         NEW st \in PaymentAttemptStatus \cup {"absent"},
         attempt' = [attempt EXCEPT ![t].id = yes, ![t].status = st]
  PROVE  /\ attempt' \in [Attempt -> AttemptRow]
         /\ attempt'[t].status = st
         /\ \A a \in Attempt \ {t} : attempt'[a] = attempt[a]
<1>1. attempt[t] \in AttemptRow BY DEF TypeOK, AttemptRow
<1>3. [status |-> st, id |-> yes] \in AttemptRow
  BY <1>1 DEF AttemptRow
<1>4. attempt' = [attempt EXCEPT ![t] = [status |-> st, id |-> yes]]
  <2>1. [attempt EXCEPT ![t].id = yes] =
          [attempt EXCEPT ![t] = [status |-> attempt[t].status, id |-> yes]]
    <3>1. [attempt[t] EXCEPT !.id = yes] = [status |-> attempt[t].status, id |-> yes]
      BY <1>1 DEF AttemptRow
    <3> QED BY <3>1
  <2> DEFINE mid == [attempt EXCEPT ![t] = [status |-> attempt[t].status, id |-> yes]]
  <2>2. attempt' = [mid EXCEPT ![t].status = st] BY <2>1
  <2>3. mid[t] = [status |-> attempt[t].status, id |-> yes] BY DEF TypeOK
  <2>4. [mid[t] EXCEPT !.status = st] = [status |-> st, id |-> yes]
    BY <2>3
  <2>5. attempt' = [mid EXCEPT ![t] = [status |-> st, id |-> yes]]
    BY <2>2, <2>4
  <2> QED BY <2>5 DEF TypeOK
<1>5. attempt' \in [Attempt -> AttemptRow]
  BY <1>3, <1>4 DEF TypeOK, AttemptRow
<1>6. attempt'[t] = [status |-> st, id |-> yes]
  BY <1>4 DEF TypeOK
<1> QED BY <1>4, <1>5, <1>6 DEF TypeOK


\* A step that writes the status of one retry.
LEMMA RetryWritten ==
  ASSUME RetryInv, TypeOK', NEW w \in Worker, NEW t \in Retry,
         UNCHANGED <<attempt, posted, charge, event, applied>>,
         \A s \in Retry \ {t} : retry'[s] = retry[s],
         RetryMatches(t)',
         attempt[t].status = "failed" /\ charge[t] = "none" => retry'[t] = "canceled",
         \A v \in Worker \ {w} : worker'[v] = worker[v],
         SweepKnows(w)'
  PROVE  RetryInv'
<1>1. \A s \in Retry \ {t} : Same(s) BY DEF Same
<1>2. RowFacts(t) BY DEF RetryInv, Anchors, RowFacts
<1>3. t \in Attempt BY DEF Attempt
<1>4. /\ IsSatisfied' <=> IsSatisfied
      /\ WithinCeiling(t)' <=> WithinCeiling(t)
  BY <1>3, BooksStay
<1>5. AnchorRange(t)' BY <1>2 DEF RowFacts, AnchorRange
<1>6. AnchorMatches(t)' BY <1>2, <1>4 DEF RowFacts, AnchorMatches
<1>7. OutcomesMatch(t)' BY <1>2 DEF RowFacts, OutcomesMatch
<1>8. RowFacts(t)' BY <1>5, <1>6, <1>7 DEF RowFacts
<1>9. Keeps(t) BY DEF Keeps, Exists
<1>10. t \in posted => attempt'[t].status = "succeeded"
  BY DEF RetryInv, PostedSucceeded
<1>11. IsActive(t)' => IsActive(t) BY DEF IsActive
<1> QED BY <1>1, <1>8, <1>9, <1>10, <1>11, OneRetryTouched

\* A retry is called fired only when there is a charge.
LEMMA FiredIfClaimed ==
  ASSUME RetryInv, NEW w \in Worker, NEW t \in Retry,
         UNCHANGED <<attempt, posted, charge, event, applied, faults>>,
         markRetryFiredIfClaimed(t), End(w),
         retry[t] = "claimed" => charge[t] # "none"
  PROVE  RetryInv'
<1>0. TypeOK BY DEF RetryInv
<1>1. RowFacts(t) BY DEF RetryInv, Anchors, RowFacts
<1>2. /\ retry' \in [Retry -> {"scheduled", "claimed", "fired", "canceled"}]
      /\ \A s \in Retry \ {t} : retry'[s] = retry[s]
      /\ retry'[t] = IF retry[t] = "claimed" THEN "fired" ELSE retry[t]
  BY <1>0 DEF markRetryFiredIfClaimed, TypeOK
<1>3. TypeOK' BY <1>0, <1>2, EndKnows DEF TypeOK
<1>4. RetryMatches(t)' BY <1>1, <1>2 DEF RowFacts, RetryMatches
<1>5. attempt[t].status = "failed" /\ charge[t] = "none" => retry'[t] = "canceled"
  BY <1>1, <1>2 DEF RowFacts, AnchorMatches
<1> QED BY <1>0, <1>2, <1>3, <1>4, <1>5, EndKnows, RetryWritten

\* A claimed retry whose anchor is not waiting any more has a charge.
LEMMA ClaimedIsCharged ==
  ASSUME RetryInv, NEW t \in Retry, retry[t] = "claimed", Exists(t),
         attempt[t].status # "submitted"
  PROVE  charge[t] # "none"
BY DEF RetryInv, Anchors, AnchorRange, AnchorMatches, Exists

\* Preparing: on to the intent, or called off while still scheduled.
LEMMA PrepareStep ==
  ASSUME RetryInv, NEW w \in Worker, prepareRetrySubmission(w)
  PROVE  RetryInv'
<1>0. TypeOK BY DEF RetryInv
<1>1. UNCHANGED <<attempt, posted, charge, event, applied, faults>>
  BY DEF prepareRetrySubmission
<1>2. PICK t \in Retry : t = worker[w].retry
  BY DEF prepareRetrySubmission, At, RetryInv, SweepKnows
<1>3. RowFacts(t) BY DEF RetryInv, Anchors, RowFacts
<1>4. CASE Goto(w, "intent") /\ UNCHANGED retry
  <2>1. "intent" \in PC BY DEF PC
  <2>2. TypeOK' BY <1>0, <1>1, <1>4, <2>1, GotoKeeps DEF TypeOK
  <2>3. worker'[w].pc = "intent" /\ worker'[w].retry = t
    BY <1>0, <1>2, <1>4, <2>1, GotoKeeps
  <2>4. SweepKnows(w)' BY <2>3 DEF SweepKnows
  <2>5. \A v \in Worker \ {w} : worker'[v] = worker[v]
    BY <1>0, <1>4, <2>1, GotoKeeps
  <2> QED BY <1>1, <1>4, <2>2, <2>4, <2>5, OnlyMoves
<1>5. CASE markCanceled(t) /\ End(w)
  <2>1. /\ retry' \in [Retry -> {"scheduled", "claimed", "fired", "canceled"}]
        /\ \A s \in Retry \ {t} : retry'[s] = retry[s]
        /\ retry'[t] = IF retry[t] = "scheduled" THEN "canceled" ELSE retry[t]
    BY <1>0, <1>5 DEF markCanceled, TypeOK
  <2>2. TypeOK' BY <1>0, <1>1, <1>5, <2>1, EndKnows DEF TypeOK
  <2>3. RetryMatches(t)'
    BY <1>1, <1>3, <2>1 DEF RowFacts, RetryMatches, AnchorMatches
  <2>4. attempt[t].status = "failed" /\ charge[t] = "none" => retry'[t] = "canceled"
    BY <1>3, <2>1 DEF RowFacts, AnchorMatches
  <2> QED BY <1>0, <1>1, <1>5, <2>1, <2>2, <2>3, <2>4, EndKnows, RetryWritten
<1> QED BY <1>2, <1>4, <1>5 DEF prepareRetrySubmission

\* Looking up a charge by its key.
LEMMA LookupStep ==
  ASSUME RetryInv, NEW w \in Worker,
         \/ resolveSubmittedAnchor(w)
         \/ retrievePaymentByIdempotencyKey(w)
  PROVE  RetryInv'
<1>0. TypeOK BY DEF RetryInv
<1>1. UNCHANGED <<retry, attempt, posted, charge, event, applied, faults>>
  BY DEF resolveSubmittedAnchor, retrievePaymentByIdempotencyKey
<1>2. PICK t \in Retry : t = worker[w].retry
  BY DEF resolveSubmittedAnchor, retrievePaymentByIdempotencyKey, At, RetryInv, SweepKnows
<1>3. CASE End(w)
  <2>1. TypeOK' BY <1>0, <1>1, <1>3, EndKnows DEF TypeOK
  <2> QED BY <1>0, <1>1, <1>3, <2>1, EndKnows, OnlyMoves
<1>4. ASSUME NEW where \in {"persist", "redispatch"},
             worker' = [worker EXCEPT ![w].pc = where, ![w].found = charge[t]],
             where = "persist" => charge[t] # "none",
             where = "redispatch" => Exists(t)
      PROVE  RetryInv'
  <2> DEFINE row == [pc |-> where, retry |-> t, found |-> charge[t]]
  <2>1. worker' = [worker EXCEPT ![w] = row]
    <3>1. worker[w] \in [pc : PC, retry : Retry \cup {"none"}, found : Found]
      BY <1>0 DEF TypeOK
    <3>2. [[worker[w] EXCEPT !.pc = where] EXCEPT !.found = charge[t]] = row
      <4>1. [worker[w] EXCEPT !.pc = where] =
              [pc |-> where, retry |-> t, found |-> worker[w].found]
        BY <1>2, <3>1
      <4>2. [[pc |-> where, retry |-> t, found |-> worker[w].found]
               EXCEPT !.found = charge[t]] = row
        OBVIOUS
      <4> QED BY <4>1, <4>2
    <3>3. worker' = [worker EXCEPT ![w] =
                      [[worker[w] EXCEPT !.pc = where] EXCEPT !.found = charge[t]]]
      BY <1>0, <1>4 DEF TypeOK
    <3> QED BY <3>2, <3>3
  <2>2. row \in [pc : PC, retry : Retry \cup {"none"}, found : Found]
    BY <1>0 DEF PC, TypeOK
  <2>3. worker'[w] = row BY <1>0, <2>1 DEF TypeOK
  <2>4. TypeOK'
    <3>1. worker' \in
            [Worker -> [pc : PC, retry : Retry \cup {"none"}, found : Found]]
      <4> HIDE DEF row
      <4> QED BY <1>0, <2>1, <2>2 DEF TypeOK
    <3> QED BY <1>0, <1>1, <3>1 DEF TypeOK
  <2>5. SweepKnows(w)'
    <3>1. /\ worker'[w].pc = where /\ worker'[w].retry = t
          /\ worker'[w].found = charge[t]
      BY <2>3
    <3> HIDE DEF row
    <3> QED BY <1>1, <1>4, <3>1 DEF SweepKnows, Exists
  <2>6. \A v \in Worker \ {w} : worker'[v] = worker[v]
    <3> HIDE DEF row
    <3> QED BY <1>0, <2>1 DEF TypeOK
  <2> QED BY <1>1, <2>4, <2>5, <2>6, OnlyMoves
<1>5. CASE resolveSubmittedAnchor(w)
  BY <1>2, <1>3, <1>4, <1>5 DEF resolveSubmittedAnchor
<1>6. CASE retrievePaymentByIdempotencyKey(w)
  <2>1. Exists(t)
    BY <1>2, <1>6 DEF retrievePaymentByIdempotencyKey, At, RetryInv, SweepKnows
  <2>2. CASE charge[t] = "none"
    BY <1>2, <1>4, <1>6, <2>1, <2>2 DEF retrievePaymentByIdempotencyKey
  <2>3. CASE charge[t] # "none"
    BY <1>2, <1>4, <1>6, <2>3 DEF retrievePaymentByIdempotencyKey
  <2> QED BY <2>2, <2>3
<1> QED BY <1>5, <1>6

\* Recording the id of the charge that was found.
LEMMA PersistStep ==
  ASSUME RetryInv, NEW w \in Worker, persistFoundId(w)
  PROVE  RetryInv'
<1>0. TypeOK BY DEF RetryInv
<1>1. UNCHANGED <<retry, posted, charge, event, applied, faults>>
  BY DEF persistFoundId
<1>2. PICK t \in Retry : t = worker[w].retry
  BY DEF persistFoundId, At, RetryInv, SweepKnows
<1>3. RowFacts(t) /\ t \in Attempt BY DEF RetryInv, Anchors, RowFacts, Attempt
<1>4. PICK yes \in BOOLEAN : attempt' = [attempt EXCEPT ![t].id = yes]
  BY <1>2, Zenon DEF persistFoundId
<1>5. /\ attempt' \in [Attempt -> AttemptRow]
      /\ attempt'[t].status = attempt[t].status
      /\ \A a \in Attempt \ {t} : attempt'[a] = attempt[a]
  BY <1>0, <1>3, <1>4, IdWritten
<1>6. "report" \in PC BY DEF PC
<1>7. Goto(w, "report") BY DEF persistFoundId
<1>8. TypeOK' BY <1>0, <1>1, <1>5, <1>6, <1>7, GotoKeeps DEF TypeOK, AttemptRow
<1>9. \A s \in Retry \ {t} : Same(s) BY <1>1, <1>5 DEF Same, Attempt
<1>10. \A m \in Manual : attempt'[m] = attempt[m]
  BY <1>5, RetryAssumption DEF Attempt
<1>11. /\ IsSatisfied' <=> IsSatisfied
       /\ WithinCeiling(t)' <=> WithinCeiling(t)
  BY <1>1, <1>3, BooksStay
<1>12. RowFacts(t)'
  <2>1. AnchorRange(t)' BY <1>3, <1>5 DEF RowFacts, AnchorRange
  <2>2. AnchorMatches(t)' BY <1>1, <1>3, <1>5, <1>11 DEF RowFacts, AnchorMatches
  <2>3. RetryMatches(t)' BY <1>1, <1>3, <1>5 DEF RowFacts, RetryMatches
  <2>4. OutcomesMatch(t)' BY <1>1, <1>3, <1>5 DEF RowFacts, OutcomesMatch
  <2> QED BY <2>1, <2>2, <2>3, <2>4 DEF RowFacts
<1>13. Keeps(t) BY <1>1, <1>5 DEF Keeps, Exists
<1>14. t \in posted => attempt'[t].status = "succeeded"
  BY <1>5 DEF RetryInv, PostedSucceeded
<1>15. IsActive(t)' => IsActive(t) BY <1>1, <1>5 DEF IsActive
<1>16. SweepKnows(w)'
  <2>1. /\ worker'[w].pc = "report" /\ worker'[w].retry = t
        /\ worker'[w].found = worker[w].found
    BY <1>0, <1>2, <1>6, <1>7, GotoKeeps
  <2>2. /\ charge[t] # "none"
        /\ worker[w].found \in {"succeeded", "failed"} => charge[t] = worker[w].found
    BY <1>2 DEF persistFoundId, At, RetryInv, SweepKnows
  <2> QED BY <1>1, <2>1, <2>2 DEF SweepKnows
<1>17. \A v \in Worker \ {w} : worker'[v] = worker[v]
  BY <1>0, <1>6, <1>7, GotoKeeps
<1> QED BY <1>1, <1>8, <1>9, <1>10, <1>12, <1>13, <1>14, <1>15, <1>16, <1>17,
           OneRetryTouched

\* Reporting what was found: an outcome for the pipeline, or processing.
LEMMA ReportStep ==
  ASSUME RetryInv, NEW w \in Worker, applyFoundOutcome(w)
  PROVE  RetryInv'
<1>0. TypeOK BY DEF RetryInv
<1>1. UNCHANGED <<retry, posted, charge, applied, faults>>
  BY DEF applyFoundOutcome
<1>2. PICK t \in Retry : t = worker[w].retry
  BY DEF applyFoundOutcome, At, RetryInv, SweepKnows
<1>3. RowFacts(t) /\ t \in Attempt BY DEF RetryInv, Anchors, RowFacts, Attempt
<1>4. /\ charge[t] # "none"
      /\ worker[w].found \in {"succeeded", "failed"} => charge[t] = worker[w].found
  BY <1>2 DEF applyFoundOutcome, At, RetryInv, SweepKnows
<1>5. "fire" \in PC BY DEF PC
<1>6. Goto(w, "fire") BY DEF applyFoundOutcome
<1>7. /\ IsSatisfied' <=> IsSatisfied
      /\ WithinCeiling(t)' <=> WithinCeiling(t)
  BY <1>1, <1>3, BooksStay
<1>8. SweepKnows(w)'
  <2>1. worker'[w].pc = "fire" /\ worker'[w].retry = t
    BY <1>0, <1>2, <1>5, <1>6, GotoKeeps
  <2> QED BY <1>1, <1>4, <2>1 DEF SweepKnows
<1>9. \A v \in Worker \ {w} : worker'[v] = worker[v]
  BY <1>0, <1>5, <1>6, GotoKeeps
<1>10. CASE worker[w].found \in {"succeeded", "failed"}
  <2>1. UNCHANGED attempt /\ event' = [event EXCEPT ![t] = @ \cup {charge[t]}]
    BY <1>2, <1>4, <1>10 DEF applyFoundOutcome
  <2>2. charge[t] \in {"succeeded", "failed"} BY <1>4, <1>10
  <2>3. /\ event' \in [Retry -> SUBSET {"succeeded", "failed"}]
        /\ \A s \in Retry \ {t} : event'[s] = event[s]
        /\ event'[t] = event[t] \cup {charge[t]}
    BY <1>0, <2>1, <2>2 DEF TypeOK
  <2>4. TypeOK' BY <1>0, <1>1, <1>5, <1>6, <2>1, <2>3, GotoKeeps DEF TypeOK
  <2>5. \A s \in Retry \ {t} : Same(s) BY <1>1, <2>1, <2>3 DEF Same
  <2>6. RowFacts(t)'
    <3>1. AnchorRange(t)' BY <1>3, <2>1 DEF RowFacts, AnchorRange
    <3>2. AnchorMatches(t)' BY <1>1, <1>3, <1>7, <2>1 DEF RowFacts, AnchorMatches
    <3>3. RetryMatches(t)' BY <1>1, <1>3, <2>1 DEF RowFacts, RetryMatches
    <3>4. OutcomesMatch(t)' BY <1>1, <1>3, <2>1, <2>3 DEF RowFacts, OutcomesMatch
    <3> QED BY <3>1, <3>2, <3>3, <3>4 DEF RowFacts
  <2>7. Keeps(t) BY <1>1, <2>1 DEF Keeps, Exists
  <2>8. t \in posted => attempt'[t].status = "succeeded"
    BY <2>1 DEF RetryInv, PostedSucceeded
  <2>9. IsActive(t)' => IsActive(t) BY <1>1, <2>1 DEF IsActive
  <2> QED BY <1>1, <1>8, <1>9, <2>1, <2>4, <2>5, <2>6, <2>7, <2>8, <2>9,
             OneRetryTouched
<1>11. CASE /\ worker[w].found \notin {"succeeded", "failed"}
            /\ attempt[t].status # "submitted"
  <2>1. UNCHANGED <<attempt, event>> BY <1>2, <1>11 DEF applyFoundOutcome
  <2>2. TypeOK' BY <1>0, <1>1, <1>5, <1>6, <2>1, GotoKeeps DEF TypeOK
  <2> QED BY <1>1, <1>8, <1>9, <2>1, <2>2, OnlyMoves
<1>12. CASE /\ worker[w].found \notin {"succeeded", "failed"}
            /\ attempt[t].status = "submitted"
  <2>1. UNCHANGED event /\ attempt' = [attempt EXCEPT ![t].status = "processing"]
    BY <1>2, <1>12 DEF applyFoundOutcome
  <2>2. /\ attempt' \in [Attempt -> AttemptRow]
        /\ attempt'[t].status = "processing"
        /\ \A a \in Attempt \ {t} : attempt'[a] = attempt[a]
    BY <1>0, <1>3, <2>1, StatusWritten DEF PaymentAttemptStatus
  <2>3. TypeOK' BY <1>0, <1>1, <1>5, <1>6, <2>1, <2>2, GotoKeeps DEF TypeOK, AttemptRow
  <2>4. \A s \in Retry \ {t} : Same(s) BY <1>1, <2>1, <2>2 DEF Same, Attempt
  <2>5. \A m \in Manual : attempt'[m] = attempt[m]
    BY <2>2, RetryAssumption DEF Attempt
  <2>6. RowFacts(t)'
    <3>1. AnchorRange(t)' BY <2>2 DEF AnchorRange
    <3>2. AnchorMatches(t)' BY <1>1, <1>4, <2>2 DEF AnchorMatches
    <3>3. RetryMatches(t)' BY <1>1, <1>3, <1>12, <2>2 DEF RowFacts, RetryMatches
    <3>4. OutcomesMatch(t)'
      <4>1. \A d \in applied[t] : FALSE
        BY <1>0, <1>3, <1>12 DEF RowFacts, OutcomesMatch, TypeOK
      <4> QED BY <1>1, <1>3, <2>1, <4>1 DEF RowFacts, OutcomesMatch
    <3> QED BY <3>1, <3>2, <3>3, <3>4 DEF RowFacts
  <2>7. Keeps(t) BY <1>1, <1>12, <2>2 DEF Keeps, Exists
  <2>8. t \in posted => attempt'[t].status = "succeeded"
    BY <1>12 DEF RetryInv, PostedSucceeded
  <2>9. IsActive(t) BY <1>12 DEF IsActive, Unresolved
  <2> QED BY <1>1, <1>8, <1>9, <2>3, <2>4, <2>5, <2>6, <2>7, <2>8, <2>9,
             OneRetryTouched
<1> QED BY <1>10, <1>11, <1>12

\* Calling the retry fired, after its charge was found.
LEMMA FireStep ==
  ASSUME RetryInv, NEW w \in Worker, markRetryFired(w)
  PROVE  RetryInv'
<1>1. PICK t \in Retry : t = worker[w].retry
  BY DEF markRetryFired, At, RetryInv, SweepKnows
<1>2. charge[t] # "none" BY <1>1 DEF markRetryFired, At, RetryInv, SweepKnows
<1> QED BY <1>1, <1>2, FiredIfClaimed DEF markRetryFired

\* Taking up a retry that was left claimed.
LEMMA ResolveStep ==
  ASSUME RetryInv, NEW w \in Worker, resolveAmbiguousRetry(w)
  PROVE  RetryInv'
<1>0. TypeOK BY DEF RetryInv
<1>1. UNCHANGED <<attempt, posted, charge, event, applied, faults>>
  BY DEF resolveAmbiguousRetry
<1>2. PICK t \in Retry : t = worker[w].retry
  BY DEF resolveAmbiguousRetry, At, RetryInv, SweepKnows
<1>3. CASE /\ attempt[t].status = "submitted"
           /\ Goto(w, "resolveLookup") /\ UNCHANGED retry
  <2>1. "resolveLookup" \in PC BY DEF PC
  <2>2. TypeOK' BY <1>0, <1>1, <1>3, <2>1, GotoKeeps DEF TypeOK
  <2>3. worker'[w].pc = "resolveLookup" /\ worker'[w].retry = t
    BY <1>0, <1>2, <1>3, <2>1, GotoKeeps
  <2>4. SweepKnows(w)' BY <1>1, <1>3, <2>3 DEF SweepKnows, Exists
  <2>5. \A v \in Worker \ {w} : worker'[v] = worker[v]
    BY <1>0, <1>3, <2>1, GotoKeeps
  <2> QED BY <1>1, <1>3, <2>2, <2>4, <2>5, OnlyMoves
<1>4. CASE /\ retry[t] = "claimed" /\ attempt[t].status # "submitted" /\ Exists(t)
           /\ markRetryFiredIfClaimed(t) /\ End(w)
  <2>1. charge[t] # "none" BY <1>4, ClaimedIsCharged
  <2> QED BY <1>1, <1>4, <2>1, FiredIfClaimed
<1>5. CASE End(w) /\ UNCHANGED retry
  <2>1. TypeOK' BY <1>0, <1>1, <1>5, EndKnows DEF TypeOK
  <2> QED BY <1>0, <1>1, <1>5, <2>1, EndKnows, OnlyMoves
<1> QED BY <1>2, <1>3, <1>4, <1>5 DEF resolveAmbiguousRetry

\* Declaring the intent: the claim and the anchor appear together, and only
\* when nobody else may still pay.
LEMMA IntentStep ==
  ASSUME RetryInv, NEW w \in Worker, establishDurableDispatchIntent(w)
  PROVE  RetryInv'
<1>0. TypeOK BY DEF RetryInv
<1>1. UNCHANGED <<posted, charge, event, applied, faults>>
  BY DEF establishDurableDispatchIntent
<1>2. PICK t \in Retry : t = worker[w].retry
  BY DEF establishDurableDispatchIntent, At, RetryInv, SweepKnows
<1>3. RowFacts(t) /\ t \in Attempt BY DEF RetryInv, Anchors, RowFacts, Attempt
<1>4. "dispatch" \in PC BY DEF PC
<1>5. ASSUME Goto(w, "dispatch"), Exists(t)'
      PROVE  /\ SweepKnows(w)'
             /\ \A v \in Worker \ {w} : worker'[v] = worker[v]
  <2>1. worker'[w].pc = "dispatch" /\ worker'[w].retry = t
    BY <1>0, <1>2, <1>4, <1>5, GotoKeeps
  <2>2. SweepKnows(w)' BY <1>5, <2>1 DEF SweepKnows
  <2> QED BY <1>0, <1>4, <1>5, <2>2, GotoKeeps
<1>6. CASE Exists(t) /\ Goto(w, "dispatch") /\ UNCHANGED <<retry, attempt>>
  <2>1. TypeOK' BY <1>0, <1>1, <1>4, <1>6, GotoKeeps DEF TypeOK
  <2>2. Exists(t)' BY <1>6 DEF Exists
  <2> QED BY <1>1, <1>5, <1>6, <2>1, <2>2, OnlyMoves
<1>7. CASE /\ ~Exists(t) /\ MayClaim(t)
           /\ retry' = [retry EXCEPT ![t] = "claimed"]
           /\ attempt' = [attempt EXCEPT ![t].status = "submitted"]
           /\ Goto(w, "dispatch")
  <2>1. /\ attempt' \in [Attempt -> AttemptRow]
        /\ attempt'[t].status = "submitted"
        /\ \A a \in Attempt \ {t} : attempt'[a] = attempt[a]
    BY <1>0, <1>3, <1>7, StatusWritten DEF PaymentAttemptStatus
  <2>2. /\ retry' \in [Retry -> {"scheduled", "claimed", "fired", "canceled"}]
        /\ \A s \in Retry \ {t} : retry'[s] = retry[s]
        /\ retry'[t] = "claimed"
    BY <1>0, <1>7 DEF TypeOK
  <2>3. TypeOK'
    BY <1>0, <1>1, <1>4, <1>7, <2>1, <2>2, GotoKeeps DEF TypeOK, AttemptRow
  <2>4. attempt[t].status = "absent" /\ charge[t] = "none"
    BY <1>3, <1>7 DEF Exists, RowFacts, AnchorMatches
  <2>5. \A s \in Retry \ {t} : Same(s) BY <1>1, <2>1, <2>2 DEF Same, Attempt
  <2>6. \A m \in Manual : attempt'[m] = attempt[m]
    BY <2>1, RetryAssumption DEF Attempt
  <2>7. RowFacts(t)'
    <3>1. AnchorRange(t)' BY <2>1 DEF AnchorRange
    <3>2. AnchorMatches(t)' BY <1>1, <2>1, <2>4 DEF AnchorMatches
    <3>3. RetryMatches(t)' BY <2>2 DEF RetryMatches
    <3>4. OutcomesMatch(t)'
      <4>1. \A d \in applied[t] : FALSE
        BY <1>0, <1>3, <2>4 DEF RowFacts, OutcomesMatch, TypeOK
      <4> QED BY <1>1, <1>3, <4>1 DEF RowFacts, OutcomesMatch
    <3> QED BY <3>1, <3>2, <3>3, <3>4 DEF RowFacts
  <2>8. Keeps(t) BY <1>1, <2>1, <2>4 DEF Keeps, Exists
  <2>9. t \notin posted BY <2>4 DEF RetryInv, PostedSucceeded
  <2>10. ~HasCompetingAttempt(t) BY <1>7 DEF MayClaim
  <2>11. Exists(t)' BY <2>1 DEF Exists
  <2> QED BY <1>1, <1>5, <1>7, <2>3, <2>5, <2>6, <2>7, <2>8, <2>9, <2>10, <2>11,
             OneRetryTouched
<1>8. CASE End(w) /\ UNCHANGED <<retry, attempt>>
  <2>1. TypeOK' BY <1>0, <1>1, <1>8, EndKnows DEF TypeOK
  <2> QED BY <1>0, <1>1, <1>8, <2>1, EndKnows, OnlyMoves
<1> QED BY <1>2, <1>6, <1>7, <1>8 DEF establishDurableDispatchIntent

\* An anchor is closed only while nothing was charged for it.
LEMMA CloseStep ==
  ASSUME RetryInv, NEW w \in Worker, NEW t \in Retry,
         UNCHANGED <<posted, event, applied>>,
         attempt[t].status = "submitted", charge[t] = "none", CloseAnchor(w, t)
  PROVE  RetryInv'
<1>0. TypeOK BY DEF RetryInv
<1>1. UNCHANGED <<charge, faults>> /\ End(w) BY DEF CloseAnchor
<1>2. RowFacts(t) /\ t \in Attempt BY DEF RetryInv, Anchors, RowFacts, Attempt
<1>3. /\ attempt' \in [Attempt -> AttemptRow]
      /\ attempt'[t].status = "failed"
      /\ \A a \in Attempt \ {t} : attempt'[a] = attempt[a]
  BY <1>0, <1>2, StatusWritten DEF PaymentAttemptStatus, CloseAnchor
<1>4. /\ retry' \in [Retry -> {"scheduled", "claimed", "fired", "canceled"}]
      /\ \A s \in Retry \ {t} : retry'[s] = retry[s]
      /\ retry'[t] = "canceled"
  BY <1>0 DEF TypeOK, CloseAnchor
<1>5. TypeOK' BY <1>0, <1>1, <1>3, <1>4, EndKnows DEF TypeOK, AttemptRow
<1>6. \A s \in Retry \ {t} : Same(s) BY <1>1, <1>3, <1>4 DEF Same, Attempt
<1>7. \A m \in Manual : attempt'[m] = attempt[m]
  BY <1>3, RetryAssumption DEF Attempt
<1>8. RowFacts(t)'
  <2>1. AnchorRange(t)' BY <1>3 DEF AnchorRange
  <2>2. AnchorMatches(t)' BY <1>1, <1>3, <1>4 DEF AnchorMatches
  <2>3. RetryMatches(t)' BY <1>1, <1>3, <1>4 DEF RetryMatches
  <2>4. OutcomesMatch(t)'
    <3>1. \A d \in applied[t] : FALSE
      BY <1>0, <1>2 DEF RowFacts, OutcomesMatch, TypeOK
    <3> QED BY <1>1, <1>2, <3>1 DEF RowFacts, OutcomesMatch
  <2> QED BY <2>1, <2>2, <2>3, <2>4 DEF RowFacts
<1>9. Keeps(t) BY <1>1, <1>3 DEF Keeps, Exists
<1>10. t \notin posted BY DEF RetryInv, PostedSucceeded
<1>11. IsActive(t) BY DEF IsActive, Unresolved
<1> QED BY <1>0, <1>1, <1>5, <1>6, <1>7, <1>8, <1>9, <1>10, <1>11, EndKnows,
           OneRetryTouched

\* What asking for a charge leaves at the provider.
LEMMA TakenCharge ==
  ASSUME TypeOK, NEW t \in Retry, Taken(t) \/ UNCHANGED charge
  PROVE  /\ charge' \in [Retry -> Found]
         /\ \A s \in Retry \ {t} : charge'[s] = charge[s]
         /\ charge[t] # "none" => charge'[t] = charge[t]
         /\ charge[t] = "none" => charge'[t] \in {"none", "pending"}
         /\ Taken(t) => charge'[t] # "none"
BY DEF TypeOK, Taken, Found

\* The provider is asked while the charge is within what is due, so what it
\* takes on needs no closing later.
LEMMA CallStep ==
  ASSUME RetryInv, NEW w \in Worker, NEW t \in Retry, t = worker[w].retry,
         UNCHANGED <<posted, event, applied>>,
         attempt[t].status = "submitted", ~IsSatisfied, WithinCeiling(t),
         CallProvider(w, t)
  PROVE  RetryInv'
<1>0. TypeOK BY DEF RetryInv
<1>1. RowFacts(t) /\ t \in Attempt BY DEF RetryInv, Anchors, RowFacts, Attempt
<1>2. ~IsSatisfied' /\ WithinCeiling(t)' BY <1>1, BooksStay
<1>3. \A d \in applied[t] : FALSE
  BY <1>0, <1>1 DEF RowFacts, OutcomesMatch, TypeOK
<1>4. retry[t] \in {"claimed", "fired"}
  BY <1>0, <1>1 DEF RowFacts, RetryMatches, TypeOK
<1>5. t \notin posted BY DEF RetryInv, PostedSucceeded
<1>6. IsActive(t) BY DEF IsActive, Unresolved
\* The row when the charge may have been taken on, whatever was recorded.
<1>7. ASSUME Taken(t) \/ UNCHANGED charge,
             UNCHANGED retry,
             attempt'[t].status \in {"submitted", "processing"},
             attempt'[t].status = "processing" => charge'[t] # "none"
      PROVE  RowFacts(t)' /\ Keeps(t)
  <2>1. /\ charge[t] # "none" => charge'[t] = charge[t]
        /\ charge[t] = "none" => charge'[t] \in {"none", "pending"}
    BY <1>0, <1>7, TakenCharge
  <2>2. AnchorRange(t)' BY <1>7 DEF AnchorRange
  <2>3. AnchorMatches(t)' BY <1>2, <1>7 DEF AnchorMatches
  <2>4. RetryMatches(t)'
    BY <1>1, <1>4, <1>7, <2>1 DEF RowFacts, RetryMatches
  <2>5. OutcomesMatch(t)'
    <3>1. \A d \in event[t] : charge'[t] = d
      BY <1>0, <1>1, <2>1 DEF RowFacts, OutcomesMatch, TypeOK
    <3> QED BY <1>3, <3>1 DEF OutcomesMatch
  <2>6. Keeps(t) BY <1>7, <2>1 DEF Keeps, Exists
  <2> QED BY <2>2, <2>3, <2>4, <2>5, <2>6 DEF RowFacts
<1>8. CASE charge[t] = "none" /\ CloseAnchor(w, t)
  BY <1>8, CloseStep
<1>9. CASE /\ Taken(t)
           /\ attempt' = [attempt EXCEPT ![t].id = TRUE,
                                         ![t].status = IF charge'[t] = "pending"
                                                         THEN "processing" ELSE @]
           /\ Goto(w, "lookup")
           /\ UNCHANGED <<retry, faults>>
  <2> DEFINE st == IF charge'[t] = "pending" THEN "processing" ELSE "submitted"
  <2>1. PICK s \in {"submitted", "processing"} : s = st OBVIOUS
  <2>2. attempt' = [attempt EXCEPT ![t].id = TRUE, ![t].status = s]
    <3>1. [attempt EXCEPT ![t].id = TRUE][t].status = "submitted"
      <4>1. PICK yes \in BOOLEAN : yes = TRUE BY Zenon
      <4>2. [attempt EXCEPT ![t].id = yes][t].status = attempt[t].status
        BY <1>0, <1>1 DEF TypeOK
      <4> QED BY <4>1, <4>2, Zenon
    <3> QED BY <1>9, <2>1, <3>1
  <2>3. PICK yes \in BOOLEAN :
          attempt' = [attempt EXCEPT ![t].id = yes, ![t].status = s]
    BY <2>2, Zenon
  <2>4. s \in PaymentAttemptStatus \cup {"absent"} BY DEF PaymentAttemptStatus
  <2>5. /\ attempt' \in [Attempt -> AttemptRow]
        /\ attempt'[t].status = s
        /\ \A a \in Attempt \ {t} : attempt'[a] = attempt[a]
    BY <1>0, <1>1, <2>3, <2>4, BothWritten
  <2>6. s = "processing" => charge'[t] # "none" BY <2>1
  <2>7. RowFacts(t)' /\ Keeps(t) BY <1>7, <1>9, <2>5, <2>6
  <2>8. /\ charge' \in [Retry -> Found]
        /\ \A u \in Retry \ {t} : charge'[u] = charge[u]
        /\ charge'[t] # "none"
    BY <1>0, <1>9, TakenCharge
  <2>9. "lookup" \in PC BY DEF PC
  <2>10. TypeOK' BY <1>0, <1>9, <2>5, <2>8, <2>9, GotoKeeps DEF TypeOK, AttemptRow
  <2>11. \A u \in Retry \ {t} : Same(u) BY <1>9, <2>5, <2>8 DEF Same, Attempt
  <2>12. \A m \in Manual : attempt'[m] = attempt[m]
    BY <2>5, RetryAssumption DEF Attempt
  <2>13. SweepKnows(w)'
    <3>1. worker'[w].pc = "lookup" /\ worker'[w].retry = t
      BY <1>0, <1>9, <2>9, GotoKeeps
    <3> QED BY <3>1 DEF SweepKnows
  <2>14. \A v \in Worker \ {w} : worker'[v] = worker[v]
    BY <1>0, <1>9, <2>9, GotoKeeps
  <2> QED BY <1>5, <1>6, <2>7, <2>10, <2>11, <2>12, <2>13, <2>14, OneRetryTouched
<1>10. CASE /\ Fault /\ (Taken(t) \/ UNCHANGED charge) /\ End(w)
            /\ UNCHANGED <<retry, attempt>>
  <2>1. RowFacts(t)' /\ Keeps(t) BY <1>7, <1>10
  <2>2. /\ charge' \in [Retry -> Found]
        /\ \A u \in Retry \ {t} : charge'[u] = charge[u]
    BY <1>0, <1>10, TakenCharge
  <2>3. faults' \in 0..MaxFaults
    BY <1>0, <1>10, RetryAssumption DEF Fault, TypeOK
  <2>4. TypeOK' BY <1>0, <1>10, <2>2, <2>3, EndKnows DEF TypeOK
  <2>5. \A u \in Retry \ {t} : Same(u) BY <1>10, <2>2 DEF Same
  <2> QED BY <1>0, <1>5, <1>6, <1>10, <2>1, <2>4, <2>5, EndKnows, OneRetryTouched
<1> QED BY <1>8, <1>9, <1>10 DEF CallProvider

\* The provider call, from the first dispatch and from the resolution.
LEMMA DispatchStep ==
  ASSUME RetryInv, NEW w \in Worker,
         dispatchProviderCallForAnchor(w) \/ resolveNotFoundOutcome(w)
  PROVE  RetryInv'
<1>0. TypeOK BY DEF RetryInv
<1>1. UNCHANGED <<posted, event, applied>>
  BY DEF dispatchProviderCallForAnchor, resolveNotFoundOutcome
<1>2. PICK t \in Retry : t = worker[w].retry
  BY DEF dispatchProviderCallForAnchor, resolveNotFoundOutcome, At, RetryInv, SweepKnows
<1>3. Exists(t)
  BY <1>2 DEF dispatchProviderCallForAnchor, resolveNotFoundOutcome, At, RetryInv,
              SweepKnows
<1>4. CASE attempt[t].status = "submitted" /\ DispatchAnchor(w, t)
  <2>1. CASE (IsSatisfied \/ ~WithinCeiling(t)) /\ CloseAnchor(w, t)
    <3>1. charge[t] = "none"
      BY <1>4, <2>1 DEF RetryInv, Anchors, AnchorMatches
    <3> QED BY <1>1, <1>4, <2>1, <3>1, CloseStep
  <2>2. CASE ~IsSatisfied /\ WithinCeiling(t) /\ CallProvider(w, t)
    BY <1>1, <1>2, <1>4, <2>2, CallStep
  <2> QED BY <1>4, <2>1, <2>2 DEF DispatchAnchor
<1>5. CASE /\ attempt[t].status # "submitted" /\ markRetryFiredIfClaimed(t)
           /\ End(w) /\ UNCHANGED <<attempt, charge, faults>>
  BY <1>1, <1>3, <1>5, ClaimedIsCharged, FiredIfClaimed
<1>6. CASE UNCHANGED <<retry, attempt, charge, faults>> /\ End(w)
  <2>1. TypeOK' BY <1>0, <1>1, <1>6, EndKnows DEF TypeOK
  <2> QED BY <1>0, <1>1, <1>6, <2>1, EndKnows, OnlyMoves
<1>7. CASE dispatchProviderCallForAnchor(w)
  BY <1>2, <1>4, <1>5, <1>6, <1>7 DEF dispatchProviderCallForAnchor
<1>8. CASE resolveNotFoundOutcome(w)
  BY <1>2, <1>4, <1>5, <1>8 DEF resolveNotFoundOutcome
<1> QED BY <1>7, <1>8

------------------------------------------------------------------------------
\* The provider, the event pipeline and the debtor.

\* The provider settles what it took on, once.
LEMMA SettleStep ==
  ASSUME RetryInv, NEW t \in Retry, Settle(t)
  PROVE  RetryInv'
<1>0. TypeOK BY DEF RetryInv
<1>1. UNCHANGED <<retry, attempt, posted, applied, worker, faults>>
  BY DEF Settle
<1>2. PICK d \in {"succeeded", "failed"} :
        /\ charge' = [charge EXCEPT ![t] = d]
        /\ event' = [event EXCEPT ![t] = @ \cup {d}]
  BY DEF Settle
<1>3. charge[t] = "pending" BY DEF Settle
<1>4. RowFacts(t) /\ t \in Attempt BY DEF RetryInv, Anchors, RowFacts, Attempt
<1>5. /\ charge' \in [Retry -> Found] /\ charge'[t] = d
      /\ event' \in [Retry -> SUBSET {"succeeded", "failed"}]
      /\ event'[t] = event[t] \cup {d}
      /\ \A s \in Retry \ {t} : charge'[s] = charge[s] /\ event'[s] = event[s]
  BY <1>0, <1>2 DEF TypeOK, Found
<1>6. TypeOK' BY <1>0, <1>1, <1>5 DEF TypeOK
<1>7. \A s \in Retry \ {t} : Same(s) BY <1>1, <1>5 DEF Same
<1>8. RowFacts(t)'
  <2>1. /\ IsSatisfied' <=> IsSatisfied
        /\ WithinCeiling(t)' <=> WithinCeiling(t)
    BY <1>1, <1>4, BooksStay
  <2>2. \A e \in event[t] : FALSE
    BY <1>0, <1>3, <1>4 DEF RowFacts, OutcomesMatch, TypeOK
  <2>3. AnchorRange(t)' BY <1>1, <1>4 DEF RowFacts, AnchorRange
  <2>4. AnchorMatches(t)'
    BY <1>1, <1>3, <1>4, <1>5, <2>1 DEF RowFacts, AnchorMatches
  <2>5. RetryMatches(t)' BY <1>1, <1>3, <1>4, <1>5 DEF RowFacts, RetryMatches
  <2>6. OutcomesMatch(t)' BY <1>1, <1>4, <1>5, <2>2 DEF RowFacts, OutcomesMatch
  <2> QED BY <2>3, <2>4, <2>5, <2>6 DEF RowFacts
<1>9. Keeps(t) BY <1>1, <1>3, <1>5 DEF Keeps, Exists
<1>10. t \in posted => attempt'[t].status = "succeeded"
  BY <1>1 DEF RetryInv, PostedSucceeded
<1>11. IsActive(t)' => IsActive(t) BY <1>1 DEF IsActive
<1> QED BY <1>1, <1>6, <1>7, <1>8, <1>9, <1>10, <1>11, OneRetryTouched

\* The pipeline applies an outcome to an anchor that still waits for it, and
\* drops it otherwise.
LEMMA TransitionStep ==
  ASSUME RetryInv, NEW t \in Retry, applyTransition(t)
  PROVE  RetryInv'
<1>0. TypeOK BY DEF RetryInv
<1>1. UNCHANGED <<retry, posted, charge, worker, faults>>
  BY DEF applyTransition
<1>2. PICK d \in event[t] :
        /\ event' = [event EXCEPT ![t] = @ \ {d}]
        /\ \/ /\ attempt[t].status \in AllowedSources(d)
              /\ attempt' = [attempt EXCEPT ![t].status = d]
              /\ applied' = [applied EXCEPT ![t] = @ \cup {d}]
           \/ UNCHANGED <<attempt, applied>>
  BY DEF applyTransition
<1>3. RowFacts(t) /\ t \in Attempt BY DEF RetryInv, Anchors, RowFacts, Attempt
<1>4. d \in {"succeeded", "failed"} /\ charge[t] = d
  BY <1>0, <1>3 DEF TypeOK, RowFacts, OutcomesMatch
<1>5. /\ event' \in [Retry -> SUBSET {"succeeded", "failed"}]
      /\ event'[t] = event[t] \ {d}
      /\ \A s \in Retry \ {t} : event'[s] = event[s]
  BY <1>0, <1>2 DEF TypeOK
<1>6. /\ IsSatisfied' <=> IsSatisfied
      /\ WithinCeiling(t)' <=> WithinCeiling(t)
  BY <1>1, <1>3, BooksStay
<1>7. CASE /\ attempt[t].status \in AllowedSources(d)
           /\ attempt' = [attempt EXCEPT ![t].status = d]
           /\ applied' = [applied EXCEPT ![t] = @ \cup {d}]
  <2>1. attempt[t].status \in Unresolved
    <3>1. AllowedSources("succeeded") = Unresolved BY DEF AllowedSources, Superseding
    <3>2. AllowedSources("failed") = Unresolved BY DEF AllowedSources, Superseding
    <3> QED BY <1>4, <1>7, <3>1, <3>2
  <2>2. d \in PaymentAttemptStatus \cup {"absent"} BY <1>4 DEF PaymentAttemptStatus
  <2>3. /\ attempt' \in [Attempt -> AttemptRow]
        /\ attempt'[t].status = d
        /\ \A a \in Attempt \ {t} : attempt'[a] = attempt[a]
    BY <1>0, <1>3, <1>7, <2>2, StatusWritten
  <2>4. /\ applied' \in [Retry -> SUBSET {"succeeded", "failed"}]
        /\ applied'[t] = applied[t] \cup {d}
        /\ \A s \in Retry \ {t} : applied'[s] = applied[s]
    BY <1>0, <1>4, <1>7 DEF TypeOK
  <2>5. TypeOK' BY <1>0, <1>1, <1>5, <2>3, <2>4 DEF TypeOK, AttemptRow
  <2>6. \A s \in Retry \ {t} : Same(s) BY <1>1, <1>5, <2>3, <2>4 DEF Same, Attempt
  <2>7. \A m \in Manual : attempt'[m] = attempt[m]
    BY <2>3, RetryAssumption DEF Attempt
  <2>8. t \notin posted
    BY <2>1 DEF RetryInv, PostedSucceeded, Unresolved
  <2>9. RowFacts(t)'
    <3>1. AnchorRange(t)' BY <1>4, <2>3 DEF AnchorRange
    <3>2. AnchorMatches(t)' BY <1>1, <1>4, <2>3 DEF AnchorMatches
    <3>3. RetryMatches(t)'
      BY <1>1, <1>3, <1>4, <2>1 DEF RowFacts, RetryMatches, Unresolved
    <3>4. OutcomesMatch(t)'
      <4>1. \A e \in applied[t] : FALSE
        BY <1>0, <1>3, <2>1 DEF RowFacts, OutcomesMatch, TypeOK, Unresolved
      <4> QED BY <1>1, <1>3, <1>5, <2>3, <2>4, <2>8, <4>1 DEF RowFacts, OutcomesMatch
    <3> QED BY <3>1, <3>2, <3>3, <3>4 DEF RowFacts
  <2>10. Keeps(t) BY <1>1, <1>4, <2>3 DEF Keeps, Exists
  <2>11. IsActive(t) BY <2>1 DEF IsActive
  <2> QED BY <1>1, <2>5, <2>6, <2>7, <2>8, <2>9, <2>10, <2>11, OneRetryTouched
<1>8. CASE UNCHANGED <<attempt, applied>>
  <2>1. TypeOK' BY <1>0, <1>1, <1>5, <1>8 DEF TypeOK
  <2>2. \A s \in Retry \ {t} : Same(s) BY <1>1, <1>5, <1>8 DEF Same
  <2>3. RowFacts(t)'
    <3>1. AnchorRange(t)' BY <1>3, <1>8 DEF RowFacts, AnchorRange
    <3>2. AnchorMatches(t)' BY <1>1, <1>3, <1>6, <1>8 DEF RowFacts, AnchorMatches
    <3>3. RetryMatches(t)' BY <1>1, <1>3, <1>8 DEF RowFacts, RetryMatches
    <3>4. OutcomesMatch(t)' BY <1>1, <1>3, <1>5, <1>8 DEF RowFacts, OutcomesMatch
    <3> QED BY <3>1, <3>2, <3>3, <3>4 DEF RowFacts
  <2>4. Keeps(t) BY <1>1, <1>8 DEF Keeps, Exists
  <2>5. t \in posted => attempt'[t].status = "succeeded"
    BY <1>8 DEF RetryInv, PostedSucceeded
  <2>6. IsActive(t)' => IsActive(t) BY <1>1, <1>8 DEF IsActive
  <2> QED BY <1>1, <1>8, <2>1, <2>2, <2>3, <2>4, <2>5, <2>6, OneRetryTouched
<1> QED BY <1>2, <1>7, <1>8

\* What the ledger entry of an attempt and coordinateSuccess do to the rest:
\* nobody else was active, so no submitted anchor has a charge whose room the
\* entry could take, and only retries without an anchor are called off.
LEMMA PostStep ==
  ASSUME RetryInv, TypeOK', NEW a \in Attempt, Post(a),
         attempt'[a].status = "succeeded",
         \A b \in Attempt \ {a} : attempt'[b] = attempt[b] /\ ~IsActive(b),
         a \in Retry => attempt[a].status = "succeeded" /\ applied'[a] = {},
         \A s \in Retry \ {a} : applied'[s] = applied[s],
         UNCHANGED <<charge, event, worker>>
  PROVE  RetryInv'
<1>0. TypeOK BY DEF RetryInv
<1>1. posted' = posted \cup {a} BY DEF Post
<1>2. \A s \in Retry :
        retry'[s] = retry[s] \/ (retry'[s] = "canceled" /\ ~Exists(s))
  BY DEF Post, CancelOpenRetries
<1>3. OneActive'
  <2>1. \A b \in Attempt : ~IsActive(b)'
    BY <1>1 DEF IsActive, Unresolved
  <2> QED BY <2>1 DEF OneActive
<1>4. PostedSucceeded'
  BY <1>0, <1>1 DEF RetryInv, PostedSucceeded, TypeOK
<1>5. ManualAtOnce'
  BY <1>1 DEF RetryInv, ManualAtOnce, Attempt
<1>6. ASSUME NEW s \in Retry
      PROVE  RowFacts(s)'
  <2>1. RowFacts(s) /\ s \in Attempt BY DEF RetryInv, Anchors, RowFacts, Attempt
  <2>2. attempt'[s].status = attempt[s].status BY <2>1
  <2>3. attempt[s].status # "submitted"
    BY <2>1 DEF IsActive, Unresolved
  <2>4. AnchorRange(s)' BY <2>1, <2>2 DEF RowFacts, AnchorRange
  <2>5. AnchorMatches(s)'
    BY <1>2, <2>1, <2>2, <2>3 DEF RowFacts, AnchorMatches, Exists
  <2>6. RetryMatches(s)'
    BY <1>2, <2>1, <2>2 DEF RowFacts, RetryMatches, AnchorMatches, Exists
  <2>7. OutcomesMatch(s)'
    BY <1>1, <2>1, <2>2 DEF RowFacts, OutcomesMatch
  <2> QED BY <2>4, <2>5, <2>6, <2>7 DEF RowFacts
<1>7. Anchors' BY <1>6 DEF Anchors, RowFacts
<1>8. \A v \in Worker : SweepKnows(v)'
  <2>1. \A s \in Retry : Keeps(s)
    BY DEF Keeps, Exists, Attempt
  <2> QED BY <2>1, SweepStays DEF RetryInv
<1> QED BY <1>3, <1>4, <1>5, <1>7, <1>8 DEF RetryInv

\* What an entry does to the retries' statuses and to the books is well formed.
LEMMA PostTypes ==
  ASSUME TypeOK, NEW a \in Attempt, Post(a)
  PROVE  /\ retry' \in [Retry -> {"scheduled", "claimed", "fired", "canceled"}]
         /\ posted' \subseteq Attempt
<1>1. posted' \subseteq Attempt BY DEF TypeOK, Post
<1>2. CASE CancelOpenRetries BY <1>1, <1>2 DEF CancelOpenRetries, TypeOK
<1>3. CASE UNCHANGED retry BY <1>1, <1>3 DEF TypeOK
<1> QED BY <1>2, <1>3 DEF Post

\* The effects of an applied outcome.
LEMMA EffectsStep ==
  ASSUME RetryInv, NEW t \in Retry, applyEffects(t)
  PROVE  RetryInv'
<1>0. TypeOK BY DEF RetryInv
<1>1. UNCHANGED <<attempt, charge, event, worker, faults>> BY DEF applyEffects
<1>2. PICK d \in applied[t] :
        /\ applied' = [applied EXCEPT ![t] = @ \ {d}]
        /\ IF d = "succeeded" THEN Post(t) ELSE UNCHANGED <<posted, retry>>
  BY DEF applyEffects
<1>3. RowFacts(t) /\ t \in Attempt BY DEF RetryInv, Anchors, RowFacts, Attempt
<1>4. /\ applied' \in [Retry -> SUBSET {"succeeded", "failed"}]
      /\ applied'[t] = applied[t] \ {d}
      /\ \A s \in Retry \ {t} : applied'[s] = applied[s]
  BY <1>0, <1>2 DEF TypeOK
<1>5. attempt[t].status = d /\ (d = "succeeded" => t \notin posted)
  BY <1>3 DEF RowFacts, OutcomesMatch
<1>6. applied'[t] = {}
  BY <1>3, <1>4, <1>5 DEF RowFacts, OutcomesMatch
<1>7. CASE d = "succeeded"
  <2>1. Post(t) BY <1>2, <1>7
  <2>2. TypeOK' BY <1>0, <1>1, <1>3, <1>4, <2>1, PostTypes DEF TypeOK
  <2>3. IsActive(t) BY <1>5, <1>7 DEF IsActive
  <2>4. \A b \in Attempt \ {t} : ~IsActive(b)
    BY <1>3, <2>3 DEF RetryInv, OneActive
  <2>5. attempt'[t].status = "succeeded" BY <1>1, <1>5, <1>7
  <2> QED BY <1>1, <1>3, <1>4, <1>5, <1>6, <1>7, <2>1, <2>2, <2>4, <2>5, PostStep
<1>8. CASE d # "succeeded"
  <2>1. UNCHANGED <<posted, retry>> BY <1>2, <1>8
  <2>2. TypeOK' BY <1>0, <1>1, <1>4, <2>1 DEF TypeOK
  <2>3. \A s \in Retry \ {t} : Same(s) BY <1>1, <1>4, <2>1 DEF Same
  <2>4. RowFacts(t)'
    <3>1. /\ IsSatisfied' <=> IsSatisfied
          /\ WithinCeiling(t)' <=> WithinCeiling(t)
      BY <1>3, <2>1, BooksStay
    <3>2. AnchorRange(t)' BY <1>1, <1>3 DEF RowFacts, AnchorRange
    <3>3. AnchorMatches(t)' BY <1>1, <1>3, <2>1, <3>1 DEF RowFacts, AnchorMatches
    <3>4. RetryMatches(t)' BY <1>1, <1>3, <2>1 DEF RowFacts, RetryMatches
    <3>5. OutcomesMatch(t)' BY <1>1, <1>3, <1>6 DEF RowFacts, OutcomesMatch
    <3> QED BY <3>2, <3>3, <3>4, <3>5 DEF RowFacts
  <2>5. Keeps(t) BY <1>1 DEF Keeps, Exists
  <2>6. t \in posted => attempt'[t].status = "succeeded"
    BY <1>1 DEF RetryInv, PostedSucceeded
  <2>7. IsActive(t)' => IsActive(t) BY <1>1, <2>1 DEF IsActive
  <2> QED BY <1>1, <2>1, <2>2, <2>3, <2>4, <2>5, <2>6, <2>7, OneRetryTouched
<1> QED BY <1>7, <1>8

\* The debtor pays by hand.
LEMMA ManualStep ==
  ASSUME RetryInv, NEW m \in Manual, postManualPayment(m)
  PROVE  RetryInv'
<1>0. TypeOK BY DEF RetryInv
<1>1. UNCHANGED <<charge, event, applied, worker, faults>> BY DEF postManualPayment
<1>2. m \in Attempt /\ m \notin Retry BY RetryAssumption DEF Attempt
<1>3. "succeeded" \in PaymentAttemptStatus \cup {"absent"} BY DEF PaymentAttemptStatus
<1>4. /\ attempt' \in [Attempt -> AttemptRow]
      /\ attempt'[m].status = "succeeded"
      /\ \A a \in Attempt \ {m} : attempt'[a] = attempt[a]
  BY <1>0, <1>2, <1>3, StatusWritten DEF postManualPayment
<1>5. Post(m) BY DEF postManualPayment
<1>6. TypeOK' BY <1>0, <1>1, <1>2, <1>4, <1>5, PostTypes DEF TypeOK, AttemptRow
<1>7. \A b \in Attempt \ {m} : ~IsActive(b)
  BY <1>2, CompetingIsActive DEF postManualPayment
<1> QED BY <1>1, <1>2, <1>4, <1>5, <1>6, <1>7, PostStep

------------------------------------------------------------------------------

\* Nothing has happened yet.
LEMMA RetryInit == Init => RetryInv
<1> SUFFICES ASSUME Init PROVE RetryInv OBVIOUS
<1>1. \A a \in Attempt : attempt[a].status = "absent" BY DEF Init
<1>2. TypeOK
  <2>1. attempt \in [Attempt -> AttemptRow] BY DEF Init, AttemptRow
  <2>2. worker \in [Worker -> [pc : PC, retry : Retry \cup {"none"}, found : Found]]
    BY DEF Init, Idle, PC, Found
  <2>3. faults \in 0..MaxFaults BY RetryAssumption DEF Init
  <2> QED BY <2>1, <2>2, <2>3 DEF Init, TypeOK, AttemptRow, Found
<1>3. OneActive BY <1>1 DEF OneActive, IsActive, Unresolved
<1>4. PostedSucceeded BY DEF Init, PostedSucceeded
<1>5. ManualAtOnce BY <1>1 DEF ManualAtOnce, Attempt
<1>6. Anchors
  BY <1>1 DEF Init, Anchors, AnchorRange, AnchorMatches, RetryMatches, OutcomesMatch,
              Attempt
<1>7. \A w \in Worker : SweepKnows(w) BY DEF Init, Idle, SweepKnows
<1> QED BY <1>2, <1>3, <1>4, <1>5, <1>6, <1>7 DEF RetryInv

\* Every step keeps the invariant.
LEMMA RetryNext == RetryInv /\ [Next]_vars => RetryInv'
<1> SUFFICES ASSUME RetryInv, [Next]_vars PROVE RetryInv' OBVIOUS
<1>1. ASSUME NEW w \in Worker, Step(w) PROVE RetryInv'
  BY <1>1, PrepareStep, IntentStep, DispatchStep, LookupStep, PersistStep, ReportStep,
     FireStep, ResolveStep DEF Step
<1>2. CASE UNCHANGED vars
  <2>1. \A s \in Retry : Same(s) BY <1>2 DEF vars, Same
  <2>2. posted' = posted /\ attempt' = attempt /\ worker' = worker BY <1>2 DEF vars
  <2>3. TypeOK' BY <1>2 DEF vars, TypeOK, RetryInv
  <2>4. OneActive' BY <2>2 DEF OneActive, IsActive, RetryInv
  <2>5. PostedSucceeded' BY <2>2 DEF PostedSucceeded, RetryInv
  <2>6. ManualAtOnce' BY <2>2 DEF ManualAtOnce, RetryInv
  <2>7. Anchors' BY <2>1, <2>2, SameFacts DEF Anchors, RowFacts, RetryInv
  <2>8. \A s \in Retry : Keeps(s) BY <1>2 DEF vars, Keeps, Exists
  <2>9. \A v \in Worker : SweepKnows(v)' BY <2>2, <2>8, SweepStays DEF RetryInv
  <2> QED BY <2>3, <2>4, <2>5, <2>6, <2>7, <2>9 DEF RetryInv
<1> QED BY <1>1, <1>2, CrashStep, SweepStep, SettleStep, TransitionStep, EffectsStep,
           ManualStep DEF Next

\* RowsMatchCharges for every number of retries, sweeps, payments by hand and
\* faults: whichever of several overlapping, dying or late sweeps wrote a row
\* last, a failed anchor was not charged, a retry that was called off never
\* charged anybody, and one that is called fired did.
THEOREM RowsTellWhatWasCharged == Spec => []RowsMatchCharges
<1>1. RetryInv => RowsMatchCharges
  BY DEF RetryInv, Anchors, AnchorMatches, RetryMatches, RowsMatchCharges
<1> QED BY <1>1, RetryInit, RetryNext, PTL DEF Spec

------------------------------------------------------------------------------
\* The money.  What is posted and what the provider holds against retries never
\* adds up to more than is due: beyond what is posted there is at most one
\* charge, and whoever asked for it asked within the ceiling.

\* What was drawn from the debtor or may yet be.
Drawn ==
  {a \in Attempt : \/ a \in posted
                   \/ a \in Retry /\ charge[a] \in {"pending", "succeeded"}}

MoneyInv == RetryInv /\ IsFiniteSet(posted) /\ Total(Drawn) <= Due

\* A charge that the ledger does not show has its anchor waiting for it.
LEMMA DrawnIsActive ==
  ASSUME RetryInv, NEW a \in Drawn, a \notin posted
  PROVE  a \in Retry /\ IsActive(a)
BY DEF RetryInv, Drawn, Anchors, AnchorRange, AnchorMatches, IsActive, Unresolved

\* So there is at most one, and what is drawn is finite if the ledger is.
LEMMA DrawnIsFinite ==
  ASSUME RetryInv, IsFiniteSet(posted)
  PROVE  IsFiniteSet(Drawn)
<1>1. CASE \A a \in Drawn : a \in posted
  <2>1. Drawn \in SUBSET posted BY <1>1
  <2> QED BY <2>1, FS_Subset
<1>2. CASE \E a \in Drawn : a \notin posted
  <2>1. PICK a \in Drawn : a \notin posted BY <1>2
  <2>2. \A b \in Drawn : b \in posted \/ b = a
    BY <2>1, DrawnIsActive DEF RetryInv, OneActive, Drawn
  <2>3. Drawn \in SUBSET (posted \cup {a}) BY <2>2
  <2> QED BY <2>3, FS_AddElement, FS_Subset
<1> QED BY <1>1, <1>2

\* A total is a number, and that of fewer attempts is no greater.
LEMMA TotalOfFewer ==
  ASSUME NEW A \in SUBSET Attempt, IsFiniteSet(A), NEW B \in SUBSET A
  PROVE  Total(A) \in Nat /\ Total(B) \in Nat /\ Total(B) <= Total(A)
<1>1. \A x \in A : Amount[x] \in Nat BY RetryAssumption
<1>2. IsFiniteSet(B) BY FS_Subset
<1> QED BY <1>1, <1>2, SumNat, SumOfMore DEF Total

\* One attempt more, within the ceiling, is still not too much.
LEMMA WithinIsEnough ==
  ASSUME TypeOK, IsFiniteSet(posted), NEW a \in Attempt, a \notin posted, WithinCeiling(a),
         NEW A \in SUBSET (posted \cup {a})
  PROVE  Total(A) <= Due
<1>1. posted \in SUBSET Attempt BY DEF TypeOK
<1>2. IsFiniteSet(posted \cup {a}) BY FS_AddElement
<1>3. Total(A) \in Nat /\ Total(posted \cup {a}) \in Nat /\ Total(A) <= Total(posted \cup {a})
  BY <1>1, <1>2, TotalOfFewer
<1>4. Total(posted \cup {a}) = Total(posted) + Amount[a]
  <2>1. \A x \in posted : Amount[x] \in Int BY <1>1, RetryAssumption
  <2>2. Amount[a] \in Int BY RetryAssumption
  <2> QED BY <2>1, <2>2, SumAdd DEF Total
<1> QED BY <1>3, <1>4, RetryAssumption DEF WithinCeiling, Credited

\* A step that draws nothing new keeps within what is due.
LEMMA NothingNewDrawn ==
  ASSUME MoneyInv, Drawn' \in SUBSET Drawn
  PROVE  Total(Drawn') <= Due
<1>1. IsFiniteSet(Drawn) /\ Drawn \in SUBSET Attempt
  BY DrawnIsFinite DEF MoneyInv, Drawn
<1>2. /\ Total(Drawn) \in Nat /\ Total(Drawn') \in Nat
      /\ Total(Drawn') <= Total(Drawn)
  BY <1>1, TotalOfFewer
<1> QED BY <1>2, RetryAssumption DEF MoneyInv

\* What a step may do with the money: draw nothing, ask the provider, post what
\* a charge paid, or post a payment by hand.
Asks(t) ==
  /\ attempt[t].status = "submitted" /\ WithinCeiling(t)
  /\ posted' = posted /\ \A s \in Retry \ {t} : charge'[s] = charge[s]

PostsCharge(t) ==
  /\ attempt[t].status = "succeeded"
  /\ posted' = posted \cup {t} /\ charge' = charge

PostsManual(m) ==
  /\ ~HasCompetingAttempt(m) /\ WithinCeiling(m) /\ ~Exists(m)
  /\ posted' = posted \cup {m} /\ charge' = charge

DrawsNothing ==
  posted' = posted /\ \A s \in Retry : charge'[s] = charge[s] \/ charge[s] = "pending"

MoneyStep ==
  \/ DrawsNothing
  \/ \E t \in Retry : Asks(t) \/ PostsCharge(t)
  \/ \E m \in Manual : PostsManual(m)

\* Asking, or closing: the anchor is submitted and within the ceiling.
LEMMA DispatchMoney ==
  ASSUME TypeOK, NEW w \in Worker, NEW t \in Retry, attempt[t].status = "submitted",
         DispatchAnchor(w, t), posted' = posted
  PROVE  DrawsNothing \/ Asks(t)
<1>1. CASE UNCHANGED charge BY <1>1 DEF DrawsNothing
<1>2. CASE ~UNCHANGED charge
  <2>1. WithinCeiling(t) /\ Taken(t)
    BY <1>2 DEF DispatchAnchor, CallProvider, CloseAnchor
  <2>2. \A s \in Retry \ {t} : charge'[s] = charge[s] BY <2>1 DEF Taken, TypeOK
  <2> QED BY <2>1, <2>2 DEF Asks
<1> QED BY <1>1, <1>2

\* Every step is one of these.
LEMMA MoneySteps ==
  ASSUME MoneyInv, [Next]_vars
  PROVE  MoneyStep
<1>0. TypeOK BY DEF MoneyInv, RetryInv
<1>1. ASSUME NEW w \in Worker, Step(w) PROVE MoneyStep
  <2>1. CASE dispatchProviderCallForAnchor(w) \/ resolveNotFoundOutcome(w)
    <3>1. worker[w].retry \in Retry
      BY <2>1 DEF dispatchProviderCallForAnchor, resolveNotFoundOutcome, At, MoneyInv,
                  RetryInv, SweepKnows
    <3>2. posted' = posted
      BY <2>1 DEF dispatchProviderCallForAnchor, resolveNotFoundOutcome
    <3>3. \/ UNCHANGED charge
          \/ attempt[worker[w].retry].status = "submitted" /\ DispatchAnchor(w, worker[w].retry)
      BY <2>1 DEF dispatchProviderCallForAnchor, resolveNotFoundOutcome
    <3>4. CASE UNCHANGED charge BY <3>2, <3>4 DEF MoneyStep, DrawsNothing
    <3> QED BY <1>0, <3>1, <3>2, <3>3, <3>4, DispatchMoney DEF MoneyStep
  <2>2. CASE ~(dispatchProviderCallForAnchor(w) \/ resolveNotFoundOutcome(w))
    <3>1. UNCHANGED <<posted, charge>>
      BY <1>1, <2>2 DEF Step, prepareRetrySubmission, establishDurableDispatchIntent,
         resolveSubmittedAnchor, persistFoundId, applyFoundOutcome, markRetryFired,
         resolveAmbiguousRetry, retrievePaymentByIdempotencyKey
    <3> QED BY <3>1 DEF MoneyStep, DrawsNothing
  <2> QED BY <2>1, <2>2
<1>2. ASSUME NEW t \in Retry, Settle(t) PROVE MoneyStep
  <2>1. \A s \in Retry : charge'[s] = charge[s] \/ charge[s] = "pending"
    BY <1>0, <1>2 DEF Settle, TypeOK
  <2> QED BY <1>2, <2>1 DEF MoneyStep, DrawsNothing, Settle
<1>3. ASSUME NEW t \in Retry, applyEffects(t) PROVE MoneyStep
  <2>1. CASE UNCHANGED posted BY <1>3, <2>1 DEF applyEffects, MoneyStep, DrawsNothing
  <2>2. CASE ~UNCHANGED posted
    <3>1. "succeeded" \in applied[t] /\ Post(t) BY <1>3, <2>2 DEF applyEffects
    <3>2. attempt[t].status = "succeeded"
      BY <3>1 DEF MoneyInv, RetryInv, Anchors, OutcomesMatch
    <3> QED BY <1>3, <3>1, <3>2 DEF MoneyStep, PostsCharge, Post, applyEffects
  <2> QED BY <2>1, <2>2
<1>4. ASSUME NEW m \in Manual, postManualPayment(m) PROVE MoneyStep
  BY <1>4 DEF MoneyStep, PostsManual, postManualPayment, Post
<1>5. ASSUME NEW t \in Retry, applyTransition(t) PROVE MoneyStep
  BY <1>5 DEF MoneyStep, DrawsNothing, applyTransition
<1>6. ASSUME NEW w \in Worker, Crash(w) \/ \E t \in Retry : Sweep(w, t) PROVE MoneyStep
  BY <1>6 DEF MoneyStep, DrawsNothing, Crash, Sweep, findDueForFiring, findClaimedForResumption
<1>7. CASE UNCHANGED vars BY <1>7 DEF vars, MoneyStep, DrawsNothing
<1> QED BY <1>1, <1>2, <1>3, <1>4, <1>5, <1>6, <1>7 DEF Next

\* None of them draws more than is due.
LEMMA MoneyBounded ==
  ASSUME MoneyInv, RetryInv', MoneyStep
  PROVE  IsFiniteSet(posted') /\ Total(Drawn') <= Due
<1>0. RetryInv /\ TypeOK /\ IsFiniteSet(posted) BY DEF MoneyInv, RetryInv
<1>1. CASE DrawsNothing
  <2>1. Drawn' \in SUBSET Drawn BY <1>1 DEF DrawsNothing, Drawn
  <2> QED BY <1>0, <1>1, <2>1, NothingNewDrawn DEF DrawsNothing
<1>2. ASSUME NEW t \in Retry, Asks(t)
      PROVE  IsFiniteSet(posted') /\ Total(Drawn') <= Due
  <2>1. t \in Attempt /\ IsActive(t) /\ t \notin posted
    BY <1>0, <1>2 DEF Asks, Attempt, IsActive, Unresolved, RetryInv, PostedSucceeded
  <2>2. \A a \in Drawn : a \in posted \/ a = t
    BY <1>0, <2>1, DrawnIsActive DEF RetryInv, OneActive, Drawn
  <2>3. Drawn' \in SUBSET (posted \cup {t})
    BY <1>2, <2>2 DEF Asks, Drawn
  <2>4. Total(Drawn') <= Due BY <1>0, <1>2, <2>1, <2>3, WithinIsEnough DEF Asks
  <2> QED BY <1>0, <1>2, <2>4 DEF Asks
<1>3. ASSUME NEW t \in Retry, PostsCharge(t)
      PROVE  IsFiniteSet(posted') /\ Total(Drawn') <= Due
  <2>1. charge[t] = "succeeded" BY <1>0, <1>3 DEF RetryInv, Anchors, AnchorMatches, PostsCharge
  <2>2. Drawn' \in SUBSET Drawn BY <1>3, <2>1 DEF PostsCharge, Drawn, Attempt
  <2>3. IsFiniteSet(posted') BY <1>0, <1>3, FS_AddElement DEF PostsCharge
  <2> QED BY <2>2, <2>3, NothingNewDrawn
<1>4. ASSUME NEW m \in Manual, PostsManual(m)
      PROVE  IsFiniteSet(posted') /\ Total(Drawn') <= Due
  <2>1. m \in Attempt BY DEF Attempt
  <2>2. m \notin posted
    BY <1>0, <1>4 DEF PostsManual, Exists, RetryInv, PostedSucceeded
  <2>3. m \notin Retry BY RetryAssumption
  <2>4. \A a \in Drawn : a \in posted
    BY <1>0, <1>4, <2>1, <2>3, DrawnIsActive, CompetingIsActive DEF PostsManual, Drawn
  <2>5. Drawn' \in SUBSET (posted \cup {m}) BY <1>4, <2>4 DEF PostsManual, Drawn
  <2>6. Total(Drawn') <= Due BY <1>0, <1>4, <2>1, <2>2, <2>5, WithinIsEnough DEF PostsManual
  <2>7. IsFiniteSet(posted') BY <1>0, <1>4, FS_AddElement DEF PostsManual
  <2> QED BY <2>6, <2>7
<1> QED BY <1>1, <1>2, <1>3, <1>4 DEF MoneyStep

\* NotOvercharged for every number of retries, sweeps, payments by hand and
\* faults: whatever crashes and whichever answers are lost, the retries and the
\* debtor together never draw more than the installment is due.
THEOREM RetriesNeverOvercharge == Spec => []NotOvercharged
<1>1. Init => MoneyInv
  <2> SUFFICES ASSUME Init PROVE MoneyInv OBVIOUS
  <2>1. Drawn = {} /\ posted = {} BY DEF Init, Drawn
  <2>2. Total(Drawn) <= Due BY <2>1, SumEmpty, RetryAssumption DEF Total
  <2> QED BY <2>1, <2>2, RetryInit, FS_EmptySet DEF MoneyInv
<1>2. MoneyInv /\ [Next]_vars => MoneyInv'
  <2> SUFFICES ASSUME MoneyInv, [Next]_vars PROVE MoneyInv' OBVIOUS
  <2>1. RetryInv' BY RetryNext DEF MoneyInv
  <2> QED BY <2>1, MoneySteps, MoneyBounded DEF MoneyInv
<1>3. MoneyInv => NotOvercharged
  <2> SUFFICES ASSUME MoneyInv PROVE NotOvercharged OBVIOUS
  <2>1. Total(Drawn) <= Due BY DEF MoneyInv
  <2> QED BY <2>1 DEF NotOvercharged, Drawn
<1> QED BY <1>1, <1>2, <1>3, PTL DEF Spec
==============================================================================
