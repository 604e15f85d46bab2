------------------------ MODULE PaymentWebhookProofs ------------------------
(***************************************************************************)
(* What holds of PaymentWebhook for any number of payments, installments,  *)
(* events, workers and faults.                                             *)
(***************************************************************************)
EXTENDS PaymentWebhook, TLAPS

------------------------------------------------------------------------------
\* The inductive invariant, part by part.

\* A busy worker holds an event, and only an event about a payment's status
\* gets as far as a transition.
Holding ==
  \A w \in Worker :
    /\ worker[w].pc # "idle" => worker[w].event \in Event
    /\ worker[w].pc = "transition" =>
         TypeOf[worker[w].event] \in DOMAIN EventTypeToStatus

TypeInv == TypeOK /\ Holding

\* A row under somebody's claim token is being processed, and no two workers
\* have its token.
Fenced ==
  /\ \A w \in Worker : worker[w].owner =>
       /\ worker[w].pc # "idle"
       /\ event[worker[w].event].status = "processing"
  /\ \A v, w \in Worker :
       worker[v].owner /\ worker[w].owner /\ worker[v].event = worker[w].event
         => v = w

\* The owner's copy of the marker is the row's, and a worker about to make
\* the transition has seen no marker, and the payment with its provider id.
Unmarked ==
  \A w \in Worker :
    /\ worker[w].owner => worker[w].from = event[worker[w].event].from
    /\ worker[w].pc = "transition" =>
         /\ worker[w].from = "none"
         /\ payment[PaymentOf[worker[w].event]].id

\* A payment whose provider id is not known has not moved.
Submitted ==
  \A p \in Payment : ~payment[p].id => payment[p].status = "submitted"

AuthorInv == TypeInv /\ Fenced /\ Unmarked /\ Submitted /\ StatusHasOneAuthor

------------------------------------------------------------------------------
\* Facts about the operators the actions are built from.

\* Every status an event asks for is a payment status.
LEMMA DestType ==
  ASSUME NEW t \in DOMAIN EventTypeToStatus
  PROVE  EventTypeToStatus[t] \in {"succeeded", "failed"} \cup Superseding
BY DEF EventTypeToStatus, Superseding

\* What Find returns, if there is something to find, is in the ledger and is
\* what was asked for.
LEMMA FindFinds ==
  ASSUME NEW L, NEW p, NEW t, Posted(L, p, t)
  PROVE  /\ Find(L, p, t) \in L
         /\ Find(L, p, t).payment = p
         /\ Find(L, p, t).entryType = t
BY DEF Posted, Find

\* The entries that LedgerService plans are entries.
LEMMA PlanType ==
  ASSUME NEW L \in SUBSET Entry(Payment), NEW p \in Payment
  PROVE  /\ \A g, f, h \in Nat : ClearedPlan(p, g, f, h) \in Entry(Payment)
         /\ Posted(L, p, "payment_cleared") =>
              /\ PayoutPlan(L, p) \in Entry(Payment)
              /\ \A t \in ReversalType :
                   ReversalPlan(L, p, t) \in Entry(Payment)
<1>1. \A g, f, h \in Nat : ClearedPlan(p, g, f, h) \in Entry(Payment)
  BY DEF ClearedPlan, Entry, EntryType, Shape
<1>2. ASSUME Posted(L, p, "payment_cleared")
      PROVE  /\ PayoutPlan(L, p) \in Entry(Payment)
             /\ \A t \in ReversalType : ReversalPlan(L, p, t) \in Entry(Payment)
  <2>1. Find(L, p, "payment_cleared") \in Entry(Payment)
    BY <1>2, FindFinds
  <2>2. PayoutPlan(L, p) \in Entry(Payment)
    BY <2>1 DEF PayoutPlan, Entry, EntryType, Shape
  <2>3. ASSUME NEW t \in ReversalType
        PROVE  ReversalPlan(L, p, t) \in Entry(Payment)
    BY <2>1 DEF ReversalPlan, Entry, EntryType, Shape
  <2> QED
    BY <2>2, <2>3
<1> QED
  BY <1>1, <1>2

------------------------------------------------------------------------------
\* How an action moves its worker.

\* Goto changes the program counter of one worker and nothing else.
LEMMA GotoMoves ==
  ASSUME worker \in [Worker -> WorkerState],
         NEW w \in Worker, NEW pc \in PC, Goto(w, pc)
  PROVE  /\ worker' \in [Worker -> WorkerState]
         /\ \A v \in Worker : v # w => worker'[v] = worker[v]
         /\ worker'[w].pc = pc
         /\ worker'[w].event = worker[w].event
         /\ worker'[w].owner = worker[w].owner
         /\ worker'[w].from = worker[w].from
         /\ worker'[w].current = worker[w].current
         /\ worker'[w].plan = worker[w].plan
BY DEF Goto, WorkerState

\* Insert keeps the planned entry for the next statement.
LEMMA InsertMoves ==
  ASSUME worker \in [Worker -> WorkerState],
         NEW w \in Worker, NEW en \in Entry(Payment), Insert(w, en)
  PROVE  /\ worker' \in [Worker -> WorkerState]
         /\ \A v \in Worker : v # w => worker'[v] = worker[v]
         /\ worker'[w].pc = "insert"
         /\ worker'[w].event = worker[w].event
         /\ worker'[w].owner = worker[w].owner
         /\ worker'[w].from = worker[w].from
         /\ worker'[w].plan = {en}
BY ZenonT(60) DEF Insert, WorkerState, PC

\* A read of the payment, with or without a transition.
LEMMA ReadMoves ==
  ASSUME worker \in [Worker -> WorkerState],
         NEW w \in Worker, NEW s \in PaymentAttemptStatus, NEW pc \in PC,
         HavingRead(w, s, pc)
  PROVE  /\ worker' \in [Worker -> WorkerState]
         /\ \A v \in Worker : v # w => worker'[v] = worker[v]
         /\ worker'[w].pc = pc
         /\ worker'[w].event = worker[w].event
         /\ worker'[w].owner = worker[w].owner
         /\ worker'[w].from = worker[w].from
         /\ worker'[w].plan = worker[w].plan
BY DEF HavingRead, WorkerState

\* The transition itself: the worker keeps what it found.
LEMMA TransitionMoves ==
  ASSUME worker \in [Worker -> WorkerState],
         NEW w \in Worker, NEW s \in PaymentAttemptStatus,
         NEW old \in PaymentAttemptStatus,
         worker' = [worker EXCEPT ![w].current = s, ![w].from = old,
                                  ![w].pc = "audit"]
  PROVE  /\ worker' \in [Worker -> WorkerState]
         /\ \A v \in Worker : v # w => worker'[v] = worker[v]
         /\ worker'[w].pc = "audit"
         /\ worker'[w].event = worker[w].event
         /\ worker'[w].owner = worker[w].owner
         /\ worker'[w].from = old
         /\ worker'[w].plan = worker[w].plan
<1> DEFINE row == [worker[w] EXCEPT !.current = s, !.from = old, !.pc = "audit"]
<1>1. row \in WorkerState
  BY DEF WorkerState, PC
<1>2. worker' = [worker EXCEPT ![w] = row]
  OBVIOUS
<1>3. /\ row.pc = "audit" /\ row.event = worker[w].event
      /\ row.owner = worker[w].owner /\ row.from = old
      /\ row.plan = worker[w].plan
  BY DEF WorkerState
<1> QED
  BY <1>1, <1>2, <1>3

\* The planned entry is inserted, nothing is planned any more.
LEMMA InsertedMoves ==
  ASSUME worker \in [Worker -> WorkerState],
         NEW w \in Worker, NEW pc \in PC,
         worker' = [worker EXCEPT ![w].plan = {}, ![w].pc = pc]
  PROVE  /\ worker' \in [Worker -> WorkerState]
         /\ \A v \in Worker : v # w => worker'[v] = worker[v]
         /\ worker'[w].pc = pc
         /\ worker'[w].event = worker[w].event
         /\ worker'[w].owner = worker[w].owner
         /\ worker'[w].from = worker[w].from
         /\ worker'[w].plan = {}
BY DEF WorkerState

\* A worker that is done, or dead, holds nothing.
LEMMA IdleMoves ==
  ASSUME worker \in [Worker -> WorkerState], NEW w \in Worker,
         worker' = [worker EXCEPT ![w] = Idle]
  PROVE  /\ worker' \in [Worker -> WorkerState]
         /\ \A v \in Worker : v # w => worker'[v] = worker[v]
         /\ worker'[w] = Idle
         /\ worker'[w].pc = "idle"
         /\ ~worker'[w].owner
BY DEF Idle, WorkerState, PC

\* A claim gives w the row's marker and takes the row from everybody else.
LEMMA ClaimMoves ==
  ASSUME worker \in [Worker -> WorkerState], event \in [Event -> EventRow],
         NEW w \in Worker, NEW e \in Event, TakeOwnership(w, e)
  PROVE  /\ worker' \in [Worker -> WorkerState]
         /\ worker'[w].pc = "lookup"
         /\ worker'[w].event = e
         /\ worker'[w].owner
         /\ worker'[w].from = event[e].from
         /\ \A v \in Worker : v # w =>
              /\ worker'[v].pc = worker[v].pc
              /\ worker'[v].event = worker[v].event
              /\ worker'[v].from = worker[v].from
              /\ worker'[v].current = worker[v].current
              /\ worker'[v].plan = worker[v].plan
              /\ worker'[v].owner <=> worker[v].owner /\ worker[v].event # e
<1>1. \A v \in Worker :
        worker'[v] = IF v = w
                       THEN [Idle EXCEPT !.pc = "lookup", !.event = e,
                                         !.owner = TRUE, !.from = event[e].from]
                       ELSE IF worker[v].event = e
                              THEN [worker[v] EXCEPT !.owner = FALSE]
                              ELSE worker[v]
  BY DEF TakeOwnership
<1>2. \A v \in Worker : worker[v] \in WorkerState /\ event[e] \in EventRow
  OBVIOUS
<1>3. ASSUME NEW v \in Worker PROVE worker'[v] \in WorkerState
  <2>1. CASE v = w
    <3>1. event[e].from \in PaymentAttemptStatus \cup {"none"}
      BY <1>2 DEF EventRow
    <3> QED
      BY ZenonT(60), <1>1, <2>1, <3>1 DEF Idle, WorkerState, PC
  <2>2. CASE v # w
    <3>1. worker[v] \in WorkerState
      BY <1>2
    <3>2. [worker[v] EXCEPT !.owner = FALSE] \in WorkerState
      BY ONLY <3>1 DEF WorkerState
    <3>3. \/ worker'[v] = [worker[v] EXCEPT !.owner = FALSE]
          \/ worker'[v] = worker[v]
      BY <1>1, <2>2
    <3> QED
      BY <3>1, <3>2, <3>3
  <2> QED
    BY <2>1, <2>2
<1>4. worker' \in [Worker -> WorkerState]
  BY <1>3 DEF TakeOwnership
<1> QED
  BY ZenonT(60), <1>1, <1>2, <1>4 DEF Idle, WorkerState

\* Where the lookup sends its worker.
LEMMA LookupGoes ==
  ASSUME NEW w \in Worker, LookupPayment(w)
  PROVE  \/ \E pc \in {"processed", "retryable", "payout", "reread"} : Goto(w, pc)
         \/ /\ TypeOf[worker[w].event] \in DOMAIN EventTypeToStatus
            /\ worker[w].from = "none"
            /\ payment[PaymentOf[worker[w].event]].id
            /\ Goto(w, "transition")
<1>1. \/ \E pc \in {"processed", "retryable", "payout"} : Goto(w, pc)
      \/ /\ TypeOf[worker[w].event] \in DOMAIN EventTypeToStatus
         /\ payment[PaymentOf[worker[w].event]].id
         /\ Goto(w, IF worker[w].from = "none" THEN "transition" ELSE "reread")
  BY DEF LookupPayment, EventOf, Target
<1>2. CASE worker[w].from = "none"
  BY <1>1, <1>2
<1>3. CASE worker[w].from # "none"
  BY <1>1, <1>3
<1> QED
  BY <1>2, <1>3

------------------------------------------------------------------------------
\* Types.

\* A move to a later statement, or to the insertion of a planned entry, keeps
\* the worker's type and the event it holds.
LEMMA MovesOn ==
  ASSUME TypeInv, NEW w \in Worker, worker[w].event \in Event,
         \/ \E pc \in PC \ {"transition"} : Goto(w, pc)
         \/ \E en \in Entry(Payment) : Insert(w, en)
  PROVE  worker' \in [Worker -> WorkerState] /\ Holding'
<1>1. /\ worker' \in [Worker -> WorkerState]
      /\ \A v \in Worker : v # w => worker'[v] = worker[v]
      /\ worker'[w].event = worker[w].event
      /\ worker'[w].pc # "transition"
  <2>1. CASE \E pc \in PC \ {"transition"} : Goto(w, pc)
    BY <2>1, GotoMoves DEF TypeInv, TypeOK
  <2>2. CASE \E en \in Entry(Payment) : Insert(w, en)
    BY <2>2, InsertMoves DEF TypeInv, TypeOK
  <2> QED
    BY <2>1, <2>2
<1> QED
  <2>1. ASSUME NEW v \in Worker
        PROVE  /\ worker'[v].pc # "idle" => worker'[v].event \in Event
               /\ worker'[v].pc = "transition" =>
                    TypeOf[worker'[v].event] \in DOMAIN EventTypeToStatus
    <3>1. CASE v = w
      BY <1>1, <3>1
    <3>2. CASE v # w
      BY <1>1, <3>2 DEF TypeInv, Holding
    <3> QED
      BY <3>1, <3>2
  <2> QED
    BY <1>1, <2>1 DEF Holding

\* TypeInv is inductive.
LEMMA TypeInvStep == TypeInv /\ [Next]_vars => TypeInv'
<1> SUFFICES ASSUME TypeInv, [Next]_vars PROVE TypeInv'
  OBVIOUS
<1> USE DEF TypeInv, TypeOK, Holding, schedule, clock, EventOf, Target
<1>0. \A w \in Worker : worker[w].event \in Event =>
        PaymentOf[worker[w].event] \in Payment
  BY ConstantsAssumption
<1>1. ASSUME NEW w \in Worker, NEW e \in Event, tryInsertAndClaim(w, e)
      PROVE  TypeInv'
  <2>1. event' \in [Event -> EventRow]
    <3> DEFINE row == [event[e] EXCEPT !.status = "processing", !.lease = TRUE,
                                       !.rank = arrivals + 1]
    <3>1. arrivals + 1 \in Nat /\ event[e] \in EventRow
      OBVIOUS
    <3>2. row \in EventRow
      BY <3>1 DEF EventRow
    <3>3. event' = [event EXCEPT ![e] = row]
      BY <1>1 DEF tryInsertAndClaim
    <3> QED
      BY <3>2, <3>3
  <2>2. worker' \in [Worker -> WorkerState] /\ Holding'
    BY <1>1, ClaimMoves DEF tryInsertAndClaim
  <2> QED
    BY <1>1, <2>1, <2>2 DEF tryInsertAndClaim
<1>2. ASSUME NEW w \in Worker, NEW e \in Event, claimExisting(w, e)
      PROVE  TypeInv'
  <2>1. event' \in [Event -> EventRow]
    <3> DEFINE row == [event[e] EXCEPT !.status = "processing", !.lease = TRUE]
    <3>1. event[e] \in EventRow
      OBVIOUS
    <3>2. row \in EventRow
      BY ONLY <3>1 DEF EventRow
    <3>3. event' = [event EXCEPT ![e] = row]
      BY <1>2 DEF claimExisting
    <3> QED
      BY <3>2, <3>3
  <2>2. worker' \in [Worker -> WorkerState] /\ Holding'
    BY <1>2, ClaimMoves DEF claimExisting
  <2> QED
    BY <1>2, <2>1, <2>2 DEF claimExisting
<1>3. ASSUME NEW w \in Worker, LookupPayment(w) PROVE TypeInv'
  <2>1. worker[w].event \in Event
    BY <1>3 DEF LookupPayment
  <2>2. exceptions' \subseteq ExceptionType \X Event
    BY <1>3, <2>1 DEF LookupPayment, Record, ExceptionType
  <2>3. worker' \in [Worker -> WorkerState] /\ Holding'
    <3>1. PICK pc \in PC :
            /\ Goto(w, pc)
            /\ pc = "transition" =>
                 TypeOf[worker[w].event] \in DOMAIN EventTypeToStatus
      BY <1>3, LookupGoes DEF PC
    <3>2. /\ worker' \in [Worker -> WorkerState]
          /\ \A v \in Worker : v # w => worker'[v] = worker[v]
          /\ worker'[w].pc = pc /\ worker'[w].event = worker[w].event
      BY <3>1, GotoMoves
    <3>3. ASSUME NEW v \in Worker
          PROVE  /\ worker'[v].pc # "idle" => worker'[v].event \in Event
                 /\ worker'[v].pc = "transition" =>
                      TypeOf[worker'[v].event] \in DOMAIN EventTypeToStatus
      <4>1. CASE v = w
        BY <2>1, <3>1, <3>2, <4>1
      <4>2. CASE v # w
        BY <3>2, <4>2
      <4> QED
        BY <4>1, <4>2
    <3> QED
      BY <3>2, <3>3
  <2> QED
    BY <1>3, <2>2, <2>3 DEF LookupPayment
<1>4. ASSUME NEW w \in Worker, applyTransition(w) PROVE TypeInv'
  <2>1. /\ worker[w].event \in Event
        /\ Dest(worker[w].event) \in PaymentAttemptStatus
        /\ PaymentOf[worker[w].event] \in Payment
    BY <1>4, <1>0, DestType
    DEF applyTransition, Dest, PaymentAttemptStatus, Superseding
  <2>2. payment[PaymentOf[worker[w].event]].status \in PaymentAttemptStatus
    BY <2>1 DEF PaymentRow
  <2>3. {"audit", "conflict", "retryable"} \subseteq PC
    BY DEF PC
  <2>4. /\ worker' \in [Worker -> WorkerState]
        /\ \A v \in Worker : v # w => worker'[v] = worker[v]
        /\ worker'[w].pc \in {"audit", "conflict", "retryable"}
        /\ worker'[w].event = worker[w].event
    <3> DEFINE p == PaymentOf[worker[w].event]
               old == payment[p].status
               dest == Dest(worker[w].event)
               next == IF isTransitionPermanentlyIllegal(old, dest)
                         THEN "conflict" ELSE "retryable"
    <3>1. \/ HavingRead(w, old, next)
          \/ Goto(w, "retryable")
          \/ worker' = [worker EXCEPT ![w].current = dest, ![w].from = old,
                                      ![w].pc = "audit"]
      BY <1>4 DEF applyTransition
    <3>2. next \in {"conflict", "retryable"}
      OBVIOUS
    <3> HIDE DEF next
    <3>3. CASE HavingRead(w, old, next)
      BY <2>2, <2>3, <3>2, <3>3, ReadMoves
    <3>4. CASE Goto(w, "retryable")
      BY <2>3, <3>4, GotoMoves
    <3>5. CASE worker' = [worker EXCEPT ![w].current = dest, ![w].from = old,
                                        ![w].pc = "audit"]
      BY <2>1, <2>2, <3>5, TransitionMoves
    <3> QED
      BY <3>1, <3>3, <3>4, <3>5
  <2>5. event' \in [Event -> EventRow]
    <3>1. PICK e \in Event : e = worker[w].event
      BY <2>1
    <3>2. PICK old \in PaymentAttemptStatus : old = payment[PaymentOf[e]].status
      BY <2>2, <3>1
    <3>3. event' = event \/ event' = [event EXCEPT ![e].from = old]
      BY <1>4, <3>1, <3>2 DEF applyTransition, MarkTransition
    <3>4. [event[e] EXCEPT !.from = old] \in EventRow
      BY DEF EventRow
    <3>5. CASE event' = [event EXCEPT ![e] = [event[e] EXCEPT !.from = old]]
      BY <3>4, <3>5
    <3> QED
      BY <3>3, <3>5
  <2>6. payment' \in [Payment -> PaymentRow]
    <3>1. PICK p \in Payment : p = PaymentOf[worker[w].event]
      BY <2>1
    <3>2. PICK d \in PaymentAttemptStatus : d = Dest(worker[w].event)
      BY <2>1
    <3>3. payment' = payment \/ payment' = [payment EXCEPT ![p].status = d]
      BY <1>4, <3>1, <3>2 DEF applyTransition
    <3>4. [payment[p] EXCEPT !.status = d] \in PaymentRow
      BY DEF PaymentRow
    <3>5. CASE payment' = [payment EXCEPT ![p] = [payment[p] EXCEPT !.status = d]]
      BY <3>4, <3>5
    <3> QED
      BY <3>3, <3>5
  <2> QED
    BY <1>4, <2>4, <2>5, <2>6 DEF applyTransition
<1>5. ASSUME NEW w \in Worker, RereadPayment(w) PROVE TypeInv'
  <2>1. payment[PaymentOf[worker[w].event]].status \in PaymentAttemptStatus
    BY <1>5, <1>0 DEF RereadPayment, PaymentRow
  <2>2. "audit" \in PC
    BY DEF PC
  <2>3. /\ worker' \in [Worker -> WorkerState]
        /\ \A v \in Worker : v # w => worker'[v] = worker[v]
        /\ worker'[w].pc = "audit"
        /\ worker'[w].event = worker[w].event
    BY <1>5, <2>1, <2>2, ReadMoves DEF RereadPayment
  <2> QED
    BY <1>5, <2>3 DEF RereadPayment
<1>6. ASSUME NEW w \in Worker, recordTransitionAudit(w) PROVE TypeInv'
  <2>1. worker' \in [Worker -> WorkerState] /\ Holding'
    BY <1>6, GotoMoves DEF recordTransitionAudit, PC
  <2>2. audit' \subseteq Event \X AuditAction
    BY <1>6 DEF recordTransitionAudit, AuditAction
  <2> QED
    BY <1>6, <2>1, <2>2 DEF recordTransitionAudit
<1>7. ASSUME NEW w \in Worker, detectAndRecordConflict(w) PROVE TypeInv'
  <2>1. worker[w].event \in Event
    BY <1>7 DEF detectAndRecordConflict
  <2>2. exceptions' \subseteq ExceptionType \X Event
    BY <1>7, <2>1 DEF detectAndRecordConflict, Record
  <2>3. worker' \in [Worker -> WorkerState] /\ Holding'
    <3>1. Goto(w, "processed")
      BY <1>7 DEF detectAndRecordConflict
    <3>2. "processed" \in PC \ {"transition"}
      BY DEF PC
    <3> QED
      BY <2>1, <3>1, <3>2, MovesOn
  <2> QED
    BY <1>7, <2>2, <2>3 DEF detectAndRecordConflict
<1>8. ASSUME NEW w \in Worker, postPaymentCleared(w) PROVE TypeInv'
  <2>1. /\ worker[w].event \in Event
        /\ PaymentOf[worker[w].event] \in Payment
        /\ AmountOf[PaymentOf[worker[w].event]] \in Nat
        /\ FeeIn[worker[w].event] \in Nat
        /\ PlatformFee \in Nat
    BY <1>8, <1>0, ConstantsAssumption DEF postPaymentCleared, PlatformFee
  <2>2. ClearedPlan(Target(w), AmountOf[Target(w)], FeeIn[worker[w].event],
                    PlatformFee) \in Entry(Payment)
    BY <2>1, PlanType
  <2>3. AfterLedger(worker[w].event) \in PC \ {"idle", "transition"}
    BY DEF AfterLedger, PC
  <2>4. worker' \in [Worker -> WorkerState] /\ Holding'
    <3>1. \/ \E pc \in PC \ {"transition"} : Goto(w, pc)
          \/ \E en \in Entry(Payment) : Insert(w, en)
      BY <1>8, <2>2, <2>3 DEF postPaymentCleared, PC
    <3> QED
      BY <2>1, <3>1, MovesOn
  <2> QED
    BY <1>8, <2>4 DEF postPaymentCleared
<1>9. ASSUME NEW w \in Worker, reversePayment(w) PROVE TypeInv'
  <2>1. worker[w].event \in Event /\ PaymentOf[worker[w].event] \in Payment
    BY <1>9, <1>0 DEF reversePayment
  <2>2. ReversalEntryOf(TypeOf[worker[w].event]) \in ReversalType
    BY DEF ReversalEntryOf, ReversalType
  <2>3. Posted(ledger, Target(w), "payment_cleared") =>
          ReversalPlan(ledger, Target(w),
                       ReversalEntryOf(TypeOf[worker[w].event]))
            \in Entry(Payment)
    BY <2>1, <2>2, PlanType
  <2>4. AfterLedger(worker[w].event) \in PC \ {"idle", "transition"}
    BY DEF AfterLedger, PC
  <2>5. worker' \in [Worker -> WorkerState] /\ Holding'
    <3>1. \/ \E pc \in PC \ {"transition"} : Goto(w, pc)
          \/ \E en \in Entry(Payment) : Insert(w, en)
      BY <1>9, <2>3, <2>4 DEF reversePayment, PC
    <3> QED
      BY <2>1, <3>1, MovesOn
  <2> QED
    BY <1>9, <2>5 DEF reversePayment
<1>10. ASSUME NEW w \in Worker, NoLedgerEntry(w) PROVE TypeInv'
  <2>1. worker' \in [Worker -> WorkerState] /\ Holding'
    BY <1>10, GotoMoves DEF NoLedgerEntry, PC
  <2> QED
    BY <1>10, <2>1 DEF NoLedgerEntry
<1>11. ASSUME NEW w \in Worker, postPayout(w) PROVE TypeInv'
  <2>1. worker[w].event \in Event /\ PaymentOf[worker[w].event] \in Payment
    BY <1>11, <1>0 DEF postPayout
  <2>2. CanPayOut(ledger, Target(w)) =>
          PayoutPlan(ledger, Target(w)) \in Entry(Payment)
    BY <2>1, PlanType DEF CanPayOut
  <2>3. worker' \in [Worker -> WorkerState] /\ Holding'
    <3>1. \/ \E pc \in PC \ {"transition"} : Goto(w, pc)
          \/ \E en \in Entry(Payment) : Insert(w, en)
      BY <1>11, <2>1, <2>2 DEF postPayout, PC
    <3> QED
      BY <2>1, <3>1, MovesOn
  <2> QED
    BY <1>11, <2>3 DEF postPayout
<1>12. ASSUME NEW w \in Worker, insertEntry(w) PROVE TypeInv'
  <2>1. ledger' \subseteq Entry(Payment)
    <3>1. worker[w].plan \subseteq Entry(Payment)
      BY DEF WorkerState
    <3> QED
      BY <1>12, <3>1 DEF insertEntry, InsertIdempotently
  <2>2. AfterLedger(worker[w].event) \in PC \ {"idle", "transition"}
    BY DEF AfterLedger, PC
  <2>3. worker' \in [Worker -> WorkerState] /\ Holding'
    BY ZenonT(60), <1>12, <2>2, InsertedMoves DEF insertEntry
  <2> QED
    BY <1>12, <2>1, <2>3 DEF insertEntry
<1>13. ASSUME NEW w \in Worker, markPayoutCompleted(w) PROVE TypeInv'
  <2>1. worker' \in [Worker -> WorkerState] /\ Holding'
    BY <1>13, GotoMoves DEF markPayoutCompleted, PC
  <2>2. payment' \in [Payment -> PaymentRow]
    BY <1>13, ZenonT(60) DEF markPayoutCompleted, PaymentRow
  <2> QED
    BY <1>13, <2>1, <2>2 DEF markPayoutCompleted
<1>14. ASSUME NEW w \in Worker, recordPayoutAudit(w) PROVE TypeInv'
  <2>1. worker' \in [Worker -> WorkerState] /\ Holding'
    BY <1>14, GotoMoves DEF recordPayoutAudit, PC
  <2>2. audit' \subseteq Event \X AuditAction
    BY <1>14 DEF recordPayoutAudit, AuditAction
  <2> QED
    BY <1>14, <2>1, <2>2 DEF recordPayoutAudit
<1>15. ASSUME NEW w \in Worker, evaluateSuccessEffectDisposition(w)
      PROVE  TypeInv'
  <2>1. worker' \in [Worker -> WorkerState] /\ Holding'
    BY <1>15, GotoMoves DEF evaluateSuccessEffectDisposition, PC
  <2> QED
    BY <1>15, <2>1 DEF evaluateSuccessEffectDisposition
<1>16. ASSUME NEW w \in Worker, coordinateSuccess(w) PROVE TypeInv'
  <2>1. worker' \in [Worker -> WorkerState] /\ Holding'
    BY ZenonT(60), <1>16, GotoMoves DEF coordinateSuccess, PC
  <2>2. installment' \in
          [Installment -> {"scheduled", "past_due", "paid", "waived"}]
    BY <1>16 DEF coordinateSuccess, UnpaidStatus
  <2>3. retry' \in [Payment -> {"none", "scheduled", "canceled"}]
    BY <1>16 DEF coordinateSuccess
  <2> QED
    BY <1>16, <2>1, <2>2, <2>3 DEF coordinateSuccess
<1>17. ASSUME NEW w \in Worker, coordinateFailure(w) PROVE TypeInv'
  <2>1. worker' \in [Worker -> WorkerState] /\ Holding'
    BY ZenonT(60), <1>17, GotoMoves DEF coordinateFailure, PC
  <2>2. installment' \in
          [Installment -> {"scheduled", "past_due", "paid", "waived"}]
    BY <1>17 DEF coordinateFailure
  <2>3. retry' \in [Payment -> {"none", "scheduled", "canceled"}]
    BY <1>17 DEF coordinateFailure
  <2> QED
    BY <1>17, <2>1, <2>2, <2>3 DEF coordinateFailure
<1>18. ASSUME NEW w \in Worker, coordinateSupersession(w) PROVE TypeInv'
  <2>1. worker' \in [Worker -> WorkerState] /\ Holding'
    BY ZenonT(60), <1>18, GotoMoves DEF coordinateSupersession, PC
  <2>2. installment' \in
          [Installment -> {"scheduled", "past_due", "paid", "waived"}]
    BY <1>18 DEF coordinateSupersession, UnpaidStatus
  <2>3. audit' \subseteq Event \X AuditAction
    BY <1>18 DEF coordinateSupersession, AuditAction
  <2> QED
    BY <1>18, <2>1, <2>2, <2>3 DEF coordinateSupersession
<1>19. ASSUME NEW w \in Worker, decideAndApply(w) PROVE TypeInv'
  <2>1. worker' \in [Worker -> WorkerState] /\ Holding'
    BY <1>19, GotoMoves DEF decideAndApply, PC
  <2>2. agreement' \in
          {"first_payment_pending", "active", "past_due", "paid_in_full"}
    BY <1>19 DEF decideAndApply
  <2> QED
    BY <1>19, <2>1, <2>2 DEF decideAndApply
<1>20. ASSUME NEW w \in Worker, markLifecycleChecked(w) PROVE TypeInv'
  <2>1. worker' \in [Worker -> WorkerState] /\ Holding'
    BY <1>20, GotoMoves DEF markLifecycleChecked, PC
  <2>2. payment' \in [Payment -> PaymentRow]
    BY <1>20, ZenonT(60) DEF markLifecycleChecked, PaymentRow
  <2> QED
    BY <1>20, <2>1, <2>2 DEF markLifecycleChecked
<1>21. ASSUME NEW w \in Worker, recomputeAfterSupersession(w) PROVE TypeInv'
  <2>1. worker' \in [Worker -> WorkerState] /\ Holding'
    BY <1>21, GotoMoves DEF recomputeAfterSupersession, PC
  <2>2. agreement' \in
          {"first_payment_pending", "active", "past_due", "paid_in_full"}
    BY <1>21 DEF recomputeAfterSupersession
  <2>3. audit' \subseteq Event \X AuditAction
    BY <1>21 DEF recomputeAfterSupersession, AuditAction
  <2> QED
    BY <1>21, <2>1, <2>2, <2>3 DEF recomputeAfterSupersession
<1>22. ASSUME NEW w \in Worker, markProcessed(w) PROVE TypeInv'
  <2>1. event' \in [Event -> EventRow]
    BY ZenonT(60), <1>22 DEF markProcessed, Finalize, EventRow
  <2>2. worker' \in [Worker -> WorkerState] /\ Holding'
    BY <1>22, IdleMoves DEF markProcessed, Finalize
  <2> QED
    BY <1>22, <2>1, <2>2 DEF markProcessed, Finalize
<1>23. ASSUME NEW w \in Worker, markFailedRetryable(w) PROVE TypeInv'
  <2>1. event' \in [Event -> EventRow]
    BY ZenonT(60), <1>23 DEF markFailedRetryable, Finalize, EventRow
  <2>2. worker' \in [Worker -> WorkerState] /\ Holding'
    BY <1>23, IdleMoves DEF markFailedRetryable, Finalize
  <2> QED
    BY <1>23, <2>1, <2>2 DEF markFailedRetryable, Finalize
<1>24. ASSUME NEW w \in Worker, markFailedPermanent(w) PROVE TypeInv'
  <2>1. event' \in [Event -> EventRow]
    BY ZenonT(60), <1>24 DEF markFailedPermanent, Finalize, EventRow
  <2>2. worker' \in [Worker -> WorkerState] /\ Holding'
    BY <1>24, IdleMoves DEF markFailedPermanent, Finalize
  <2> QED
    BY <1>24, <2>1, <2>2 DEF markFailedPermanent, Finalize
<1>25. ASSUME NEW w \in Worker, Crash(w) PROVE TypeInv'
  <2>1. worker' \in [Worker -> WorkerState] /\ Holding'
    BY <1>25, IdleMoves DEF Crash
  <2>2. faults' \in 0..MaxFaults
    BY <1>25, ConstantsAssumption DEF Crash
  <2> QED
    BY <1>25, <2>1, <2>2 DEF Crash
<1>26. ASSUME NEW w \in Worker, TransientError(w) PROVE TypeInv'
  <2>1. worker' \in [Worker -> WorkerState] /\ Holding'
    BY <1>26, GotoMoves DEF TransientError, Working, PC
  <2>2. faults' \in 0..MaxFaults
    BY <1>26, ConstantsAssumption DEF TransientError
  <2> QED
    BY <1>26, <2>1, <2>2 DEF TransientError
<1>27. ASSUME NEW e \in Event, LeaseExpires(e) PROVE TypeInv'
  <2>1. event' \in [Event -> EventRow]
    <3>1. event' = [event EXCEPT ![e].lease = FALSE]
      BY <1>27 DEF LeaseExpires
    <3> QED
      BY ZenonT(60), <3>1 DEF EventRow
  <2>2. faults' \in 0..MaxFaults
    BY <1>27, ConstantsAssumption DEF LeaseExpires
  <2> QED
    BY <1>27, <2>1, <2>2 DEF LeaseExpires
<1>28. ASSUME NEW e \in Event, BackoffElapses(e) PROVE TypeInv'
  <2>1. event' \in [Event -> EventRow]
    BY <1>28 DEF BackoffElapses, EventRow
  <2> QED
    BY <1>28, <2>1 DEF BackoffElapses
<1>29. ASSUME NEW i \in Installment, DueDatePasses(i) PROVE TypeInv'
  BY <1>29 DEF DueDatePasses
<1>30. ASSUME NEW p \in Payment, PersistProviderPaymentId(p) PROVE TypeInv'
  <2>1. payment' \in [Payment -> PaymentRow]
    BY ZenonT(60), <1>30
    DEF PersistProviderPaymentId, PaymentRow, PaymentAttemptStatus
  <2> QED
    BY <1>30, <2>1 DEF PersistProviderPaymentId
<1>31. CASE UNCHANGED vars
  BY <1>31 DEF vars
<1> QED
  BY <1>1, <1>2, <1>3, <1>4, <1>5, <1>6, <1>7, <1>8, <1>9, <1>10, <1>11,
     <1>12, <1>13, <1>14, <1>15, <1>16, <1>17, <1>18, <1>19, <1>20, <1>21,
     <1>22, <1>23, <1>24, <1>25, <1>26, <1>27, <1>28, <1>29, <1>30, <1>31
  DEF Next, Step

\* Initially nobody holds anything.
LEMMA TypeInvInit == Init => TypeInv
<1> SUFFICES ASSUME Init PROVE TypeInv
  OBVIOUS
<1>1. NoRow \in EventRow /\ Idle \in WorkerState
  BY DEF NoRow, EventRow, Idle, WorkerState, PC
<1>2. [status |-> "submitted", id |-> FALSE, payoutCompleted |-> FALSE,
       lifecycleChecked |-> FALSE] \in PaymentRow
  BY DEF PaymentRow, PaymentAttemptStatus
<1>3. event \in [Event -> EventRow] /\ worker \in [Worker -> WorkerState]
  BY <1>1 DEF Init
<1>4. payment \in [Payment -> PaymentRow]
  BY <1>2 DEF Init
<1>5. Holding
  BY DEF Init, Holding, Idle
<1> QED
  BY <1>3, <1>4, <1>5, ConstantsAssumption DEF Init, TypeInv, TypeOK

\* Every row, worker, payment, entry, audit row and exception keeps its type,
\* whatever the order of claims, steps and faults.
THEOREM TypeCorrect == Spec => []TypeOK
<1>1. TypeInv => TypeOK
  BY DEF TypeInv
<1> QED
  BY <1>1, TypeInvInit, TypeInvStep, PTL DEF Spec

------------------------------------------------------------------------------
\* The kinds of steps, as far as rows, claims, markers and payment statuses
\* are concerned.

PaymentsKept ==
  \A p \in Payment : /\ payment'[p].status = payment[p].status
                     /\ payment'[p].id = payment[p].id

OthersKept(w) == \A v \in Worker : v # w => worker'[v] = worker[v]

\* w goes on with its event; it goes to the transition only from the lookup.
Advances(w) ==
  /\ event' = event /\ PaymentsKept /\ OthersKept(w)
  /\ worker[w].pc # "idle" /\ worker'[w].pc # "idle"
  /\ worker'[w].event = worker[w].event
  /\ worker'[w].owner = worker[w].owner
  /\ worker'[w].from = worker[w].from
  /\ worker'[w].pc = "transition" =>
       worker[w].from = "none" /\ payment[PaymentOf[worker[w].event]].id

\* w moves its event's payment and leaves the marker.
Transits(w) ==
  LET e == worker[w].event
      p == PaymentOf[e]
  IN
  /\ worker[w].pc = "transition" /\ worker[w].owner
  /\ payment[p].status \in AllowedSources(Dest(e))
  /\ payment'[p].status = Dest(e) /\ payment'[p].id = payment[p].id
  /\ \A q \in Payment : q # p => payment'[q] = payment[q]
  /\ event'[e].from = payment[p].status /\ event'[e].status = event[e].status
  /\ \A f \in Event : f # e => event'[f] = event[f]
  /\ OthersKept(w)
  /\ worker'[w].pc = "audit"
  /\ worker'[w].event = e
  /\ worker'[w].owner = worker[w].owner
  /\ worker'[w].from = payment[p].status

\* w claims e.
Takes(w, e) ==
  /\ worker[w].pc = "idle"
  /\ event[e].status # "processed"
  /\ event'[e].status = "processing" /\ event'[e].from = event[e].from
  /\ \A f \in Event : f # e => event'[f] = event[f]
  /\ PaymentsKept
  /\ TakeOwnership(w, e)

\* w lets its event go, and writes the row only under its token.
Releases(w) ==
  /\ worker[w].pc # "idle"
  /\ worker' = [worker EXCEPT ![w] = Idle]
  /\ PaymentsKept
  /\ \A f \in Event :
       /\ event'[f].from = event[f].from
       /\ f # worker[w].event \/ ~worker[w].owner => event'[f] = event[f]

\* Time passes for a row that is not processed.
Ticks(e) ==
  /\ worker' = worker /\ PaymentsKept
  /\ event[e].status # "processed"
  /\ event'[e].status = event[e].status /\ event'[e].from = event[e].from
  /\ \A f \in Event : f # e => event'[f] = event[f]

\* The provider's id for p is persisted.
Persists(p) ==
  /\ event' = event /\ worker' = worker
  /\ ~payment[p].id
  /\ payment'[p].id /\ payment'[p].status = "processing"
  /\ \A q \in Payment : q # p => payment'[q] = payment[q]

Rests == event' = event /\ worker' = worker /\ PaymentsKept

StepKind ==
  \/ \E w \in Worker : Advances(w) \/ Transits(w) \/ Releases(w)
  \/ \E w \in Worker, e \in Event : Takes(w, e)
  \/ \E e \in Event : Ticks(e)
  \/ \E p \in Payment : Persists(p)
  \/ Rests

\* Every step is of one of these kinds.
LEMMA StepKinds == TypeInv /\ [Next]_vars => StepKind
<1> SUFFICES ASSUME TypeInv, [Next]_vars PROVE StepKind
  OBVIOUS
<1>a. /\ worker \in [Worker -> WorkerState]
      /\ event \in [Event -> EventRow]
      /\ payment \in [Payment -> PaymentRow]
  BY DEF TypeInv, TypeOK
<1>b. \A w \in Worker : worker[w].pc # "idle" =>
        /\ worker[w].event \in Event
        /\ PaymentOf[worker[w].event] \in Payment
  BY ConstantsAssumption DEF TypeInv, Holding
<1>c. ASSUME event' = event, payment' = payment, worker' = worker PROVE StepKind
  BY <1>c DEF StepKind, Rests, PaymentsKept
<1>d. payment' = payment => PaymentsKept
  BY DEF PaymentsKept
<1>1. ASSUME NEW w \in Worker, NEW e \in Event, tryInsertAndClaim(w, e)
      PROVE  StepKind
  <2>1. /\ event[e].status # "processed"
        /\ event'[e].status = "processing"
        /\ event'[e].from = event[e].from
        /\ \A f \in Event : f # e => event'[f] = event[f]
    BY <1>1, <1>a DEF tryInsertAndClaim, EventRow
  <2> QED
    BY <1>1, <1>d, <2>1 DEF tryInsertAndClaim, Takes, StepKind
<1>2. ASSUME NEW w \in Worker, NEW e \in Event, claimExisting(w, e)
      PROVE  StepKind
  <2>1. /\ event[e].status # "processed"
        /\ event'[e].status = "processing"
        /\ event'[e].from = event[e].from
        /\ \A f \in Event : f # e => event'[f] = event[f]
    BY <1>2, <1>a DEF claimExisting, EventRow, IsEligible
  <2> QED
    BY <1>2, <1>d, <2>1 DEF claimExisting, Takes, StepKind
<1>3. ASSUME NEW w \in Worker, LookupPayment(w) PROVE StepKind
  <2>1. event' = event /\ PaymentsKept /\ worker[w].pc # "idle"
    BY <1>3, <1>d DEF LookupPayment
  <2>2. PICK pc \in PC \ {"idle"} :
          /\ Goto(w, pc)
          /\ pc = "transition" =>
               worker[w].from = "none" /\ payment[PaymentOf[worker[w].event]].id
    BY <1>3, LookupGoes DEF PC
  <2> QED
    BY <1>a, <2>1, <2>2, GotoMoves DEF Advances, OthersKept, StepKind
<1>4. ASSUME NEW w \in Worker, applyTransition(w) PROVE StepKind
  <2> DEFINE e == worker[w].event
             p == PaymentOf[e]
             old == payment[p].status
             next == IF isTransitionPermanentlyIllegal(old, Dest(e))
                       THEN "conflict" ELSE "retryable"
  <2>1. /\ e \in Event /\ p \in Payment
        /\ old \in PaymentAttemptStatus
        /\ Dest(e) \in PaymentAttemptStatus
        /\ worker[w].pc = "transition"
    BY <1>4, <1>a, <1>b, DestType
    DEF applyTransition, Dest, PaymentRow, PaymentAttemptStatus, Superseding,
        TypeInv, Holding
  <2>2. next \in PC \ {"idle", "transition"}
    BY DEF PC
  <2> HIDE DEF next
  <2>3. \/ /\ event' = event /\ payment' = payment
           /\ HavingRead(w, old, next) \/ Goto(w, "retryable")
        \/ /\ old \in AllowedSources(Dest(e))
           /\ MarkTransition(w, old)
           /\ payment' = [payment EXCEPT ![p].status = Dest(e)]
           /\ worker' = [worker EXCEPT ![w].current = Dest(e), ![w].from = old,
                                       ![w].pc = "audit"]
    BY <1>4 DEF applyTransition, EventOf, Target, next
  <2>4. CASE /\ event' = event /\ payment' = payment
             /\ HavingRead(w, old, next) \/ Goto(w, "retryable")
    <3>1. "retryable" \in PC \ {"idle", "transition"}
      BY DEF PC
    <3>2. Advances(w)
      BY <1>a, <1>d, <2>1, <2>2, <2>4, <3>1, ReadMoves, GotoMoves
      DEF Advances, OthersKept
    <3> QED
      BY <3>2 DEF StepKind
  <2>5. CASE /\ old \in AllowedSources(Dest(e))
             /\ MarkTransition(w, old)
             /\ payment' = [payment EXCEPT ![p].status = Dest(e)]
             /\ worker' = [worker EXCEPT ![w].current = Dest(e),
                                         ![w].from = old, ![w].pc = "audit"]
    <3>1. /\ OthersKept(w)
          /\ worker'[w].pc = "audit"
          /\ worker'[w].event = e
          /\ worker'[w].owner = worker[w].owner
          /\ worker'[w].from = old
      <4>1. worker' = [worker EXCEPT ![w].current = Dest(e), ![w].from = old,
                                     ![w].pc = "audit"]
        BY <2>5
      <4> HIDE DEF old
      <4>2. /\ \A v \in Worker : v # w => worker'[v] = worker[v]
            /\ worker'[w].pc = "audit"
            /\ worker'[w].event = worker[w].event
            /\ worker'[w].owner = worker[w].owner
            /\ worker'[w].from = old
        <5>1. PICK s \in PaymentAttemptStatus : s = Dest(e)
          BY <2>1
        <5>2. PICK o \in PaymentAttemptStatus : o = old
          BY <2>1
        <5>3. worker' = [worker EXCEPT ![w].current = s, ![w].from = o,
                                       ![w].pc = "audit"]
          BY <4>1, <5>1, <5>2
        <5> DEFINE row == [worker[w] EXCEPT !.current = s, !.from = o, !.pc = "audit"]
        <5>4. worker' = [worker EXCEPT ![w] = row]
          BY <5>3
        <5>5. /\ row.pc = "audit" /\ row.event = worker[w].event
              /\ row.owner = worker[w].owner /\ row.from = o
          BY <1>a DEF WorkerState
        <5> HIDE DEF row
        <5> QED
          BY <1>a, <5>2, <5>4, <5>5
      <4> QED
        BY <4>2 DEF OthersKept
    <3>2. /\ payment'[p].status = Dest(e) /\ payment'[p].id = payment[p].id
          /\ \A q \in Payment : q # p => payment'[q] = payment[q]
      BY <1>a, <2>1, <2>5 DEF PaymentRow
    <3>3. /\ worker[w].owner
          /\ event'[e].from = old /\ event'[e].status = event[e].status
          /\ \A f \in Event : f # e => event'[f] = event[f]
      BY <1>a, <2>1, <2>5 DEF MarkTransition, EventOf, EventRow
    <3>4. Transits(w)
      BY <2>1, <2>5, <3>1, <3>2, <3>3 DEF Transits
    <3> QED
      BY <3>4 DEF StepKind
  <2> QED
    BY <2>3, <2>4, <2>5
<1>5. ASSUME NEW w \in Worker, RereadPayment(w) PROVE StepKind
  <2>1. event' = event /\ PaymentsKept /\ worker[w].pc # "idle"
    BY <1>5, <1>d DEF RereadPayment
  <2>2. payment[Target(w)].status \in PaymentAttemptStatus /\ "audit" \in PC
    BY <1>5, <1>a, <1>b DEF RereadPayment, Target, EventOf, PaymentRow, PC
  <2> QED
    BY <1>5, <1>a, <2>1, <2>2, ReadMoves
    DEF RereadPayment, Advances, OthersKept, StepKind
<1>6. ASSUME NEW w \in Worker, recordTransitionAudit(w) PROVE StepKind
  <2>1. PICK pc \in PC \ {"idle", "transition"} : Goto(w, pc)
    BY <1>6 DEF recordTransitionAudit, PC
  <2>2. event' = event /\ PaymentsKept /\ worker[w].pc # "idle"
    BY <1>6, <1>d DEF recordTransitionAudit
  <2> QED
    BY <1>a, <2>1, <2>2, GotoMoves DEF Advances, OthersKept, StepKind
<1>7. ASSUME NEW w \in Worker, detectAndRecordConflict(w) PROVE StepKind
  <2>1. PICK pc \in PC \ {"idle", "transition"} : Goto(w, pc)
    BY <1>7 DEF detectAndRecordConflict, PC
  <2>2. event' = event /\ PaymentsKept /\ worker[w].pc # "idle"
    BY <1>7, <1>d DEF detectAndRecordConflict
  <2> QED
    BY <1>a, <2>1, <2>2, GotoMoves DEF Advances, OthersKept, StepKind
<1>8. ASSUME NEW w \in Worker, postPaymentCleared(w) PROVE StepKind
  <2>1. event' = event /\ PaymentsKept /\ worker[w].pc # "idle"
    BY <1>8, <1>d DEF postPaymentCleared
  <2>2. \/ \E pc \in PC \ {"idle", "transition"} : Goto(w, pc)
        \/ \E en : Insert(w, en)
    BY <1>8 DEF postPaymentCleared, PC, AfterLedger
  <2>3. CASE \E pc \in PC \ {"idle", "transition"} : Goto(w, pc)
    BY <1>a, <2>1, <2>3, GotoMoves DEF Advances, OthersKept, StepKind
  <2>4. CASE \E en : Insert(w, en)
    BY <1>a, <2>1, <2>4 DEF Insert, WorkerState, Advances, OthersKept, StepKind
  <2> QED
    BY <2>2, <2>3, <2>4
<1>9. ASSUME NEW w \in Worker, reversePayment(w) PROVE StepKind
  <2>1. event' = event /\ PaymentsKept /\ worker[w].pc # "idle"
    BY <1>9, <1>d DEF reversePayment
  <2>2. \/ \E pc \in PC \ {"idle", "transition"} : Goto(w, pc)
        \/ \E en : Insert(w, en)
    BY <1>9 DEF reversePayment, PC, AfterLedger
  <2>3. CASE \E pc \in PC \ {"idle", "transition"} : Goto(w, pc)
    BY <1>a, <2>1, <2>3, GotoMoves DEF Advances, OthersKept, StepKind
  <2>4. CASE \E en : Insert(w, en)
    BY <1>a, <2>1, <2>4 DEF Insert, WorkerState, Advances, OthersKept, StepKind
  <2> QED
    BY <2>2, <2>3, <2>4
<1>10. ASSUME NEW w \in Worker, NoLedgerEntry(w) PROVE StepKind
  <2>1. PICK pc \in PC \ {"idle", "transition"} : Goto(w, pc)
    BY <1>10 DEF NoLedgerEntry, PC
  <2>2. event' = event /\ PaymentsKept /\ worker[w].pc # "idle"
    BY <1>10, <1>d DEF NoLedgerEntry
  <2> QED
    BY <1>a, <2>1, <2>2, GotoMoves DEF Advances, OthersKept, StepKind
<1>11. ASSUME NEW w \in Worker, postPayout(w) PROVE StepKind
  <2>1. event' = event /\ PaymentsKept /\ worker[w].pc # "idle"
    BY <1>11, <1>d DEF postPayout
  <2>2. \/ \E pc \in PC \ {"idle", "transition"} : Goto(w, pc)
        \/ \E en : Insert(w, en)
    BY <1>11 DEF postPayout, PC, AfterLedger
  <2>3. CASE \E pc \in PC \ {"idle", "transition"} : Goto(w, pc)
    BY <1>a, <2>1, <2>3, GotoMoves DEF Advances, OthersKept, StepKind
  <2>4. CASE \E en : Insert(w, en)
    BY <1>a, <2>1, <2>4 DEF Insert, WorkerState, Advances, OthersKept, StepKind
  <2> QED
    BY <2>2, <2>3, <2>4
<1>12. ASSUME NEW w \in Worker, insertEntry(w) PROVE StepKind
  <2>1. event' = event /\ PaymentsKept /\ worker[w].pc # "idle"
    BY <1>12, <1>d DEF insertEntry
  <2>2. AfterLedger(EventOf(w)) \in PC \ {"idle", "transition"}
    BY DEF AfterLedger, PC
  <2> QED
    BY ZenonT(60), <1>12, <1>a, <2>1, <2>2, InsertedMoves
    DEF insertEntry, Advances, OthersKept, StepKind
<1>13. ASSUME NEW w \in Worker, markPayoutCompleted(w) PROVE StepKind
  <2>1. PICK pc \in PC \ {"idle", "transition"} : Goto(w, pc)
    BY <1>13 DEF markPayoutCompleted, PC
  <2>2. event' = event /\ PaymentsKept /\ worker[w].pc # "idle"
    BY <1>13, <1>a DEF markPayoutCompleted, PaymentsKept, PaymentRow
  <2> QED
    BY <1>a, <2>1, <2>2, GotoMoves DEF Advances, OthersKept, StepKind
<1>14. ASSUME NEW w \in Worker, recordPayoutAudit(w) PROVE StepKind
  <2>1. PICK pc \in PC \ {"idle", "transition"} : Goto(w, pc)
    BY <1>14 DEF recordPayoutAudit, PC
  <2>2. event' = event /\ PaymentsKept /\ worker[w].pc # "idle"
    BY <1>14, <1>d DEF recordPayoutAudit
  <2> QED
    BY <1>a, <2>1, <2>2, GotoMoves DEF Advances, OthersKept, StepKind
<1>15. ASSUME NEW w \in Worker, evaluateSuccessEffectDisposition(w)
      PROVE  StepKind
  <2>1. PICK pc \in PC \ {"idle", "transition"} : Goto(w, pc)
    BY <1>15 DEF evaluateSuccessEffectDisposition, PC
  <2>2. event' = event /\ PaymentsKept /\ worker[w].pc # "idle"
    BY <1>15, <1>d DEF evaluateSuccessEffectDisposition
  <2> QED
    BY <1>a, <2>1, <2>2, GotoMoves DEF Advances, OthersKept, StepKind
<1>16. ASSUME NEW w \in Worker, coordinateSuccess(w) PROVE StepKind
  <2>1. PICK pc \in PC \ {"idle", "transition"} : Goto(w, pc)
    BY <1>16 DEF coordinateSuccess, PC
  <2>2. event' = event /\ PaymentsKept /\ worker[w].pc # "idle"
    BY <1>16, <1>d DEF coordinateSuccess
  <2> QED
    BY <1>a, <2>1, <2>2, GotoMoves DEF Advances, OthersKept, StepKind
<1>17. ASSUME NEW w \in Worker, coordinateFailure(w) PROVE StepKind
  <2>1. PICK pc \in PC \ {"idle", "transition"} : Goto(w, pc)
    BY <1>17 DEF coordinateFailure, PC
  <2>2. event' = event /\ PaymentsKept /\ worker[w].pc # "idle"
    BY <1>17, <1>d DEF coordinateFailure
  <2> QED
    BY <1>a, <2>1, <2>2, GotoMoves DEF Advances, OthersKept, StepKind
<1>18. ASSUME NEW w \in Worker, coordinateSupersession(w) PROVE StepKind
  <2>1. PICK pc \in PC \ {"idle", "transition"} : Goto(w, pc)
    BY <1>18 DEF coordinateSupersession, PC
  <2>2. event' = event /\ PaymentsKept /\ worker[w].pc # "idle"
    BY <1>18, <1>d DEF coordinateSupersession
  <2> QED
    BY <1>a, <2>1, <2>2, GotoMoves DEF Advances, OthersKept, StepKind
<1>19. ASSUME NEW w \in Worker, decideAndApply(w) PROVE StepKind
  <2>1. PICK pc \in PC \ {"idle", "transition"} : Goto(w, pc)
    BY <1>19 DEF decideAndApply, PC
  <2>2. event' = event /\ PaymentsKept /\ worker[w].pc # "idle"
    BY <1>19, <1>d DEF decideAndApply
  <2> QED
    BY <1>a, <2>1, <2>2, GotoMoves DEF Advances, OthersKept, StepKind
<1>20. ASSUME NEW w \in Worker, markLifecycleChecked(w) PROVE StepKind
  <2>1. PICK pc \in PC \ {"idle", "transition"} : Goto(w, pc)
    BY <1>20 DEF markLifecycleChecked, PC
  <2>2. event' = event /\ PaymentsKept /\ worker[w].pc # "idle"
    BY <1>20, <1>a DEF markLifecycleChecked, PaymentsKept, PaymentRow
  <2> QED
    BY <1>a, <2>1, <2>2, GotoMoves DEF Advances, OthersKept, StepKind
<1>21. ASSUME NEW w \in Worker, recomputeAfterSupersession(w) PROVE StepKind
  <2>1. PICK pc \in PC \ {"idle", "transition"} : Goto(w, pc)
    BY <1>21 DEF recomputeAfterSupersession, PC
  <2>2. event' = event /\ PaymentsKept /\ worker[w].pc # "idle"
    BY <1>21, <1>d DEF recomputeAfterSupersession
  <2> QED
    BY <1>a, <2>1, <2>2, GotoMoves DEF Advances, OthersKept, StepKind
<1>22. ASSUME NEW w \in Worker, markProcessed(w) PROVE StepKind
  <2>1. /\ worker[w].pc # "idle"
        /\ worker' = [worker EXCEPT ![w] = Idle]
        /\ payment' = payment
    BY <1>22 DEF markProcessed, Finalize
  <2>2. \A f \in Event :
          /\ event'[f].from = event[f].from
          /\ f # worker[w].event \/ ~worker[w].owner => event'[f] = event[f]
    BY <1>22, <1>a, <1>b DEF markProcessed, Finalize, EventOf, EventRow
  <2> QED
    BY <1>d, <2>1, <2>2 DEF Releases, StepKind
<1>23. ASSUME NEW w \in Worker, markFailedRetryable(w) PROVE StepKind
  <2>1. /\ worker[w].pc # "idle"
        /\ worker' = [worker EXCEPT ![w] = Idle]
        /\ payment' = payment
    BY <1>23 DEF markFailedRetryable, Finalize
  <2>2. \A f \in Event :
          /\ event'[f].from = event[f].from
          /\ f # worker[w].event \/ ~worker[w].owner => event'[f] = event[f]
    BY <1>23, <1>a, <1>b DEF markFailedRetryable, Finalize, EventOf, EventRow
  <2> QED
    BY <1>d, <2>1, <2>2 DEF Releases, StepKind
<1>24. ASSUME NEW w \in Worker, markFailedPermanent(w) PROVE StepKind
  <2>1. /\ worker[w].pc # "idle"
        /\ worker' = [worker EXCEPT ![w] = Idle]
        /\ payment' = payment
    BY <1>24 DEF markFailedPermanent, Finalize
  <2>2. \A f \in Event :
          /\ event'[f].from = event[f].from
          /\ f # worker[w].event \/ ~worker[w].owner => event'[f] = event[f]
    BY <1>24, <1>a, <1>b DEF markFailedPermanent, Finalize, EventOf, EventRow
  <2> QED
    BY <1>d, <2>1, <2>2 DEF Releases, StepKind
<1>25. ASSUME NEW w \in Worker, Crash(w) PROVE StepKind
  BY <1>25, <1>d DEF Crash, Releases, StepKind
<1>26. ASSUME NEW w \in Worker, TransientError(w) PROVE StepKind
  <2>1. PICK pc \in PC \ {"idle", "transition"} : Goto(w, pc)
    BY <1>26 DEF TransientError, PC
  <2>2. event' = event /\ PaymentsKept /\ worker[w].pc # "idle"
    BY <1>26, <1>d DEF TransientError, Working
  <2> QED
    BY <1>a, <2>1, <2>2, GotoMoves DEF Advances, OthersKept, StepKind
<1>27. ASSUME NEW e \in Event, LeaseExpires(e) PROVE StepKind
  <2>1. /\ event[e].status # "processed"
        /\ event' = [event EXCEPT ![e].lease = FALSE]
        /\ worker' = worker /\ payment' = payment
    BY <1>27 DEF LeaseExpires
  <2> QED
    BY <1>a, <1>d, <2>1 DEF EventRow, Ticks, StepKind
<1>28. ASSUME NEW e \in Event, BackoffElapses(e) PROVE StepKind
  <2>1. /\ event[e].status # "processed"
        /\ event' = [event EXCEPT ![e].retryAt = "due"]
        /\ worker' = worker /\ payment' = payment
    BY <1>28 DEF BackoffElapses
  <2> QED
    BY <1>a, <1>d, <2>1 DEF EventRow, Ticks, StepKind
<1>29. ASSUME NEW i \in Installment, DueDatePasses(i) PROVE StepKind
  BY <1>29, <1>c DEF DueDatePasses
<1>30. ASSUME NEW p \in Payment, PersistProviderPaymentId(p) PROVE StepKind
  <2>1. /\ payment'[p].id /\ payment'[p].status = "processing"
        /\ \A q \in Payment : q # p => payment'[q] = payment[q]
    BY <1>30, <1>a DEF PersistProviderPaymentId, PaymentRow
  <2> QED
    BY <1>30, <2>1 DEF PersistProviderPaymentId, Persists, StepKind
<1>31. CASE UNCHANGED vars
  BY <1>31, <1>c DEF vars
<1> QED
  BY <1>1, <1>2, <1>3, <1>4, <1>5, <1>6, <1>7, <1>8, <1>9, <1>10, <1>11,
     <1>12, <1>13, <1>14, <1>15, <1>16, <1>17, <1>18, <1>19, <1>20, <1>21,
     <1>22, <1>23, <1>24, <1>25, <1>26, <1>27, <1>28, <1>29, <1>30, <1>31
  DEF Next, Step

------------------------------------------------------------------------------
\* Claims.

\* Fenced is inductive: a claim takes the token from everybody else, and only
\* the owner's finalization takes a row out of processing.
LEMMA FencedStep == TypeInv /\ TypeInv' /\ Fenced /\ StepKind => Fenced'
<1> SUFFICES ASSUME TypeInv, TypeInv', Fenced, StepKind PROVE Fenced'
  OBVIOUS
<1>a. /\ worker \in [Worker -> WorkerState]
      /\ event \in [Event -> EventRow]
  BY DEF TypeInv, TypeOK
<1>b. \A w \in Worker : worker[w].pc # "idle" => worker[w].event \in Event
  BY DEF TypeInv, Holding
<1>1. ASSUME NEW w \in Worker, Advances(w) PROVE Fenced'
  BY <1>1 DEF Fenced, Advances, OthersKept
<1>2. ASSUME NEW w \in Worker, Transits(w) PROVE Fenced'
  <2>1. \A f \in Event : event'[f].status = event[f].status
    BY <1>2 DEF Transits
  <2> QED
    BY <1>2, <1>b, <2>1 DEF Fenced, Transits, OthersKept
<1>3. ASSUME NEW w \in Worker, Releases(w) PROVE Fenced'
  <2>1. /\ ~worker'[w].owner
        /\ \A v \in Worker : v # w => worker'[v] = worker[v]
    BY <1>3, <1>a, IdleMoves DEF Releases
  <2>2. \A v \in Worker : v # w /\ worker[v].owner =>
          event'[worker[v].event] = event[worker[v].event]
    BY <1>3, <1>b DEF Releases, Fenced
  <2> QED
    BY <2>1, <2>2 DEF Fenced
<1>4. ASSUME NEW w \in Worker, NEW e \in Event, Takes(w, e) PROVE Fenced'
  <2>1. TakeOwnership(w, e)
    BY <1>4 DEF Takes
  <2>2. \A v \in Worker : v # w /\ worker'[v].owner =>
          /\ worker[v].owner /\ worker[v].event # e
          /\ worker'[v].event = worker[v].event
          /\ worker'[v].pc = worker[v].pc
    BY <1>a, <2>1, ClaimMoves
  <2>3. worker'[w].pc = "lookup" /\ worker'[w].event = e
    BY <1>a, <2>1, ClaimMoves
  <2> QED
    BY <1>4, <1>b, <2>2, <2>3 DEF Fenced, Takes
<1>5. ASSUME NEW e \in Event, Ticks(e) PROVE Fenced'
  <2>1. \A f \in Event : event'[f].status = event[f].status
    BY <1>5 DEF Ticks
  <2> QED
    BY <1>5, <1>b, <2>1 DEF Fenced, Ticks
<1>6. ASSUME NEW p \in Payment, Persists(p) PROVE Fenced'
  BY <1>6 DEF Fenced, Persists
<1>7. CASE Rests
  BY <1>7 DEF Fenced, Rests
<1> QED
  BY <1>1, <1>2, <1>3, <1>4, <1>5, <1>6, <1>7 DEF StepKind

\* Initially nobody has a token.
LEMMA FencedInit == Init => Fenced
BY DEF Init, Fenced, Idle

\* Once an event is processed its row never changes again: a finalization
\* that comes after another worker took the row over, a redelivery, an expired
\* lease and an elapsed backoff all leave it alone.
THEOREM ProcessedForGood == Spec => ProcessedIsFinal
<1>1. Init => TypeInv /\ Fenced
  BY TypeInvInit, FencedInit
<1>2. TypeInv /\ Fenced /\ [Next]_vars => (TypeInv /\ Fenced)'
  BY SMTT(30), TypeInvStep, StepKinds, FencedStep
<1>3. TypeInv /\ Fenced /\ [Next]_vars =>
        [\A e \in Event : event[e].status = "processed" =>
                            event'[e] = event[e]]_vars
  <2> SUFFICES ASSUME TypeInv, Fenced, [Next]_vars,
                      NEW e \in Event, event[e].status = "processed"
               PROVE  event'[e] = event[e]
    OBVIOUS
  <2>1. StepKind
    BY StepKinds
  <2> QED
    BY <2>1 DEF StepKind, Advances, Transits, Releases, Takes, Ticks, Persists,
                Rests, Fenced
<1> QED
  BY <1>1, <1>2, <1>3, PTL DEF Spec, ProcessedIsFinal

------------------------------------------------------------------------------
\* Authorship.

\* No status is both unresolved, settled or superseding.
LEMMA StatusesApart ==
  /\ Unresolved \cap ({"succeeded", "failed", "none"} \cup Superseding) = {}
  /\ {"succeeded", "failed", "none"} \cap Superseding = {}
  /\ "submitted" \in Unresolved /\ "processing" \in Unresolved
BY DEF Unresolved, Superseding

\* What a status may come from.
LEMMA SourcesOf ==
  /\ \A d \in {"succeeded", "failed"} : AllowedSources(d) = Unresolved
  /\ \A d \in Superseding : AllowedSources(d) = {"succeeded"}
BY DEF AllowedSources, Superseding

\* Unmarked is inductive: a row's marker is written by its owner alone, who
\* has seen that there is none.
LEMMA UnmarkedStep ==
  TypeInv /\ TypeInv' /\ Fenced /\ Unmarked /\ StepKind => Unmarked'
<1> SUFFICES ASSUME TypeInv, TypeInv', Fenced, Unmarked, StepKind
             PROVE  Unmarked'
  OBVIOUS
<1>a. /\ worker \in [Worker -> WorkerState]
      /\ event \in [Event -> EventRow]
  BY DEF TypeInv, TypeOK
<1>b. \A w \in Worker : worker[w].pc # "idle" =>
        worker[w].event \in Event /\ PaymentOf[worker[w].event] \in Payment
  BY ConstantsAssumption DEF TypeInv, Holding
<1>c. \A w \in Worker : worker[w].owner => worker[w].pc # "idle"
  BY DEF Fenced
<1>1. ASSUME NEW w \in Worker, Advances(w) PROVE Unmarked'
  BY <1>1, <1>b DEF Unmarked, Advances, OthersKept, PaymentsKept
<1>2. ASSUME NEW w \in Worker, Transits(w) PROVE Unmarked'
  <2>1. \A p \in Payment : payment'[p].id = payment[p].id
    BY <1>2 DEF Transits
  <2>2. \A v \in Worker : v # w /\ worker[v].owner =>
          event'[worker[v].event] = event[worker[v].event]
    BY <1>2, <1>b DEF Transits, Fenced
  <2> QED
    <3>1. ASSUME NEW v \in Worker, v # w
          PROVE  /\ worker'[v].owner => worker'[v].from = event'[worker'[v].event].from
                 /\ worker'[v].pc = "transition" =>
                      /\ worker'[v].from = "none"
                      /\ payment'[PaymentOf[worker'[v].event]].id
      <4>1. worker'[v] = worker[v]
        BY <1>2, <3>1 DEF Transits, OthersKept
      <4> QED
        BY <1>b, <2>1, <2>2, <3>1, <4>1 DEF Unmarked
    <3>2. worker'[w].pc = "audit" /\ worker'[w].from = event'[worker'[w].event].from
      BY <1>2 DEF Transits
    <3> QED
      BY <3>1, <3>2 DEF Unmarked
<1>3. ASSUME NEW w \in Worker, Releases(w) PROVE Unmarked'
  <2>1. /\ worker'[w].pc = "idle" /\ ~worker'[w].owner
        /\ \A v \in Worker : v # w => worker'[v] = worker[v]
    BY <1>3, <1>a, IdleMoves DEF Releases
  <2>2. \A f \in Event : event'[f].from = event[f].from
    BY <1>3 DEF Releases
  <2> QED
    BY <1>3, <1>b, <1>c, <2>1, <2>2 DEF Unmarked, Releases, PaymentsKept
<1>4. ASSUME NEW w \in Worker, NEW e \in Event, Takes(w, e) PROVE Unmarked'
  <2>1. TakeOwnership(w, e)
    BY <1>4 DEF Takes
  <2>2. \A v \in Worker : v # w =>
          /\ worker'[v].event = worker[v].event
          /\ worker'[v].pc = worker[v].pc
          /\ worker'[v].from = worker[v].from
          /\ worker'[v].owner => worker[v].owner
    BY <1>a, <2>1, ClaimMoves
  <2>3. /\ worker'[w].pc = "lookup" /\ worker'[w].event = e
        /\ worker'[w].from = event[e].from
    BY <1>a, <2>1, ClaimMoves
  <2>4. \A f \in Event : event'[f].from = event[f].from
    BY <1>4 DEF Takes
  <2> QED
    BY <1>4, <1>b, <1>c, <2>2, <2>3, <2>4 DEF Unmarked, Takes, PaymentsKept
<1>5. ASSUME NEW e \in Event, Ticks(e) PROVE Unmarked'
  <2>1. \A f \in Event : event'[f].from = event[f].from
    BY <1>5 DEF Ticks
  <2> QED
    BY <1>5, <1>b, <1>c, <2>1 DEF Unmarked, Ticks, PaymentsKept
<1>6. ASSUME NEW p \in Payment, Persists(p) PROVE Unmarked'
  BY <1>6, <1>b DEF Unmarked, Persists
<1>7. CASE Rests
  BY <1>7, <1>b DEF Unmarked, Rests, PaymentsKept
<1> QED
  BY <1>1, <1>2, <1>3, <1>4, <1>5, <1>6, <1>7 DEF StepKind

\* A step that keeps the markers and the statuses keeps who wrote what.
LEMMA AuthorsKept ==
  ASSUME StatusHasOneAuthor, PaymentsKept,
         \A f \in Event : event'[f].from = event[f].from
  PROVE  StatusHasOneAuthor'
<1>1. \A e \in Event, p \in Payment : IsAuthor(e, p)' <=> IsAuthor(e, p)
  BY DEF IsAuthor
<1> QED
  BY <1>1 DEF StatusHasOneAuthor, HasItsAuthors, PaymentsKept, Dest

\* A transition adds its event to the authors of its payment, and to no
\* other's.
LEMMA TransitAuthor ==
  ASSUME AuthorInv, NEW w \in Worker, Transits(w)
  PROVE  StatusHasOneAuthor'
<1>1. PICK e \in Event : /\ e = worker[w].event
                         /\ TypeOf[e] \in DOMAIN EventTypeToStatus
  BY DEF AuthorInv, TypeInv, Holding, Transits
<1> DEFINE p == PaymentOf[e]
<1>2. PICK old \in PaymentAttemptStatus : old = payment[p].status
  BY <1>1, ConstantsAssumption DEF AuthorInv, TypeInv, TypeOK, PaymentRow
<1>3. /\ event'[e].from = old
      /\ payment'[p].status = Dest(e)
      /\ old \in AllowedSources(Dest(e))
      /\ \A f \in Event : f # e => event'[f] = event[f]
      /\ \A q \in Payment : q # p => payment'[q] = payment[q]
  BY <1>1, <1>2 DEF Transits
<1>4. event[e].from = "none" /\ p \in Payment
  BY <1>1, ConstantsAssumption DEF AuthorInv, Unmarked, Transits
<1>5. old # "none" /\ Dest(e) \in {"succeeded", "failed"} \cup Superseding
  BY <1>1, DestType DEF Dest, PaymentAttemptStatus
<1>6. IsAuthor(e, p)'
  BY <1>1, <1>3, <1>5 DEF IsAuthor
<1>7. ~IsAuthor(e, p)
  BY <1>4 DEF IsAuthor
<1>8. \A f \in Event : f # e => (IsAuthor(f, p)' <=> IsAuthor(f, p))
  BY <1>3 DEF IsAuthor
<1>9. ASSUME NEW q \in Payment, q # p PROVE HasItsAuthors(q)'
  <2>1. \A f \in Event : IsAuthor(f, q)' <=> IsAuthor(f, q)
    BY <1>3, <1>9 DEF IsAuthor
  <2>2. \A f \in Event : IsAuthor(f, q) => event'[f].from = event[f].from
    BY <1>3, <1>9 DEF IsAuthor
  <2>3. HasItsAuthors(q) /\ payment'[q] = payment[q]
    BY <1>3, <1>9 DEF AuthorInv, StatusHasOneAuthor
  <2> QED
    BY <2>1, <2>2, <2>3 DEF HasItsAuthors, Dest
<1>10. HasItsAuthors(p)'
  <2>1. HasItsAuthors(p)
    BY <1>4 DEF AuthorInv, StatusHasOneAuthor
  <2>2. CASE Dest(e) \in {"succeeded", "failed"}
    <3>1. old \in Unresolved /\ Dest(e) \notin Superseding \cup Unresolved
      BY <1>3, <2>2, StatusesApart, SourcesOf
    <3>2. \A f \in Event : ~IsAuthor(f, p)
      BY <1>2, <2>1, <3>1 DEF HasItsAuthors
    <3> QED
      BY <1>3, <1>6, <1>8, <2>2, <3>1, <3>2 DEF HasItsAuthors, Dest
  <2>3. CASE Dest(e) \in Superseding
    <3>1. /\ old = "succeeded"
          /\ Dest(e) \notin {"succeeded", "failed"} \cup Unresolved
      BY <1>3, <2>3, StatusesApart, SourcesOf
    <3>2. PICK g \in Event : /\ IsAuthor(g, p) /\ Dest(g) = "succeeded"
                             /\ event[g].from \in Unresolved
                             /\ \A f \in Event : IsAuthor(f, p) => f = g
      BY <1>2, <2>1, <3>1 DEF HasItsAuthors
    <3>3. /\ g # e /\ IsAuthor(g, p)' /\ event'[g].from \in Unresolved
          /\ \A f \in Event : IsAuthor(f, p)' => f \in {e, g}
      BY <1>3, <1>7, <1>8, <3>2
    <3> QED
      BY <1>3, <1>6, <2>3, <3>1, <3>2, <3>3 DEF HasItsAuthors, Dest
  <2> QED
    BY <1>5, <2>2, <2>3
<1> QED
  BY <1>9, <1>10 DEF StatusHasOneAuthor

\* Submission writes a status nobody claims, into a payment nobody moved.
LEMMA PersistAuthor ==
  ASSUME AuthorInv, NEW p \in Payment, Persists(p)
  PROVE  StatusHasOneAuthor'
<1>1. \A e \in Event, q \in Payment : IsAuthor(e, q)' <=> IsAuthor(e, q)
  BY DEF IsAuthor, Persists
<1>2. ASSUME NEW q \in Payment, q # p PROVE HasItsAuthors(q)'
  BY <1>1, <1>2 DEF AuthorInv, StatusHasOneAuthor, HasItsAuthors, Persists, Dest
<1>3. HasItsAuthors(p)'
  <2>1. HasItsAuthors(p) /\ payment[p].status \in Unresolved
    BY StatusesApart DEF AuthorInv, StatusHasOneAuthor, Submitted, Persists
  <2>2. \A e \in Event : ~IsAuthor(e, p)'
    BY <1>1, <2>1 DEF HasItsAuthors
  <2> QED
    BY <2>2, StatusesApart DEF HasItsAuthors, Persists
<1> QED
  BY <1>2, <1>3 DEF StatusHasOneAuthor

\* AuthorInv is inductive.
LEMMA AuthorInvStep == AuthorInv /\ [Next]_vars => AuthorInv'
<1> SUFFICES ASSUME AuthorInv, [Next]_vars PROVE AuthorInv'
  OBVIOUS
<1>1. TypeInv' /\ StepKind
  BY TypeInvStep, StepKinds DEF AuthorInv
<1>2. Fenced' /\ Unmarked'
  BY <1>1, FencedStep, UnmarkedStep DEF AuthorInv
<1>3. Submitted'
  <2>1. ASSUME NEW w \in Worker, Transits(w) PROVE Submitted'
    BY <2>1 DEF AuthorInv, Unmarked, Submitted, Transits
  <2> QED
    BY <1>1, <2>1 DEF AuthorInv, Submitted, StepKind, Advances, Releases, Takes,
                      Ticks, Persists, Rests, PaymentsKept
<1>4. StatusHasOneAuthor'
  <2>1. CASE /\ PaymentsKept
             /\ \A f \in Event : event'[f].from = event[f].from
    BY <2>1, AuthorsKept DEF AuthorInv
  <2>2. ASSUME NEW w \in Worker, Advances(w) \/ Releases(w)
        PROVE  StatusHasOneAuthor'
    BY <2>1, <2>2 DEF Advances, Releases
  <2>3. ASSUME NEW w \in Worker, NEW e \in Event, Takes(w, e)
        PROVE  StatusHasOneAuthor'
    BY <2>1, <2>3 DEF Takes
  <2>4. ASSUME NEW e \in Event, Ticks(e) PROVE StatusHasOneAuthor'
    BY <2>1, <2>4 DEF Ticks
  <2>5. CASE Rests
    BY <2>1, <2>5 DEF Rests
  <2> QED
    BY <1>1, <2>2, <2>3, <2>4, <2>5, TransitAuthor, PersistAuthor DEF StepKind
<1> QED
  BY <1>1, <1>2, <1>3, <1>4 DEF AuthorInv

\* Initially there are no authors.
LEMMA AuthorInvInit == Init => AuthorInv
<1> SUFFICES ASSUME Init PROVE AuthorInv
  OBVIOUS
<1>1. Unmarked /\ Submitted
  BY DEF Init, Unmarked, Submitted, Idle
<1>2. StatusHasOneAuthor
  BY StatusesApart
  DEF Init, StatusHasOneAuthor, HasItsAuthors, IsAuthor, NoRow
<1> QED
  BY <1>1, <1>2, TypeInvInit, FencedInit DEF AuthorInv

\* Whatever the order of events, however many workers process them and
\* whenever they stop, are overtaken or lose their lease: the status of every
\* payment has exactly the authors its history needs, and each author's row
\* says what it found.
THEOREM EveryStatusHasOneAuthor == Spec => []StatusHasOneAuthor
<1>1. AuthorInv => StatusHasOneAuthor
  BY DEF AuthorInv
<1> QED
  BY <1>1, AuthorInvInit, AuthorInvStep, PTL DEF Spec

------------------------------------------------------------------------------
\* Compensation.

\* The audit rows of compensation come from coordinateSupersession alone.
LEMMA CompensationSteps ==
  ASSUME [Next]_vars
  PROVE  \/ audit' = audit
         \/ \E e, a : /\ audit' = audit \cup {<<e, a>>}
                      /\ a \in {"transition", "payout", "agreement_reopened"}
         \/ \E w \in Worker : coordinateSupersession(w)
<1>1. CASE UNCHANGED vars
  BY <1>1 DEF vars
<1>2. ASSUME NEW w \in Worker, Step(w), ~coordinateSupersession(w),
             audit' # audit
      PROVE  \E e, a : /\ audit' = audit \cup {<<e, a>>}
                       /\ a \in {"transition", "payout", "agreement_reopened"}
  BY <1>2
  DEF Step, LookupPayment, applyTransition, RereadPayment,
      recordTransitionAudit, detectAndRecordConflict, postPaymentCleared,
      reversePayment, NoLedgerEntry, postPayout, insertEntry,
      markPayoutCompleted, recordPayoutAudit,
      evaluateSuccessEffectDisposition, coordinateSuccess, coordinateFailure,
      decideAndApply, markLifecycleChecked, recomputeAfterSupersession,
      Finalize, markProcessed, markFailedRetryable, markFailedPermanent
<1>3. CASE Next /\ ~\E w \in Worker : Step(w)
  BY <1>3
  DEF Next, tryInsertAndClaim, claimExisting, Crash, TransientError,
      LeaseExpires, BackoffElapses, DueDatePasses, PersistProviderPaymentId
<1> QED
  BY <1>1, <1>2, <1>3 DEF Next

\* However often a superseding event is retried, by whichever workers and
\* whatever other payments did meanwhile, it has reopened its installment or
\* decided that this was not needed, never both.
THEOREM CompensatedOnce == Spec => []OneCompensation
<1>1. Init => OneCompensation
  BY DEF Init, OneCompensation
<1>2. OneCompensation /\ [Next]_vars => OneCompensation'
  <2> SUFFICES ASSUME OneCompensation, [Next]_vars PROVE OneCompensation'
    OBVIOUS
  <2>1. CASE audit' = audit
    BY <2>1 DEF OneCompensation
  <2>2. ASSUME NEW f, NEW a, audit' = audit \cup {<<f, a>>},
               a \in {"transition", "payout", "agreement_reopened"}
        PROVE  OneCompensation'
    BY <2>2 DEF OneCompensation
  <2>3. ASSUME NEW w \in Worker, coordinateSupersession(w)
        PROVE  OneCompensation'
    BY <2>3 DEF OneCompensation, coordinateSupersession, IsCompensated
  <2> QED
    BY <2>1, <2>2, <2>3, CompensationSteps
<1> QED
  BY <1>1, <1>2, PTL DEF Spec
==============================================================================
