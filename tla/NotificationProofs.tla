-------------------------- MODULE NotificationProofs --------------------------
(***************************************************************************)
(* The notification, for any number of callers, numbers, channels, retries *)
(* and redeliveries.                                                       *)
(*                                                                         *)
(* TextInv follows one text from the row to the provider while the user    *)
(* changes numbers, opts out, consents and withdraws.  Allowed counts: a   *)
(* row that was sent, a delivery under way and a row the retry job has     *)
(* read or may yet read are all paid for by the first request and the      *)
(* administrator's redeliveries.                                           *)
(***************************************************************************)
EXTENDS Notification, FiniteSetTheorems, SequenceTheorems, TLAPS

------------------------------------------------------------------------------
\* The inductive invariant.

\* Between the row and the end of its delivery.
Sending == {"deliver", "optOut", "consent", "send", "sent"}

\* The fields of a call and of a row, whatever their values.
IsCall(x) ==
  x \in [op : {x.op}, pc : {x.pc}, todo : {x.todo}, sweep : {x.sweep}, id : {x.id},
         attempts : {x.attempts}, to : {x.to}, stopped : {x.stopped}, covered : {x.covered}]

IsRow(x) ==
  x \in [channel : {x.channel}, status : {x.status}, attempts : {x.attempts},
         retry : {x.retry}, message : {x.message}]

\* What a call has in hand: a row there is; rows to retry, each once; a number
\* only from getPhone on.
CallOK(x, rows) ==
  /\ x.pc \in Sending \cup {"outcome"} => x.id \in rows
  /\ x.pc \in Sending => x.op \in {"notify", "sweep", "redeliver"}
  /\ x.pc = "next" => x.op = "sweep"
  /\ x.pc \in {"channel", "insert"} => x.op = "notify"
  /\ x.pc = "outcome" => x.op = "event"
  /\ \A r \in x.sweep : r[1] \in rows
  /\ \A r, q \in x.sweep : r[1] = q[1] => r = q
  /\ x.pc \in Sending => \A r \in x.sweep : r[1] # x.id
  /\ x.op # "sweep" => x.sweep = {}
  /\ x.pc \notin {"optOut", "consent", "send", "sent"} => x.to = NoPhone

CallsOK ==
  /\ calls = [c \in Caller |-> calls[c]]
  /\ \A c \in Caller : IsCall(calls[c]) /\ CallOK(calls[c], DOMAIN events)
  /\ \A c, d \in Caller : calls[c].op = "sweep" /\ calls[d].op = "sweep" => c = d

IsSeq(q) == q \in Seq({q[i] : i \in DOMAIN q})

RowsOK ==
  /\ IsSeq(events) /\ \A i \in DOMAIN events : IsRow(events[i])
  /\ sends \in Seq(Nat) /\ Len(sends) = Len(events)
  /\ redeliveries \in Seq(Nat) /\ Len(redeliveries) = Len(events)

\* One row for a channel.
OneRow == \A i, j \in DOMAIN events : events[i].channel = events[j].channel => i = j

\* What is known of the number that a text goes to.
TextOK(x, channel, out, consent) ==
  /\ x.pc \in Sending => x.stopped \subseteq out
  /\ x.pc \in {"deliver", "optOut", "consent"} /\ consent.active
       /\ x.to \in {NoPhone, consent.phone} => consent.phone \in x.covered
  /\ x.pc \in {"optOut", "consent"} => channel = "sms"
  /\ x.pc \in {"consent", "send"} /\ channel = "sms" => x.to \notin x.stopped
  /\ x.pc = "send" /\ channel = "sms" => x.to \in x.covered

IsConsent(x) == x \in [active : BOOLEAN, phone : {x.phone}]

TextInv ==
  /\ IsConsent(smsConsent)
  /\ \A c \in Caller : TextOK(calls[c], Channel(c), optedOut, smsConsent)

\* Who may still record row i as sent: deliveries under way, and the retry job
\* with a row it has read or may yet read.
InFlight(i) ==
  {c \in Caller : calls[c].pc \in Sending /\ calls[c].id = i /\ calls[c].op # "sweep"}

Sweeps(x, i) ==
  /\ x.op = "sweep"
  /\ \/ x.pc \in Sending /\ x.id = i
     \/ \E r \in x.sweep : r[1] = i

Swept(i) == \E c \in Caller : Sweeps(calls[c], i)

Retryable(i) == events[i].status = "failed" /\ events[i].retry

Pledged(i) == IF Swept(i) \/ Retryable(i) THEN 1 ELSE 0

\* What was sent and what may still be, against what was asked for.
Allowed(i) ==
  /\ IsFiniteSet(InFlight(i))
  /\ sends[i] + Cardinality(InFlight(i)) + Pledged(i) <= 1 + redeliveries[i]

NoticeInv ==
  /\ CallsOK /\ RowsOK /\ OneRow /\ TextInv
  /\ \A i \in DOMAIN events : Allowed(i)

------------------------------------------------------------------------------
\* Rows and calls.

LEMMA RowWritten ==
  ASSUME NEW q, IsSeq(q), NEW i \in DOMAIN q, NEW r
  PROVE  LET p == [q EXCEPT ![i] = r] IN
         /\ IsSeq(p) /\ Len(p) = Len(q) /\ DOMAIN p = DOMAIN q
         /\ p[i] = r /\ \A j \in DOMAIN q : j # i => p[j] = q[j]
<1> DEFINE p == [q EXCEPT ![i] = r]
           S == {p[j] : j \in DOMAIN p}
<1>1. /\ DOMAIN p = DOMAIN q /\ p[i] = r /\ \A j \in DOMAIN q : j # i => p[j] = q[j]
  OBVIOUS
<1>2. Len(q) \in Nat /\ DOMAIN q = 1..Len(q)
  BY DEF IsSeq
<1>3. p = [j \in 1..Len(q) |-> p[j]]
  BY <1>1, <1>2
<1>4. \A j \in 1..Len(q) : p[j] \in S
  BY <1>1, <1>2
<1> HIDE DEF p, S
<1>5. p \in Seq(S) /\ Len(p) = Len(q)
  BY <1>2, <1>3, <1>4
<1> QED BY <1>1, <1>5 DEF IsSeq, p, S

LEMMA RowAdded ==
  ASSUME NEW q, IsSeq(q), NEW r
  PROVE  LET p == Append(q, r) IN
         /\ IsSeq(p) /\ Len(p) = Len(q) + 1 /\ DOMAIN p = 1..(Len(q) + 1)
         /\ Len(q) \in Nat /\ DOMAIN q = 1..Len(q)
         /\ p[Len(q) + 1] = r /\ \A j \in DOMAIN q : p[j] = q[j]
<1> DEFINE p == Append(q, r)
           S == {q[i] : i \in DOMAIN q} \cup {r}
           T == {p[j] : j \in DOMAIN p}
<1>1. /\ Len(q) \in Nat /\ DOMAIN q = 1..Len(q) /\ q = [i \in 1..Len(q) |-> q[i]]
  BY DEF IsSeq
<1>2. q \in Seq(S)
  BY <1>1
<1> HIDE DEF S
<1>3. /\ Len(p) = Len(q) + 1 /\ DOMAIN p = 1..(Len(q) + 1) /\ p \in Seq(S \cup {r})
      /\ p[Len(q) + 1] = r /\ \A j \in DOMAIN q : p[j] = q[j]
  <2>1. r \in S
    BY DEF S
  <2> QED BY <1>1, <1>2, <2>1
<1> HIDE DEF p
<1>4. p = [j \in 1..(Len(q) + 1) |-> p[j]] /\ \A j \in 1..(Len(q) + 1) : p[j] \in T
  BY <1>3
<1> HIDE DEF T
<1>5. p \in Seq(T)
  BY <1>1, <1>3, <1>4
<1> QED BY <1>1, <1>3, <1>5 DEF IsSeq, p, T

LEMMA NothingCalled ==
  /\ IsCall(NoCall) /\ NoCall.pc = "idle" /\ NoCall.op = "none" /\ NoCall.sweep = {}
  /\ NoCall.to = NoPhone /\ NoCall.id = 0
BY DEF NoCall, IsCall

CoveredNow == IF smsConsent.active THEN {smsConsent.phone} ELSE {}

LEMMA Begun ==
  ASSUME NEW x, IsCall(x), NEW id, NEW n
  PROVE  LET y == Begin(x, id, n) IN
         /\ IsCall(y) /\ y.pc = "deliver" /\ y.op = x.op /\ y.id = id /\ y.sweep = x.sweep
         /\ y.to = x.to /\ y.stopped = optedOut /\ y.todo = x.todo
         /\ y.covered = CoveredNow
<1> DEFINE y == [x EXCEPT !.pc = "deliver", !.id = id, !.attempts = n, !.stopped = optedOut,
                          !.covered = CoveredNow]
<1>1. Begin(x, id, n) = y
  BY DEF Begin, CoveredNow
<1>2. /\ IsCall(y) /\ y.pc = "deliver" /\ y.op = x.op /\ y.id = id /\ y.sweep = x.sweep
      /\ y.to = x.to /\ y.stopped = optedOut /\ y.todo = x.todo /\ y.covered = CoveredNow
  BY DEF IsCall
<1> QED BY <1>1, <1>2

------------------------------------------------------------------------------
\* What a step of one caller leaves of the invariant.

\* Rows are only added, and keep their channel.
RowsStay ==
  /\ DOMAIN events \subseteq DOMAIN events'
  /\ \A i \in DOMAIN events : events'[i].channel = events[i].channel

LEMMA CallMoves ==
  ASSUME CallsOK, NEW c \in Caller, NEW x, IsCall(x), Does(c, x), RowsStay,
         CallOK(x, DOMAIN events'),
         x.op = "sweep" => \/ calls[c].op = "sweep"
                           \/ \A d \in Caller : calls[d].op # "sweep"
  PROVE  /\ CallsOK' /\ calls'[c] = x
         /\ \A d \in Caller : d # c => calls'[d] = calls[d]
<1>1. /\ calls'[c] = x /\ \A d \in Caller : d # c => calls'[d] = calls[d]
      /\ calls' = [d \in Caller |-> calls'[d]]
  BY DEF CallsOK, Does
<1>2. ASSUME NEW d \in Caller PROVE IsCall(calls'[d]) /\ CallOK(calls'[d], DOMAIN events')
  <2>1. CASE d = c
    BY <1>1, <2>1
  <2>2. CASE d # c
    BY <1>1, <2>2 DEF CallsOK, CallOK, RowsStay
  <2> QED BY <2>1, <2>2
<1>3. \A d, e \in Caller : calls'[d].op = "sweep" /\ calls'[e].op = "sweep" => d = e
  BY <1>1 DEF CallsOK
<1> QED BY <1>1, <1>2, <1>3 DEF CallsOK

LEMMA TextMoves ==
  ASSUME CallsOK, TextInv, NEW c \in Caller, RowsStay,
         \A d \in Caller : d # c => calls'[d] = calls[d],
         calls'[c].pc \in Sending =>
           TextOK(calls'[c], events'[calls'[c].id].channel, optedOut, smsConsent),
         UNCHANGED <<optedOut, smsConsent>>
  PROVE  TextInv'
<1> SUFFICES ASSUME NEW d \in Caller
             PROVE  TextOK(calls'[d], events'[calls'[d].id].channel, optedOut, smsConsent)
  BY DEF TextInv, Channel
<1>1. CASE calls'[d].pc \notin Sending
  BY <1>1 DEF TextOK, Sending
<1>2. CASE calls'[d].pc \in Sending /\ d # c
  <2>1. /\ calls'[d] = calls[d] /\ calls[d].id \in DOMAIN events
        /\ TextOK(calls[d], events[calls[d].id].channel, optedOut, smsConsent)
    BY <1>2 DEF CallsOK, CallOK, TextInv, Channel
  <2>2. events'[calls[d].id].channel = events[calls[d].id].channel
    BY <2>1 DEF RowsStay
  <2> QED BY <2>1, <2>2
<1>3. CASE calls'[d].pc \in Sending /\ d = c
  BY <1>3
<1> QED BY <1>1, <1>2, <1>3

\* The rows are left alone.
LEMMA RowsKept ==
  ASSUME RowsOK, OneRow, KeepRows
  PROVE  /\ RowsOK' /\ OneRow' /\ RowsStay /\ DOMAIN events' = DOMAIN events
         /\ \A i \in DOMAIN events : /\ sends'[i] = sends[i] /\ redeliveries'[i] = redeliveries[i]
                                     /\ Retryable(i)' <=> Retryable(i)
BY DEF RowsOK, OneRow, RowsStay, KeepRows, IsSeq, IsRow, Retryable

\* A row is written by its id.
LEMMA RowsEdited ==
  ASSUME RowsOK, OneRow, NEW i \in DOMAIN events, NEW r, IsRow(r), r.channel = events[i].channel,
         events' = [events EXCEPT ![i] = r], redeliveries' = redeliveries,
         sends' = sends \/ sends' = [sends EXCEPT ![i] = @ + 1]
  PROVE  /\ RowsOK' /\ OneRow' /\ RowsStay /\ DOMAIN events' = DOMAIN events /\ events'[i] = r
         /\ sends[i] \in Nat /\ sends'[i] \in Nat
         /\ \A j \in DOMAIN events : j # i => /\ sends'[j] = sends[j] /\ events'[j] = events[j]
<1>1. /\ IsSeq(events') /\ Len(events') = Len(events) /\ DOMAIN events' = DOMAIN events
      /\ events'[i] = r /\ \A j \in DOMAIN events : j # i => events'[j] = events[j]
  BY RowWritten DEF RowsOK
<1>2. \A j \in DOMAIN events : IsRow(events'[j]) /\ events'[j].channel = events[j].channel
  BY <1>1 DEF RowsOK
<1>3. i \in DOMAIN sends /\ DOMAIN sends = DOMAIN events
  BY DEF RowsOK, IsSeq
<1>4. /\ sends' \in Seq(Nat) /\ Len(sends') = Len(sends) /\ sends[i] \in Nat /\ sends'[i] \in Nat
      /\ \A j \in DOMAIN events : j # i => sends'[j] = sends[j]
  <2>1. sends \in Seq(Nat) /\ sends[i] \in Nat
    BY <1>3 DEF RowsOK
  <2>2. CASE sends' = sends
    BY <2>1, <2>2
  <2>3. CASE sends' = [sends EXCEPT ![i] = @ + 1]
    <3> DEFINE n == sends[i] + 1
    <3>1. n \in Nat /\ sends' = [sends EXCEPT ![i] = n]
      BY <2>1, <2>3
    <3> HIDE DEF n
    <3> QED BY <1>3, <2>1, <3>1
  <2> QED BY <2>2, <2>3
<1>5. RowsOK'
  BY <1>1, <1>2, <1>4 DEF RowsOK
<1>6. OneRow' /\ RowsStay
  BY <1>1, <1>2 DEF OneRow, RowsStay
<1> QED BY <1>1, <1>4, <1>5, <1>6

------------------------------------------------------------------------------
\* Counting.

LEMMA Counts ==
  ASSUME RowsOK, NEW i \in DOMAIN events, Allowed(i)
  PROVE  /\ sends[i] \in Nat /\ redeliveries[i] \in Nat /\ Cardinality(InFlight(i)) \in Nat
         /\ IsFiniteSet(InFlight(i)) /\ Pledged(i) \in {0, 1}
<1>1. sends[i] \in Nat /\ redeliveries[i] \in Nat
  BY DEF RowsOK, IsSeq
<1>2. Pledged(i) \in {0, 1}
  BY DEF Pledged
<1> QED BY <1>1, <1>2, FS_CardinalityType DEF Allowed

\* Nothing is added to what may be sent of row i.
LEMMA AllowedKept ==
  ASSUME RowsOK, NEW i \in DOMAIN events, Allowed(i), InFlight(i)' \subseteq InFlight(i),
         Swept(i)' \/ Retryable(i)' => Swept(i) \/ Retryable(i),
         sends'[i] = sends[i], redeliveries'[i] = redeliveries[i]
  PROVE  Allowed(i)'
<1>1. /\ sends[i] \in Nat /\ redeliveries[i] \in Nat /\ Cardinality(InFlight(i)) \in Nat
      /\ IsFiniteSet(InFlight(i)) /\ Pledged(i) \in {0, 1}
      /\ sends[i] + Cardinality(InFlight(i)) + Pledged(i) <= 1 + redeliveries[i]
  BY Counts DEF Allowed
<1>2. /\ IsFiniteSet(InFlight(i)') /\ Cardinality(InFlight(i)') <= Cardinality(InFlight(i))
      /\ Cardinality(InFlight(i)') \in Nat
  BY <1>1, FS_Subset, FS_CardinalityType
<1>3. Pledged(i)' \in {0, 1} /\ Pledged(i)' <= Pledged(i)
  <2>1. CASE Swept(i)' \/ Retryable(i)'
    BY <2>1 DEF Pledged
  <2>2. CASE ~(Swept(i)' \/ Retryable(i)')
    BY <1>1, <2>2 DEF Pledged
  <2> QED BY <2>1, <2>2
<1>4. sends'[i] + Cardinality(InFlight(i)') + Pledged(i)' <= 1 + redeliveries'[i]
  BY <1>1, <1>2, <1>3
<1> QED BY <1>2, <1>4 DEF Allowed

\* Who has row i in hand, when one caller has moved.
LEMMA OneMoved ==
  ASSUME NEW c \in Caller, \A d \in Caller : d # c => calls'[d] = calls[d], NEW i
  PROVE  /\ InFlight(i)' \ {c} = InFlight(i) \ {c}
         /\ c \in InFlight(i)' <=> /\ calls'[c].pc \in Sending /\ calls'[c].id = i
                                   /\ calls'[c].op # "sweep"
         /\ c \in InFlight(i) <=> /\ calls[c].pc \in Sending /\ calls[c].id = i
                                  /\ calls[c].op # "sweep"
         /\ Swept(i)' <=> \/ Sweeps(calls'[c], i)
                          \/ \E d \in Caller \ {c} : Sweeps(calls[d], i)
         /\ Swept(i) <=> \/ Sweeps(calls[c], i)
                         \/ \E d \in Caller \ {c} : Sweeps(calls[d], i)
BY DEF InFlight, Swept

------------------------------------------------------------------------------
\* The kinds of steps.

\* A call that is not delivering goes on to where it does not deliver either,
\* and the job keeps no row that it may not send.
LEMMA QuietStep ==
  ASSUME NoticeInv, NEW c \in Caller, NEW x, IsCall(x), Does(c, x), KeepRows,
         CallOK(x, DOMAIN events), x.pc \notin Sending,
         x.op = "sweep" => \/ calls[c].op = "sweep"
                           \/ \A d \in Caller : calls[d].op # "sweep",
         \A i \in DOMAIN events : Sweeps(x, i) => Swept(i) \/ Retryable(i),
         UNCHANGED <<optedOut, smsConsent>>
  PROVE  NoticeInv'
<1>0. CallsOK /\ RowsOK /\ OneRow /\ TextInv /\ \A i \in DOMAIN events : Allowed(i)
  BY DEF NoticeInv
<1>1. /\ RowsOK' /\ OneRow' /\ RowsStay /\ DOMAIN events' = DOMAIN events
      /\ \A i \in DOMAIN events : /\ sends'[i] = sends[i] /\ redeliveries'[i] = redeliveries[i]
                                  /\ Retryable(i)' <=> Retryable(i)
  BY <1>0, RowsKept
<1>2. CallsOK' /\ calls'[c] = x /\ \A d \in Caller : d # c => calls'[d] = calls[d]
  BY <1>0, <1>1, CallMoves
<1>3. TextInv'
  BY <1>0, <1>1, <1>2, TextMoves
<1>4. ASSUME NEW i \in DOMAIN events PROVE Allowed(i)'
  <2>1. InFlight(i)' \subseteq InFlight(i)
    BY <1>2, OneMoved
  <2>2. Swept(i)' => Swept(i) \/ Retryable(i)
    BY <1>2, OneMoved
  <2> QED BY <1>0, <1>1, <2>1, <2>2, AllowedKept
<1> QED BY <1>1, <1>2, <1>3, <1>4 DEF NoticeInv

\* A delivery goes on.
LEMMA OnwardStep ==
  ASSUME NoticeInv, NEW c \in Caller, NEW x, IsCall(x), Does(c, x), KeepRows,
         calls[c].pc \in Sending, x.pc \in Sending, x.op = calls[c].op, x.id = calls[c].id,
         x.sweep = calls[c].sweep,
         x.pc \notin {"optOut", "consent", "send", "sent"} => x.to = NoPhone,
         TextOK(x, Channel(c), optedOut, smsConsent), UNCHANGED <<optedOut, smsConsent>>
  PROVE  NoticeInv'
<1>0. CallsOK /\ RowsOK /\ OneRow /\ TextInv /\ \A i \in DOMAIN events : Allowed(i)
  BY DEF NoticeInv
<1>1. /\ RowsOK' /\ OneRow' /\ RowsStay /\ DOMAIN events' = DOMAIN events
      /\ \A i \in DOMAIN events : /\ sends'[i] = sends[i] /\ redeliveries'[i] = redeliveries[i]
                                  /\ Retryable(i)' <=> Retryable(i)
  BY <1>0, RowsKept
<1>2. CallOK(calls[c], DOMAIN events) /\ calls[c].id \in DOMAIN events
  BY <1>0 DEF CallsOK, CallOK
<1>3. CallOK(x, DOMAIN events')
  BY <1>1, <1>2 DEF CallOK, Sending
<1>4. CallsOK' /\ calls'[c] = x /\ \A d \in Caller : d # c => calls'[d] = calls[d]
  BY <1>0, <1>1, <1>3, CallMoves
<1>5. TextInv'
  <2>1. events'[x.id].channel = Channel(c)
    BY <1>1, <1>2 DEF Channel, RowsStay
  <2> QED BY <1>0, <1>1, <1>4, <2>1, TextMoves
<1>6. ASSUME NEW i \in DOMAIN events PROVE Allowed(i)'
  <2>1. InFlight(i)' \subseteq InFlight(i)
    BY <1>4, OneMoved
  <2>2. Sweeps(x, i) => Sweeps(calls[c], i)
    BY DEF Sweeps
  <2>3. Swept(i)' => Swept(i)
    BY <1>4, <2>2, OneMoved
  <2> QED BY <1>0, <1>1, <2>1, <2>3, AllowedKept
<1> QED BY <1>1, <1>4, <1>5, <1>6 DEF NoticeInv

\* Where a call goes on after a delivery.
LEMMA AfterDelivery ==
  ASSUME CallsOK, NEW c \in Caller, calls[c].pc \in Sending, Delivered(c)
  PROVE  \E x : /\ Does(c, x) /\ IsCall(x) /\ CallOK(x, DOMAIN events) /\ x.pc \notin Sending
                /\ x.sweep = calls[c].sweep /\ (x.op = "sweep" => calls[c].op = "sweep")
<1> DEFINE call == calls[c]
           n == [NoCall EXCEPT !.op = call.op, !.pc = "channel", !.todo = call.todo]
           s == [NoCall EXCEPT !.op = call.op, !.pc = "next", !.sweep = call.sweep]
<1>0. CallOK(call, DOMAIN events) /\ call.op \in {"notify", "sweep", "redeliver"}
  BY DEF CallsOK, CallOK
<1>1. CASE call.op = "notify"
  <2>1. /\ IsCall(n) /\ n.op = "notify" /\ n.pc = "channel" /\ n.sweep = {} /\ n.to = NoPhone
    BY <1>1 DEF NoCall, IsCall
  <2>2. Does(c, n)
    BY <1>1 DEF Delivered
  <2>3. call.sweep = {}
    BY <1>0, <1>1 DEF CallOK
  <2> HIDE DEF n
  <2>4. CallOK(n, DOMAIN events) /\ n.pc \notin Sending
    BY <2>1 DEF CallOK, Sending
  <2> QED BY <2>1, <2>2, <2>3, <2>4
<1>2. CASE call.op = "sweep"
  <2>1. /\ IsCall(s) /\ s.op = "sweep" /\ s.pc = "next" /\ s.sweep = call.sweep /\ s.to = NoPhone
    BY <1>2 DEF NoCall, IsCall
  <2>2. Does(c, s)
    BY <1>2 DEF Delivered
  <2> HIDE DEF s
  <2>3. CallOK(s, DOMAIN events) /\ s.pc \notin Sending
    BY <1>0, <2>1 DEF CallOK, Sending
  <2> QED BY <1>2, <2>1, <2>2, <2>3
<1>3. CASE call.op = "redeliver"
  <2>1. Does(c, NoCall)
    BY <1>3 DEF Delivered
  <2>2. call.sweep = {}
    BY <1>0, <1>3 DEF CallOK
  <2>3. CallOK(NoCall, DOMAIN events) /\ NoCall.pc \notin Sending
    BY NothingCalled DEF CallOK, Sending
  <2> QED BY <2>1, <2>2, <2>3, NothingCalled
<1> QED BY <1>0, <1>1, <1>2, <1>3

\* What a delivery writes as it ends: nothing, or its row; and a row it records
\* as sent is not one to try again.
Recorded(id) ==
  \/ KeepRows
  \/ \E r : /\ IsRow(r) /\ r.channel = events[id].channel
            /\ events' = [events EXCEPT ![id] = r] /\ redeliveries' = redeliveries
            /\ \/ sends' = sends
               \/ sends' = [sends EXCEPT ![id] = @ + 1] /\ r.retry = FALSE

LEMMA RowsRecorded ==
  ASSUME RowsOK, OneRow, NEW id \in DOMAIN events, Recorded(id)
  PROVE  /\ RowsOK' /\ OneRow' /\ RowsStay /\ DOMAIN events' = DOMAIN events
         /\ redeliveries' = redeliveries
         /\ \A j \in DOMAIN events : j # id => /\ sends'[j] = sends[j]
                                               /\ Retryable(j)' <=> Retryable(j)
         /\ \/ sends'[id] = sends[id]
            \/ sends'[id] = sends[id] + 1 /\ ~Retryable(id)'
<1>1. CASE KeepRows
  <2>1. redeliveries' = redeliveries
    BY <1>1 DEF KeepRows
  <2> QED BY <1>1, <2>1, RowsKept
<1>2. CASE ~KeepRows
  <2>1. PICK r : /\ IsRow(r) /\ r.channel = events[id].channel
                 /\ events' = [events EXCEPT ![id] = r] /\ redeliveries' = redeliveries
                 /\ \/ sends' = sends
                    \/ sends' = [sends EXCEPT ![id] = @ + 1] /\ r.retry = FALSE
    BY <1>2 DEF Recorded
  <2>2. /\ RowsOK' /\ OneRow' /\ RowsStay /\ DOMAIN events' = DOMAIN events /\ events'[id] = r
        /\ sends[id] \in Nat
        /\ \A j \in DOMAIN events : j # id => sends'[j] = sends[j] /\ events'[j] = events[j]
    BY <2>1, RowsEdited
  <2>3. \A j \in DOMAIN events : j # id => (Retryable(j)' <=> Retryable(j))
    BY <2>2 DEF Retryable
  <2>4. CASE sends' = sends
    BY <2>1, <2>2, <2>3, <2>4
  <2>5. CASE sends' = [sends EXCEPT ![id] = @ + 1] /\ r.retry = FALSE
    <3>1. ~Retryable(id)'
      BY <2>2, <2>5 DEF Retryable
    <3>2. id \in DOMAIN sends
      BY DEF RowsOK, IsSeq
    <3>3. sends'[id] = sends[id] + 1
      BY <2>5, <3>2
    <3> QED BY <2>1, <2>2, <2>3, <3>1, <3>3
  <2> QED BY <2>1, <2>4, <2>5
<1> QED BY <1>1, <1>2

\* The row whose delivery ends.
LEMMA AllowedAtEnd ==
  ASSUME RowsOK, NEW i \in DOMAIN events, Allowed(i), NEW c \in Caller,
         calls[c].pc \in Sending, calls[c].id = i, calls'[c].pc \notin Sending,
         \A d \in Caller : d # c => calls'[d] = calls[d],
         calls[c].op # "sweep" => (Swept(i)' => Swept(i)),
         calls[c].op = "sweep" => Swept(i) /\ ~Swept(i)',
         redeliveries' = redeliveries,
         sends'[i] = sends[i] \/ (sends'[i] = sends[i] + 1 /\ ~Retryable(i)')
  PROVE  Allowed(i)'
<1>1. /\ sends[i] \in Nat /\ redeliveries[i] \in Nat /\ Cardinality(InFlight(i)) \in Nat
      /\ IsFiniteSet(InFlight(i)) /\ Pledged(i) \in {0, 1}
      /\ sends[i] + Cardinality(InFlight(i)) + Pledged(i) <= 1 + redeliveries[i]
  BY Counts DEF Allowed
<1>2. Pledged(i)' \in {0, 1} /\ (Pledged(i)' = 1 <=> Swept(i)' \/ Retryable(i)')
  <2>1. CASE Swept(i)' \/ Retryable(i)'
    BY <2>1 DEF Pledged
  <2>2. CASE ~(Swept(i)' \/ Retryable(i)')
    BY <2>2 DEF Pledged
  <2> QED BY <2>1, <2>2
<1>3. /\ InFlight(i)' \ {c} = InFlight(i) \ {c} /\ c \notin InFlight(i)'
      /\ c \in InFlight(i) <=> calls[c].op # "sweep"
  BY OneMoved
<1>4. CASE calls[c].op # "sweep"
  <2>1. InFlight(i)' = InFlight(i) \ {c} /\ c \in InFlight(i)
    BY <1>3, <1>4
  <2>2. IsFiniteSet(InFlight(i)') /\ Cardinality(InFlight(i)') = Cardinality(InFlight(i)) - 1
    BY <1>1, <2>1, FS_RemoveElement
  <2>3. Swept(i)' => Pledged(i) = 1
    BY <1>4 DEF Pledged
  <2>4. sends'[i] + Cardinality(InFlight(i)') + Pledged(i)' <= 1 + redeliveries'[i]
    BY <1>1, <1>2, <2>2, <2>3
  <2> QED BY <2>2, <2>4 DEF Allowed
<1>5. CASE calls[c].op = "sweep"
  <2>1. InFlight(i)' = InFlight(i)
    BY <1>3, <1>5
  <2>2. Pledged(i) = 1
    BY <1>5 DEF Pledged
  <2>3. sends'[i] + Cardinality(InFlight(i)') + Pledged(i)' <= 1 + redeliveries'[i]
    BY <1>1, <1>2, <1>5, <2>1, <2>2
  <2> QED BY <1>1, <2>1, <2>3 DEF Allowed
<1> QED BY <1>4, <1>5

\* A delivery ends.
LEMMA FinishStep ==
  ASSUME NoticeInv, NEW c \in Caller, calls[c].pc \in Sending, Delivered(c),
         Recorded(calls[c].id), UNCHANGED <<optedOut, smsConsent>>
  PROVE  NoticeInv'
<1>0. CallsOK /\ RowsOK /\ OneRow /\ TextInv /\ \A i \in DOMAIN events : Allowed(i)
  BY DEF NoticeInv
<1>1. PICK id \in DOMAIN events :
        CallOK(calls[c], DOMAIN events) /\ Recorded(id) /\ calls[c].id = id
  BY <1>0 DEF CallsOK, CallOK
<1>2. /\ RowsOK' /\ OneRow' /\ RowsStay /\ DOMAIN events' = DOMAIN events
      /\ redeliveries' = redeliveries
      /\ \A j \in DOMAIN events : j # id => /\ sends'[j] = sends[j]
                                            /\ Retryable(j)' <=> Retryable(j)
      /\ \/ sends'[id] = sends[id]
         \/ sends'[id] = sends[id] + 1 /\ ~Retryable(id)'
  BY <1>0, <1>1, RowsRecorded
<1>3. PICK x : /\ Does(c, x) /\ IsCall(x) /\ CallOK(x, DOMAIN events) /\ x.pc \notin Sending
               /\ x.sweep = calls[c].sweep /\ (x.op = "sweep" => calls[c].op = "sweep")
  BY <1>0, AfterDelivery
<1>4. CallsOK' /\ calls'[c] = x /\ \A d \in Caller : d # c => calls'[d] = calls[d]
  BY <1>0, <1>2, <1>3, CallMoves
<1>5. TextInv'
  BY <1>0, <1>2, <1>3, <1>4, TextMoves
<1>6. \A i : Sweeps(x, i) => Sweeps(calls[c], i) /\ i # id
  BY <1>1, <1>3 DEF Sweeps, CallOK
<1>7. ASSUME NEW i \in DOMAIN events PROVE Allowed(i)'
  <2>1. Swept(i)' => Swept(i)
    BY <1>4, <1>6, OneMoved
  <2>2. CASE i # id
    <3>1. InFlight(i)' \subseteq InFlight(i)
      BY <1>3, <1>4, OneMoved
    <3>2. /\ sends'[i] = sends[i] /\ redeliveries'[i] = redeliveries[i]
          /\ Swept(i)' \/ Retryable(i)' => Swept(i) \/ Retryable(i)
      BY <1>2, <2>1, <2>2
    <3> QED BY <1>0, <3>1, <3>2, AllowedKept
  <2>3. CASE i = id
    <3>1. ASSUME calls[c].op = "sweep" PROVE Swept(i) /\ ~Swept(i)'
      <4>1. Sweeps(calls[c], i) /\ ~Sweeps(x, i)
        BY <1>1, <1>6, <2>3, <3>1 DEF Sweeps
      <4>2. \A d \in Caller \ {c} : ~Sweeps(calls[d], i)
        BY <1>0, <3>1 DEF CallsOK, Sweeps
      <4> QED BY <1>4, <4>1, <4>2, OneMoved
    <3>2. /\ redeliveries' = redeliveries /\ calls[c].id = i
          /\ sends'[i] = sends[i] \/ (sends'[i] = sends[i] + 1 /\ ~Retryable(i)')
      BY <1>1, <1>2, <2>3
    <3> QED BY <1>0, <1>3, <1>4, <2>1, <3>1, <3>2, AllowedAtEnd
  <2> QED BY <2>2, <2>3
<1> QED BY <1>2, <1>4, <1>5, <1>7 DEF NoticeInv

------------------------------------------------------------------------------
\* Steps that begin a delivery.

LEMMA BegunText ==
  ASSUME NEW x, NEW ch, x.pc = "deliver", x.stopped = optedOut,
         x.covered = CoveredNow
  PROVE  TextOK(x, ch, optedOut, smsConsent)
<1>1. smsConsent.active => smsConsent.phone \in x.covered
  BY DEF CoveredNow
<1> QED BY <1>1 DEF TextOK, Sending

\* The retry job turns to the next row it has read.
LEMMA NextDue ==
  ASSUME NoticeInv, NEW c \in Caller, nextDue(c)
  PROVE  NoticeInv'
<1>0. CallsOK /\ RowsOK /\ OneRow /\ TextInv /\ \A i \in DOMAIN events : Allowed(i)
  BY DEF NoticeInv
<1>1. KeepRows /\ UNCHANGED <<optedOut, smsConsent>> /\ calls[c].pc = "next"
  BY DEF nextDue, KeepUser, Doing
<1>2. CASE Does(c, NoCall)
  <2>1. CallOK(NoCall, DOMAIN events) /\ NoCall.pc \notin Sending
    BY NothingCalled DEF CallOK, Sending
  <2>2. \A i : ~Sweeps(NoCall, i)
    BY NothingCalled DEF Sweeps
  <2> QED BY <1>1, <1>2, <2>1, <2>2, NothingCalled, QuietStep
<1>3. CASE ~Does(c, NoCall)
  <2>1. PICK r \in calls[c].sweep : Does(c, [Begin(calls[c], r[1], r[2]) EXCEPT !.sweep = @ \ {r}])
    BY <1>3 DEF nextDue
  <2> DEFINE b == Begin(calls[c], r[1], r[2])
             x == [b EXCEPT !.sweep = @ \ {r}]
             y == [b EXCEPT !.sweep = b.sweep \ {r}]
  <2>2. /\ IsCall(calls[c]) /\ CallOK(calls[c], DOMAIN events) /\ calls[c].op = "sweep"
        /\ calls[c].to = NoPhone
    BY <1>0, <1>1 DEF CallsOK, CallOK
  <2>3. /\ IsCall(b) /\ b.pc = "deliver" /\ b.op = "sweep" /\ b.id = r[1]
        /\ b.sweep = calls[c].sweep /\ b.to = NoPhone /\ b.stopped = optedOut
        /\ b.covered = CoveredNow
    BY <2>2, Begun
  <2>4. Does(c, y)
    BY <2>1
  <2> HIDE DEF b
  <2>5. /\ IsCall(y) /\ y.pc = "deliver" /\ y.op = "sweep" /\ y.id = r[1]
        /\ y.sweep = calls[c].sweep \ {r} /\ y.to = NoPhone /\ y.stopped = optedOut
        /\ y.covered = CoveredNow
    BY <2>3 DEF IsCall
  <2> HIDE DEF y
  <2>6. CallOK(y, DOMAIN events)
    BY <2>2, <2>5 DEF CallOK, Sending
  <2>7. /\ RowsOK' /\ OneRow' /\ RowsStay /\ DOMAIN events' = DOMAIN events
        /\ \A i \in DOMAIN events : /\ sends'[i] = sends[i] /\ redeliveries'[i] = redeliveries[i]
                                    /\ Retryable(i)' <=> Retryable(i)
    BY <1>0, <1>1, RowsKept
  <2>8. CallsOK' /\ calls'[c] = y /\ \A d \in Caller : d # c => calls'[d] = calls[d]
    BY <1>0, <2>2, <2>4, <2>5, <2>6, <2>7, CallMoves
  <2>9. TextInv'
    <3>1. TextOK(y, events'[y.id].channel, optedOut, smsConsent)
      BY <2>5, BegunText
    <3> QED BY <1>0, <1>1, <2>7, <2>8, <3>1, TextMoves
  <2>10. ASSUME NEW i \in DOMAIN events PROVE Allowed(i)'
    <3>1. InFlight(i)' \subseteq InFlight(i)
      BY <2>5, <2>8, OneMoved
    <3>2. Sweeps(y, i) => Sweeps(calls[c], i)
      BY <2>2, <2>5 DEF Sweeps
    <3>3. Swept(i)' => Swept(i)
      BY <2>8, <3>2, OneMoved
    <3> QED BY <1>0, <2>7, <3>1, <3>3, AllowedKept
  <2> QED BY <2>7, <2>8, <2>9, <2>10 DEF NoticeInv
<1> QED BY <1>2, <1>3

\* The first request adds the row of a channel and delivers it.
LEMMA Inserted ==
  ASSUME NoticeInv, NEW c \in Caller, insertNotice(c)
  PROVE  NoticeInv'
<1>0. CallsOK /\ RowsOK /\ OneRow /\ TextInv /\ \A i \in DOMAIN events : Allowed(i)
  BY DEF NoticeInv
<1>1. UNCHANGED <<optedOut, smsConsent>> /\ calls[c].pc = "insert"
  BY DEF insertNotice, KeepUser, Doing
<1> DEFINE ch == Head(calls[c].todo)
<1>2. CASE KeyIsTaken(ch)
  <2>1. Does(c, NoCall) /\ KeepRows
    BY <1>2 DEF insertNotice
  <2>2. CallOK(NoCall, DOMAIN events) /\ NoCall.pc \notin Sending
    BY NothingCalled DEF CallOK, Sending
  <2>3. \A i : ~Sweeps(NoCall, i)
    BY NothingCalled DEF Sweeps
  <2> QED BY <1>1, <2>1, <2>2, <2>3, NothingCalled, QuietStep
<1>3. CASE ~KeyIsTaken(ch)
  <2> DEFINE row == [channel |-> ch, status |-> "pending", attempts |-> 0,
                     retry |-> FALSE, message |-> 0]
             b == Begin(calls[c], Len(events) + 1, 0)
             x == [b EXCEPT !.todo = Tail(b.todo)]
  <2>1. /\ events' = Append(events, row)
        /\ sends' = Append(sends, 0) /\ redeliveries' = Append(redeliveries, 0)
        /\ Does(c, x)
    BY <1>3 DEF insertNotice
  <2>2. IsRow(row) /\ row.channel = ch /\ row.status = "pending"
    BY DEF IsRow
  <2>3. /\ IsCall(calls[c]) /\ CallOK(calls[c], DOMAIN events) /\ calls[c].op = "notify"
        /\ calls[c].to = NoPhone /\ calls[c].sweep = {}
    BY <1>0, <1>1 DEF CallsOK, CallOK
  <2>4. /\ IsCall(b) /\ b.pc = "deliver" /\ b.op = "notify" /\ b.id = Len(events) + 1
        /\ b.sweep = {} /\ b.to = NoPhone /\ b.stopped = optedOut
        /\ b.covered = CoveredNow
    BY <2>3, Begun
  <2> HIDE DEF b
  <2>5. /\ IsCall(x) /\ x.pc = "deliver" /\ x.op = "notify" /\ x.id = Len(events) + 1
        /\ x.sweep = {} /\ x.to = NoPhone /\ x.stopped = optedOut
        /\ x.covered = CoveredNow
    BY <2>4 DEF IsCall
  <2> HIDE DEF x, row, ch
  <2>6. PICK n \in Nat : /\ n = Len(events) + 1 /\ n > 0 /\ DOMAIN events = 1..(n - 1)
                         /\ DOMAIN events' = 1..n /\ events'[n] = row
                         /\ Len(events') = n /\ IsSeq(events')
                         /\ \A j \in DOMAIN events : events'[j] = events[j]
    BY <1>0, <2>1, RowAdded DEF RowsOK
  <2>7. /\ sends' \in Seq(Nat) /\ redeliveries' \in Seq(Nat)
        /\ Len(sends') = n /\ Len(redeliveries') = n /\ sends'[n] = 0 /\ redeliveries'[n] = 0
        /\ \A j \in DOMAIN events : sends'[j] = sends[j] /\ redeliveries'[j] = redeliveries[j]
    BY <1>0, <2>1, <2>6 DEF RowsOK
  <2>8. RowsOK'
    <3>1. \A j \in DOMAIN events' : IsRow(events'[j])
      BY <1>0, <2>2, <2>6 DEF RowsOK
    <3> QED BY <2>6, <2>7, <3>1 DEF RowsOK
  <2>9. OneRow' /\ RowsStay
    <3>1. \A j \in DOMAIN events : events[j].channel # ch
      BY <1>3 DEF KeyIsTaken
    <3> QED BY <1>0, <2>2, <2>6, <3>1 DEF OneRow, RowsStay
  <2>10. CallOK(x, DOMAIN events')
    BY <2>5, <2>6 DEF CallOK, Sending
  <2>11. CallsOK' /\ calls'[c] = x /\ \A d \in Caller : d # c => calls'[d] = calls[d]
    BY <1>0, <2>1, <2>5, <2>9, <2>10, CallMoves
  <2>12. TextInv'
    <3>1. TextOK(x, events'[x.id].channel, optedOut, smsConsent)
      BY <2>5, BegunText
    <3> QED BY <1>0, <1>1, <2>9, <2>11, <3>1, TextMoves
  <2>13. ASSUME NEW i \in DOMAIN events PROVE Allowed(i)'
    <3>1. InFlight(i)' \subseteq InFlight(i)
      BY <2>5, <2>6, <2>11, OneMoved
    <3>2. Swept(i)' => Swept(i)
      <4>1. ~Sweeps(x, i)
        BY <2>5 DEF Sweeps
      <4> QED BY <2>11, <4>1, OneMoved
    <3>3. Retryable(i)' => Retryable(i)
      BY <2>6 DEF Retryable
    <3>4. sends'[i] = sends[i] /\ redeliveries'[i] = redeliveries[i]
      BY <2>7
    <3> QED BY <1>0, <3>1, <3>2, <3>3, <3>4, AllowedKept
  <2>14. Allowed(n)'
    <3>1. \A d \in Caller : d # c => ~(calls[d].pc \in Sending /\ calls[d].id = n)
      BY <1>0, <2>6 DEF CallsOK, CallOK
    <3>2. InFlight(n)' = {c}
      BY <2>5, <2>6, <2>11, <3>1 DEF InFlight, Sending
    <3>3. ~Swept(n)'
      <4>1. ~Sweeps(x, n)
        BY <2>5 DEF Sweeps
      <4>2. \A d \in Caller \ {c} : ~Sweeps(calls[d], n)
        BY <1>0, <2>6, <3>1 DEF CallsOK, CallOK, Sweeps
      <4> QED BY <2>11, <4>1, <4>2, OneMoved
    <3>4. ~Retryable(n)'
      BY <2>2, <2>6 DEF Retryable
    <3>5. Pledged(n)' = 0
      BY <3>3, <3>4 DEF Pledged
    <3>6. IsFiniteSet(InFlight(n)') /\ Cardinality(InFlight(n)') = 1
      BY <3>2, FS_Singleton
    <3>7. sends'[n] + Cardinality(InFlight(n)') + Pledged(n)' <= 1 + redeliveries'[n]
      BY <2>7, <3>5, <3>6
    <3> QED BY <3>6, <3>7 DEF Allowed
  <2>15. \A i \in DOMAIN events' : Allowed(i)'
    BY <2>6, <2>13, <2>14
  <2> QED BY <2>8, <2>9, <2>11, <2>12, <2>15 DEF NoticeInv
<1> QED BY <1>2, <1>3

\* An administrator has a row sent again, which is one more to be allowed.
LEMMA Redelivered ==
  ASSUME NoticeInv, NEW c \in Caller, redeliverFailedEvent(c)
  PROVE  NoticeInv'
<1>0. CallsOK /\ RowsOK /\ OneRow /\ TextInv /\ \A i \in DOMAIN events : Allowed(i)
  BY DEF NoticeInv
<1> DEFINE a == [NoCall EXCEPT !.op = "redeliver"]
<1>1. PICK i \in DOMAIN events :
        /\ redeliveries' = [redeliveries EXCEPT ![i] = @ + 1]
        /\ Does(c, Begin(a, i, events[i].attempts))
  BY DEF redeliverFailedEvent
<1>2. UNCHANGED <<events, sends, optedOut, smsConsent>> /\ calls[c].pc = "idle"
  BY DEF redeliverFailedEvent, KeepUser, Doing
<1>3. IsCall(a) /\ a.op = "redeliver" /\ a.sweep = {} /\ a.to = NoPhone
  BY DEF NoCall, IsCall
<1> HIDE DEF a
<1> DEFINE x == Begin(a, i, events[i].attempts)
<1>4. /\ IsCall(x) /\ x.pc = "deliver" /\ x.op = "redeliver" /\ x.id = i /\ x.sweep = {}
      /\ x.to = NoPhone /\ x.stopped = optedOut /\ x.covered = CoveredNow
  BY <1>3, Begun
<1> HIDE DEF x
<1>5. /\ redeliveries' \in Seq(Nat) /\ Len(redeliveries') = Len(redeliveries)
      /\ redeliveries[i] \in Nat /\ redeliveries'[i] = redeliveries[i] + 1
      /\ \A j \in DOMAIN events : j # i => redeliveries'[j] = redeliveries[j]
  <2>1. /\ redeliveries \in Seq(Nat) /\ i \in DOMAIN redeliveries
        /\ DOMAIN redeliveries = DOMAIN events /\ redeliveries[i] \in Nat
    BY <1>0 DEF RowsOK, IsSeq
  <2> DEFINE n == redeliveries[i] + 1
  <2>2. n \in Nat /\ redeliveries' = [redeliveries EXCEPT ![i] = n]
    BY <1>1, <2>1
  <2>3. redeliveries' \in Seq(Nat) /\ Len(redeliveries') = Len(redeliveries)
    <3> HIDE DEF n
    <3> QED BY <2>1, <2>2
  <2> QED BY <2>1, <2>2, <2>3
<1>6. RowsOK' /\ OneRow' /\ RowsStay /\ DOMAIN events' = DOMAIN events
  BY <1>0, <1>2, <1>5 DEF RowsOK, OneRow, RowsStay
<1>7. CallOK(x, DOMAIN events')
  BY <1>4, <1>6 DEF CallOK, Sending
<1>8. Does(c, x)
  BY <1>1 DEF x
<1>9. CallsOK' /\ calls'[c] = x /\ \A d \in Caller : d # c => calls'[d] = calls[d]
  BY <1>0, <1>4, <1>6, <1>7, <1>8, CallMoves
<1>10. TextInv'
  <2>1. TextOK(x, events'[x.id].channel, optedOut, smsConsent)
    BY <1>4, BegunText
  <2> QED BY <1>0, <1>2, <1>6, <1>9, <2>1, TextMoves
<1>11. ASSUME NEW j \in DOMAIN events
       PROVE  (Swept(j)' => Swept(j)) /\ (Retryable(j)' => Retryable(j))
  <2>1. ~Sweeps(x, j)
    BY <1>4 DEF Sweeps
  <2>2. Swept(j)' => Swept(j)
    BY <1>9, <2>1, OneMoved
  <2>3. Retryable(j)' => Retryable(j)
    BY <1>2 DEF Retryable
  <2> QED BY <2>2, <2>3
<1>12. ASSUME NEW j \in DOMAIN events, j # i PROVE Allowed(j)'
  <2>1. InFlight(j)' \subseteq InFlight(j)
    BY <1>4, <1>9, <1>12, OneMoved
  <2>2. sends'[j] = sends[j] /\ redeliveries'[j] = redeliveries[j]
    BY <1>2, <1>5, <1>12
  <2> QED BY <1>0, <1>11, <2>1, <2>2, AllowedKept
<1>13. Allowed(i)'
  <2>1. /\ sends[i] \in Nat /\ redeliveries[i] \in Nat /\ Cardinality(InFlight(i)) \in Nat
        /\ IsFiniteSet(InFlight(i)) /\ Pledged(i) \in {0, 1}
        /\ sends[i] + Cardinality(InFlight(i)) + Pledged(i) <= 1 + redeliveries[i]
    BY <1>0, Counts DEF Allowed
  <2>2. c \notin InFlight(i) /\ InFlight(i)' = InFlight(i) \cup {c}
    <3>1. calls[c].pc \notin Sending /\ calls'[c].pc \in Sending
      BY <1>2, <1>4, <1>9 DEF Sending
    <3> QED BY <1>4, <1>9, <3>1, OneMoved
  <2>3. /\ IsFiniteSet(InFlight(i)')
        /\ Cardinality(InFlight(i)') = Cardinality(InFlight(i)) + 1
    BY <2>1, <2>2, FS_AddElement
  <2>4. Pledged(i)' \in {0, 1} /\ Pledged(i)' <= Pledged(i)
    <3>1. CASE Swept(i)' \/ Retryable(i)'
      BY <1>11, <3>1 DEF Pledged
    <3>2. CASE ~(Swept(i)' \/ Retryable(i)')
      BY <2>1, <3>2 DEF Pledged
    <3> QED BY <3>1, <3>2
  <2>5. sends'[i] + Cardinality(InFlight(i)') + Pledged(i)' <= 1 + redeliveries'[i]
    BY <1>2, <1>5, <2>1, <2>3, <2>4, SMTT(30)
  <2> QED BY <2>3, <2>5 DEF Allowed
<1> QED BY <1>6, <1>9, <1>10, <1>12, <1>13 DEF NoticeInv

------------------------------------------------------------------------------
\* The steps of a delivery.

\* A delivery moves on from pc to pc.
LEMMA PcMoves ==
  ASSUME NoticeInv, NEW c \in Caller, NEW pc, calls[c].pc \in Sending,
         pc \in {"optOut", "consent", "send", "sent"},
         Does(c, [calls[c] EXCEPT !.pc = pc]), KeepRows, KeepUser,
         pc \in {"optOut", "consent"} => Channel(c) = "sms" /\ calls[c].pc = "optOut",
         pc \in {"consent", "send"} /\ Channel(c) = "sms" => calls[c].to \notin calls[c].stopped,
         pc = "send" /\ Channel(c) = "sms" => calls[c].to \in calls[c].covered
  PROVE  NoticeInv'
<1> DEFINE x == [calls[c] EXCEPT !.pc = pc]
<1>1. IsCall(calls[c]) /\ TextOK(calls[c], Channel(c), optedOut, smsConsent)
  BY DEF NoticeInv, CallsOK, TextInv
<1>2. /\ IsCall(x) /\ x.pc = pc /\ x.op = calls[c].op /\ x.id = calls[c].id
      /\ x.sweep = calls[c].sweep /\ x.to = calls[c].to /\ x.stopped = calls[c].stopped
      /\ x.covered = calls[c].covered
  BY <1>1 DEF IsCall
<1>3. Does(c, x)
  OBVIOUS
<1> HIDE DEF x
<1>4. x.pc \in Sending
  BY <1>2 DEF Sending
<1>5. TextOK(x, Channel(c), optedOut, smsConsent)
  BY <1>1, <1>2 DEF TextOK
<1>6. UNCHANGED <<optedOut, smsConsent>>
  BY DEF KeepUser
<1> QED BY <1>2, <1>3, <1>4, <1>5, <1>6, OnwardStep

\* A delivery that writes row r as it ends.
LEMMA EndsWith ==
  ASSUME NoticeInv, NEW c \in Caller, calls[c].pc \in Sending, Delivered(c), KeepUser,
         NEW r, IsRow(r), r.channel = events[calls[c].id].channel, WriteRow(c, r),
         redeliveries' = redeliveries,
         sends' = sends \/ (sends' = [sends EXCEPT ![calls[c].id] = @ + 1] /\ r.retry = FALSE)
  PROVE  NoticeInv'
<1>1. Recorded(calls[c].id)
  BY DEF Recorded, WriteRow
<1>2. UNCHANGED <<optedOut, smsConsent>>
  BY DEF KeepUser
<1> QED BY <1>1, <1>2, FinishStep

LEMMA DeliverInApp ==
  ASSUME NoticeInv, NEW c \in Caller, deliverInApp(c)
  PROVE  NoticeInv'
<1> DEFINE row == events[calls[c].id]
           r == [row EXCEPT !.status = "delivered", !.retry = FALSE]
<1>1. calls[c].pc \in Sending /\ Delivered(c) /\ KeepUser /\ UNCHANGED <<sends, redeliveries>>
  BY DEF deliverInApp, Doing, Sending
<1>2. WriteRow(c, r)
  BY DEF deliverInApp
<1>3. IsRow(row)
  BY <1>1 DEF NoticeInv, CallsOK, CallOK, RowsOK
<1> HIDE DEF row
<1>4. IsRow(r) /\ r.channel = row.channel
  BY <1>3 DEF IsRow
<1> QED BY <1>1, <1>2, <1>4, EndsWith DEF row

LEMMA Refused ==
  ASSUME NoticeInv, NEW c \in Caller, calls[c].pc \in Sending, Refuse(c), KeepUser
  PROVE  NoticeInv'
<1> DEFINE row == events[calls[c].id]
           r == [row EXCEPT !.status = "failed", !.attempts = calls[c].attempts, !.retry = FALSE]
<1>1. Delivered(c) /\ UNCHANGED <<sends, redeliveries>>
  BY DEF Refuse
<1>2. WriteRow(c, r)
  BY DEF Refuse
<1>3. IsRow(row)
  BY DEF NoticeInv, CallsOK, CallOK, RowsOK
<1> HIDE DEF row
<1>4. IsRow(r) /\ r.channel = row.channel
  BY <1>3 DEF IsRow
<1> QED BY <1>1, <1>2, <1>4, EndsWith DEF row

LEMMA DeliverEmail ==
  ASSUME NoticeInv, NEW c \in Caller, deliverEmail(c)
  PROVE  NoticeInv'
<1>1. calls[c].pc \in Sending /\ Channel(c) = "email" /\ KeepUser /\ KeepRows
  BY DEF deliverEmail, Doing, Sending
<1>2. CASE Delivered(c)
  <2>1. Recorded(calls[c].id) /\ UNCHANGED <<optedOut, smsConsent>>
    BY <1>1 DEF Recorded, KeepUser
  <2> QED BY <1>1, <1>2, <2>1, FinishStep
<1>3. CASE Does(c, [calls[c] EXCEPT !.pc = "send"])
  BY <1>1, <1>3, PcMoves
<1> QED BY <1>2, <1>3 DEF deliverEmail

LEMMA GetPhone ==
  ASSUME NoticeInv, NEW c \in Caller, getPhone(c)
  PROVE  NoticeInv'
<1>1. /\ calls[c].pc = "deliver" /\ calls[c].pc \in Sending /\ Channel(c) = "sms"
      /\ KeepUser /\ KeepRows /\ UNCHANGED <<optedOut, smsConsent>>
  BY DEF getPhone, Doing, Sending, KeepUser
<1>2. CASE phone = NoPhone
  <2>1. Recorded(calls[c].id) /\ Delivered(c)
    BY <1>1, <1>2 DEF Recorded, getPhone
  <2> QED BY <1>1, <2>1, FinishStep
<1>3. CASE phone # NoPhone
  <2> DEFINE call == calls[c]
             x == [call EXCEPT !.pc = "optOut", !.to = phone,
                               !.stopped = call.stopped \cap {phone},
                               !.covered = call.covered \cap {phone}]
  <2>1. Does(c, x)
    BY <1>3 DEF getPhone
  <2>2. /\ IsCall(call) /\ TextOK(call, Channel(c), optedOut, smsConsent)
        /\ CallOK(call, DOMAIN events)
    BY DEF NoticeInv, CallsOK, TextInv
  <2>3. call = calls[c]
    OBVIOUS
  <2> HIDE DEF call
  <2>4. /\ IsCall(x) /\ x.pc = "optOut" /\ x.op = call.op /\ x.id = call.id
        /\ x.sweep = call.sweep /\ x.to = phone /\ x.stopped = call.stopped \cap {phone}
        /\ x.covered = call.covered \cap {phone}
    BY <2>2 DEF IsCall
  <2> HIDE DEF x
  <2>5. call.pc = "deliver" /\ call.to = NoPhone
    BY <1>1, <2>2, <2>3 DEF CallOK
  <2>6. call.stopped \subseteq optedOut
    BY <2>2, <2>5 DEF TextOK, Sending
  <2>7. smsConsent.active => smsConsent.phone \in call.covered
    BY <2>2, <2>5 DEF TextOK
  <2>8. TextOK(x, Channel(c), optedOut, smsConsent)
    BY <1>1, <1>3, <2>4, <2>6, <2>7 DEF TextOK
  <2>9. x.pc \in Sending
    BY <2>4 DEF Sending
  <2> QED BY <1>1, <2>1, <2>3, <2>4, <2>8, <2>9, OnwardStep
<1> QED BY <1>2, <1>3

LEMMA IsOptedOut ==
  ASSUME NoticeInv, NEW c \in Caller, isOptedOut(c)
  PROVE  NoticeInv'
<1>1. calls[c].pc = "optOut" /\ calls[c].pc \in Sending /\ KeepUser
  BY DEF isOptedOut, Doing, Sending
<1>2. CASE calls[c].to \in optedOut
  BY <1>1, <1>2, Refused DEF isOptedOut
<1>3. CASE calls[c].to \notin optedOut
  <2>1. Does(c, [calls[c] EXCEPT !.pc = "consent"]) /\ KeepRows
    BY <1>3 DEF isOptedOut
  <2>2. Channel(c) = "sms" /\ calls[c].to \notin calls[c].stopped
    BY <1>1, <1>3 DEF NoticeInv, TextInv, TextOK
  <2> QED BY <1>1, <2>1, <2>2, PcMoves
<1> QED BY <1>2, <1>3

LEMMA FindConsent ==
  ASSUME NoticeInv, NEW c \in Caller, findConsent(c)
  PROVE  NoticeInv'
<1>1. calls[c].pc = "consent" /\ calls[c].pc \in Sending /\ KeepUser
  BY DEF findConsent, Doing, Sending
<1>2. CASE ~Covers(calls[c].to)
  BY <1>1, <1>2, Refused DEF findConsent
<1>3. CASE Covers(calls[c].to)
  <2>1. Does(c, [calls[c] EXCEPT !.pc = "send"]) /\ KeepRows
    BY <1>3 DEF findConsent
  <2>2. TextOK(calls[c], Channel(c), optedOut, smsConsent)
    BY DEF NoticeInv, TextInv
  <2>3. calls[c].to \in calls[c].covered
    BY <1>1, <1>3, <2>2 DEF TextOK, Covers
  <2>4. Channel(c) = "sms" /\ calls[c].to \notin calls[c].stopped
    BY <1>1, <2>2 DEF TextOK
  <2> QED BY <1>1, <2>1, <2>3, <2>4, PcMoves
<1> QED BY <1>2, <1>3

LEMMA ProviderAccepts ==
  ASSUME NoticeInv, NEW c \in Caller, providerAccepts(c)
  PROVE  NoticeInv'
<1>1. calls[c].pc \in Sending /\ Does(c, [calls[c] EXCEPT !.pc = "sent"]) /\ KeepUser /\ KeepRows
  BY DEF providerAccepts, Doing, Sending
<1> QED BY <1>1, PcMoves

LEMMA MarkSent ==
  ASSUME NoticeInv, NEW c \in Caller, markSent(c)
  PROVE  NoticeInv'
<1> DEFINE row == events[calls[c].id]
           m == sends'[calls[c].id]
           r == [row EXCEPT !.status = "sent", !.retry = FALSE, !.message = m]
<1>1. /\ calls[c].pc \in Sending /\ Delivered(c) /\ KeepUser /\ redeliveries' = redeliveries
      /\ sends' = [sends EXCEPT ![calls[c].id] = @ + 1]
  BY DEF markSent, Doing, Sending
<1>2. WriteRow(c, r)
  BY DEF markSent
<1>3. IsRow(row)
  BY <1>1 DEF NoticeInv, CallsOK, CallOK, RowsOK
<1> HIDE DEF row, m
<1>4. IsRow(r) /\ r.channel = row.channel /\ r.retry = FALSE
  BY <1>3 DEF IsRow
<1> HIDE DEF r
<1>5. r.channel = events[calls[c].id].channel
  BY <1>4 DEF row
<1> QED BY <1>1, <1>2, <1>4, <1>5, EndsWith

LEMMA DeliveryFails ==
  ASSUME NoticeInv, NEW c \in Caller, deliveryFails(c)
  PROVE  NoticeInv'
<1> DEFINE row == events[calls[c].id]
           n == calls[c].attempts + 1
<1>1. /\ calls[c].pc \in Sending /\ Delivered(c) /\ KeepUser /\ UNCHANGED <<sends, redeliveries>>
  BY DEF deliveryFails, Doing, Sending
<1>2. PICK b \in BOOLEAN :
        WriteRow(c, [row EXCEPT !.status = "failed", !.attempts = n, !.retry = b])
  <2>1. PICK v \in {TRUE} \cup {~Doing(c, "send")} :
          WriteRow(c, [row EXCEPT !.status = "failed", !.attempts = n,
                                  !.retry = v /\ n < MaxTries])
    BY DEF deliveryFails
  <2>2. (v /\ n < MaxTries) \in BOOLEAN
    OBVIOUS
  <2> QED BY <2>1, <2>2
<1>3. IsRow(row)
  BY <1>1 DEF NoticeInv, CallsOK, CallOK, RowsOK
<1> HIDE DEF row, n
<1> DEFINE r == [row EXCEPT !.status = "failed", !.attempts = n, !.retry = b]
<1>4. IsRow(r) /\ r.channel = row.channel
  BY <1>3 DEF IsRow
<1>5. WriteRow(c, r)
  BY <1>2
<1> HIDE DEF r
<1>6. r.channel = events[calls[c].id].channel
  BY <1>4 DEF row
<1> QED BY <1>1, <1>4, <1>5, <1>6, EndsWith

------------------------------------------------------------------------------
\* The other steps of a call.

LEMMA Stops ==
  ASSUME NoticeInv, NEW c \in Caller, Does(c, NoCall), KeepUser, KeepRows
  PROVE  NoticeInv'
<1>1. CallOK(NoCall, DOMAIN events) /\ NoCall.pc \notin Sending /\ NoCall.op # "sweep"
  BY NothingCalled DEF CallOK, Sending
<1>2. \A i : ~Sweeps(NoCall, i)
  BY <1>1 DEF Sweeps
<1>3. UNCHANGED <<optedOut, smsConsent>>
  BY DEF KeepUser
<1> QED BY <1>1, <1>2, <1>3, NothingCalled, QuietStep

\* A request goes on without touching a row.
LEMMA Quiet ==
  ASSUME NoticeInv, NEW c \in Caller, NEW x, IsCall(x), Does(c, x), KeepUser, KeepRows,
         CallOK(x, DOMAIN events), x.pc \notin Sending, x.op # "sweep"
  PROVE  NoticeInv'
<1>1. \A i : ~Sweeps(x, i)
  BY DEF Sweeps
<1>2. UNCHANGED <<optedOut, smsConsent>>
  BY DEF KeepUser
<1> QED BY <1>1, <1>2, QuietStep

LEMMA Notified ==
  ASSUME NoticeInv, NEW c \in Caller, notify(c)
  PROVE  NoticeInv'
<1> DEFINE todo == resolveChannels
           x == [NoCall EXCEPT !.op = "notify", !.pc = "channel", !.todo = todo]
<1>1. Does(c, x) /\ KeepUser /\ KeepRows
  BY DEF notify
<1> HIDE DEF todo
<1>2. IsCall(x) /\ x.op = "notify" /\ x.pc = "channel" /\ x.sweep = {} /\ x.to = NoPhone
  BY DEF NoCall, IsCall
<1> HIDE DEF x
<1>3. CallOK(x, DOMAIN events) /\ x.pc \notin Sending
  BY <1>2 DEF CallOK, Sending
<1> QED BY <1>1, <1>2, <1>3, Quiet

LEMMA NextChannel ==
  ASSUME NoticeInv, NEW c \in Caller, nextChannel(c)
  PROVE  NoticeInv'
<1> DEFINE call == calls[c]
           x == [call EXCEPT !.todo = Tail(call.todo)]
           y == [call EXCEPT !.pc = "insert"]
<1>1. call.pc = "channel" /\ KeepUser /\ KeepRows
  BY DEF nextChannel, Doing
<1>2. Does(c, NoCall) \/ Does(c, x) \/ Does(c, y)
  BY DEF nextChannel
<1>3. /\ IsCall(call) /\ call.op = "notify" /\ call.sweep = {} /\ call.to = NoPhone
  BY <1>1 DEF NoticeInv, CallsOK, CallOK
<1> HIDE DEF call
<1>4. IsCall(x) /\ x.op = "notify" /\ x.pc = "channel" /\ x.sweep = {} /\ x.to = NoPhone
  BY <1>1, <1>3 DEF IsCall
<1>5. IsCall(y) /\ y.op = "notify" /\ y.pc = "insert" /\ y.sweep = {} /\ y.to = NoPhone
  BY <1>1, <1>3 DEF IsCall
<1> HIDE DEF x, y
<1>6. /\ CallOK(x, DOMAIN events) /\ x.pc \notin Sending
      /\ CallOK(y, DOMAIN events) /\ y.pc \notin Sending
  BY <1>4, <1>5 DEF CallOK, Sending
<1> QED BY <1>1, <1>2, <1>4, <1>5, <1>6, Quiet, Stops

LEMMA Died ==
  ASSUME NoticeInv, NEW c \in Caller, Dies(c)
  PROVE  NoticeInv'
BY Stops DEF Dies

LEMMA EventArrives ==
  ASSUME NoticeInv, NEW c \in Caller, recordProviderDeliveryEvent(c)
  PROVE  NoticeInv'
<1>1. PICK i \in DOMAIN events :
        Does(c, [NoCall EXCEPT !.op = "event", !.pc = "outcome", !.id = i,
                               !.attempts = events[i].attempts])
  BY DEF recordProviderDeliveryEvent
<1> DEFINE n == events[i].attempts
           x == [NoCall EXCEPT !.op = "event", !.pc = "outcome", !.id = i, !.attempts = n]
<1>2. Does(c, x)
  BY <1>1
<1> HIDE DEF n
<1>3. IsCall(x) /\ x.op = "event" /\ x.pc = "outcome" /\ x.sweep = {} /\ x.to = NoPhone /\ x.id = i
  BY DEF NoCall, IsCall
<1> HIDE DEF x
<1>4. CallOK(x, DOMAIN events) /\ x.pc \notin Sending
  BY <1>3 DEF CallOK, Sending
<1>5. KeepUser /\ KeepRows
  BY DEF recordProviderDeliveryEvent
<1> QED BY <1>2, <1>3, <1>4, <1>5, Quiet

\* The retry job reads only rows that may be tried again, each once.
LEMMA SweepBegins ==
  ASSUME NoticeInv, NEW c \in Caller, retryDueNotifications(c)
  PROVE  NoticeInv'
<1> DEFINE due == {i \in DOMAIN events : events[i].status = "failed" /\ events[i].retry
                                         /\ events[i].attempts < MaxTries}
           w == {<<i, events[i].attempts>> : i \in due}
           x == [NoCall EXCEPT !.op = "sweep", !.pc = "next", !.sweep = w]
<1>1. /\ \A d \in Caller : calls[d].op # "sweep"
      /\ Does(c, x) /\ KeepRows
  BY DEF retryDueNotifications
<1>2. \A i \in due : i \in DOMAIN events /\ Retryable(i)
  BY DEF Retryable
<1> HIDE DEF due
<1>3. /\ \A r \in w : r[1] \in DOMAIN events /\ Retryable(r[1])
      /\ \A r, q \in w : r[1] = q[1] => r = q
  BY <1>2
<1> HIDE DEF w
<1>4. IsCall(x) /\ x.op = "sweep" /\ x.pc = "next" /\ x.sweep = w /\ x.to = NoPhone
  BY DEF NoCall, IsCall
<1> HIDE DEF x
<1>5. CallOK(x, DOMAIN events) /\ x.pc \notin Sending
  BY <1>3, <1>4 DEF CallOK, Sending
<1>6. \A i \in DOMAIN events : Sweeps(x, i) => Retryable(i)
  BY <1>3, <1>4, <1>5 DEF Sweeps
<1>7. UNCHANGED <<optedOut, smsConsent>>
  BY DEF retryDueNotifications, KeepUser
<1> QED BY <1>1, <1>4, <1>5, <1>6, <1>7, QuietStep

\* The provider's event decides a row for good.
LEMMA OutcomeMarked ==
  ASSUME NoticeInv, NEW c \in Caller, markOutcome(c)
  PROVE  NoticeInv'
<1>0. CallsOK /\ RowsOK /\ OneRow /\ TextInv /\ \A i \in DOMAIN events : Allowed(i)
  BY DEF NoticeInv
<1>1. /\ calls[c].pc = "outcome" /\ Does(c, NoCall) /\ sends' = sends
      /\ redeliveries' = redeliveries /\ UNCHANGED <<optedOut, smsConsent>>
  BY DEF markOutcome, Doing, KeepUser
<1>2. PICK id \in DOMAIN events : id = calls[c].id
  BY <1>0, <1>1 DEF CallsOK, CallOK
<1> DEFINE row == events[id]
           n == calls[c].attempts
           d == [row EXCEPT !.status = "delivered", !.retry = FALSE]
           f == [row EXCEPT !.status = "failed", !.retry = FALSE, !.attempts = n]
<1>3. events' = [events EXCEPT ![id] = d] \/ events' = [events EXCEPT ![id] = f]
  BY <1>2 DEF markOutcome, WriteRow
<1>4. IsRow(row)
  BY <1>0 DEF RowsOK
<1> HIDE DEF row, n
<1>5. /\ IsRow(d) /\ d.channel = row.channel /\ d.retry = FALSE
      /\ IsRow(f) /\ f.channel = row.channel /\ f.retry = FALSE
  BY <1>4 DEF IsRow
<1> HIDE DEF d, f
<1>6. PICK r : /\ IsRow(r) /\ r.channel = events[id].channel /\ r.retry = FALSE
               /\ events' = [events EXCEPT ![id] = r]
  BY <1>3, <1>5 DEF row
<1>7. /\ RowsOK' /\ OneRow' /\ RowsStay /\ DOMAIN events' = DOMAIN events /\ events'[id] = r
      /\ \A j \in DOMAIN events : j # id => events'[j] = events[j]
  BY <1>0, <1>1, <1>6, RowsEdited
<1>8. CallOK(NoCall, DOMAIN events) /\ NoCall.pc \notin Sending /\ NoCall.op # "sweep"
  BY NothingCalled DEF CallOK, Sending
<1>9. CallsOK' /\ calls'[c] = NoCall /\ \A e \in Caller : e # c => calls'[e] = calls[e]
  BY <1>0, <1>1, <1>7, <1>8, NothingCalled, CallMoves
<1>10. TextInv'
  BY <1>0, <1>1, <1>7, <1>8, <1>9, TextMoves
<1>11. ASSUME NEW i \in DOMAIN events PROVE Allowed(i)'
  <2>1. InFlight(i)' \subseteq InFlight(i)
    BY <1>8, <1>9, OneMoved
  <2>2. Swept(i)' => Swept(i)
    <3>1. ~Sweeps(NoCall, i)
      BY <1>8 DEF Sweeps
    <3> QED BY <1>9, <3>1, OneMoved
  <2>3. Retryable(i)' => Retryable(i)
    BY <1>6, <1>7 DEF Retryable
  <2>4. sends'[i] = sends[i] /\ redeliveries'[i] = redeliveries[i]
    BY <1>1
  <2> QED BY <1>0, <2>1, <2>2, <2>3, <2>4, AllowedKept
<1> QED BY <1>7, <1>9, <1>10, <1>11 DEF NoticeInv

------------------------------------------------------------------------------
\* The user's steps.

\* The calls keep what counts, and the rows are left alone.
LEMMA CountsKept ==
  ASSUME NoticeInv, KeepRows,
         \A c \in Caller : /\ calls'[c].pc = calls[c].pc /\ calls'[c].id = calls[c].id
                           /\ calls'[c].op = calls[c].op /\ calls'[c].sweep = calls[c].sweep
  PROVE  RowsOK' /\ OneRow' /\ RowsStay /\ DOMAIN events' = DOMAIN events
         /\ \A i \in DOMAIN events : Allowed(i)'
<1>0. RowsOK /\ OneRow /\ \A i \in DOMAIN events : Allowed(i)
  BY DEF NoticeInv
<1>1. /\ RowsOK' /\ OneRow' /\ RowsStay /\ DOMAIN events' = DOMAIN events
      /\ \A i \in DOMAIN events : /\ sends'[i] = sends[i] /\ redeliveries'[i] = redeliveries[i]
                                  /\ Retryable(i)' <=> Retryable(i)
  BY <1>0, RowsKept
<1>2. ASSUME NEW i \in DOMAIN events PROVE Allowed(i)'
  <2>1. InFlight(i)' \subseteq InFlight(i)
    BY DEF InFlight
  <2>2. Swept(i)' => Swept(i)
    BY DEF Swept, Sweeps
  <2> QED BY <1>0, <1>1, <2>1, <2>2, AllowedKept
<1> QED BY <1>1, <1>2

\* Numbers are opted out, and consents withdrawn, under the callers' feet.
LEMMA UserStep ==
  ASSUME NoticeInv, calls' = calls, KeepRows, optedOut \subseteq optedOut',
         IsConsent(smsConsent'),
         smsConsent'.active => smsConsent.active /\ smsConsent'.phone = smsConsent.phone
  PROVE  NoticeInv'
<1>0. CallsOK /\ TextInv
  BY DEF NoticeInv
<1>1. RowsOK' /\ OneRow' /\ RowsStay /\ DOMAIN events' = DOMAIN events
      /\ \A i \in DOMAIN events : Allowed(i)'
  BY CountsKept
<1>2. CallsOK'
  BY <1>0, <1>1 DEF CallsOK
<1>3. ASSUME NEW c \in Caller PROVE TextOK(calls[c], Channel(c)', optedOut', smsConsent')
  <2>1. Channel(c)' = Channel(c)
    BY DEF Channel, KeepRows
  <2>2. TextOK(calls[c], Channel(c), optedOut, smsConsent)
    BY <1>0 DEF TextInv
  <2> QED BY <2>1, <2>2 DEF TextOK
<1>4. TextInv'
  BY <1>3 DEF TextInv
<1> QED BY <1>1, <1>2, <1>4 DEF NoticeInv

LEMMA ConsentWithdrawn ==
  ASSUME NoticeInv, withdrawSmsConsent
  PROVE  NoticeInv'
<1>1. /\ IsConsent(smsConsent) /\ calls' = calls /\ KeepRows /\ optedOut' = optedOut
      /\ smsConsent' = [smsConsent EXCEPT !.active = FALSE]
  BY DEF NoticeInv, TextInv, withdrawSmsConsent
<1>2. IsConsent(smsConsent') /\ smsConsent'.active = FALSE
  BY <1>1 DEF IsConsent
<1> QED BY <1>1, <1>2, UserStep

\* A consent covers its number for every delivery under way.
LEMMA ConsentWritten ==
  ASSUME NoticeInv, writeConsent
  PROVE  NoticeInv'
<1>0. CallsOK /\ RowsOK /\ TextInv
  BY DEF NoticeInv
<1> DEFINE k == consenting
           Now(c) == calls[c].id # 0 /\ calls[c].to \in {NoPhone, k}
           new(x) == [x EXCEPT !.covered = x.covered \cup {k}]
<1>1. /\ smsConsent' = [active |-> TRUE, phone |-> k] /\ optedOut' = optedOut /\ KeepRows
      /\ calls' = [c \in Caller |-> IF Now(c) THEN new(calls[c]) ELSE calls[c]]
  BY DEF writeConsent
<1>2. /\ IsConsent(smsConsent') /\ smsConsent'.phone = k
  BY <1>1 DEF IsConsent
<1> HIDE DEF k
<1>3. ASSUME NEW c \in Caller
      PROVE  /\ IsCall(calls'[c])
             /\ calls'[c].pc = calls[c].pc /\ calls'[c].id = calls[c].id
             /\ calls'[c].op = calls[c].op /\ calls'[c].sweep = calls[c].sweep
             /\ calls'[c].to = calls[c].to /\ calls'[c].stopped = calls[c].stopped
             /\ calls[c].covered \subseteq calls'[c].covered
             /\ Now(c) => k \in calls'[c].covered
  <2>1. IsCall(calls[c])
    BY <1>0 DEF CallsOK
  <2>2. CASE Now(c)
    <3> DEFINE x == calls[c]
    <3>1. calls'[c] = new(x)
      BY <1>1, <2>2
    <3>2. IsCall(x)
      BY <2>1
    <3> HIDE DEF x
    <3>3. /\ IsCall(new(x)) /\ new(x).pc = x.pc /\ new(x).id = x.id /\ new(x).op = x.op
          /\ new(x).sweep = x.sweep /\ new(x).to = x.to /\ new(x).stopped = x.stopped
          /\ new(x).covered = x.covered \cup {k}
      BY <3>2 DEF IsCall
    <3> HIDE DEF new
    <3> QED BY <3>1, <3>3 DEF x
  <2>3. CASE ~Now(c)
    <3>1. calls'[c] = calls[c]
      BY <1>1, <2>3
    <3> QED BY <2>1, <2>3, <3>1
  <2> QED BY <2>2, <2>3
<1>4. calls' = [c \in Caller |-> calls'[c]]
  BY <1>1
<1>5. RowsOK' /\ OneRow' /\ RowsStay /\ DOMAIN events' = DOMAIN events
      /\ \A i \in DOMAIN events : Allowed(i)'
  BY <1>1, <1>3, CountsKept
<1>6. CallsOK'
  <2>1. \A c \in Caller : IsCall(calls'[c]) /\ CallOK(calls'[c], DOMAIN events')
    BY <1>0, <1>3, <1>5 DEF CallsOK, CallOK
  <2>2. \A c, d \in Caller : calls'[c].op = "sweep" /\ calls'[d].op = "sweep" => c = d
    BY <1>0, <1>3 DEF CallsOK
  <2> QED BY <1>4, <2>1, <2>2 DEF CallsOK
<1>7. ASSUME NEW c \in Caller PROVE TextOK(calls'[c], Channel(c)', optedOut', smsConsent')
  <2>1. Channel(c)' = Channel(c)
    BY <1>1, <1>3 DEF Channel, KeepRows
  <2>2. TextOK(calls[c], Channel(c), optedOut, smsConsent)
    BY <1>0 DEF TextInv
  <2>3. calls[c].pc \in Sending => calls[c].id # 0
    BY <1>0 DEF CallsOK, CallOK, RowsOK, IsSeq
  <2>4. calls'[c].pc \in {"deliver", "optOut", "consent"} /\ calls'[c].to \in {NoPhone, k}
          => k \in calls'[c].covered
    BY <1>3, <2>3 DEF Sending
  <2> QED BY <1>1, <1>2, <1>3, <2>1, <2>2, <2>4 DEF TextOK
<1>8. TextInv'
  BY <1>2, <1>7 DEF TextInv
<1> QED BY <1>5, <1>6, <1>8 DEF NoticeInv

------------------------------------------------------------------------------
\* The theorems.

LEMMA NoticeInitial ==
  ASSUME NoticeInit
  PROVE  NoticeInv
<1>1. /\ events = <<>> /\ sends = <<>> /\ redeliveries = <<>>
      /\ calls = [c \in Caller |-> NoCall] /\ smsConsent = [active |-> FALSE, phone |-> NoPhone]
  BY DEF NoticeInit
<1>2. IsConsent(smsConsent)
  BY <1>1 DEF IsConsent
<1>3. \A c \in Caller : calls[c] = NoCall
  BY <1>1
<1>4. CallOK(NoCall, DOMAIN events) /\ NoCall.op # "sweep"
  BY NothingCalled DEF CallOK, Sending
<1>5. CallsOK
  <2>1. calls = [c \in Caller |-> calls[c]]
    BY <1>1
  <2> QED BY <1>3, <1>4, <2>1, NothingCalled DEF CallsOK
<1>6. DOMAIN events = {} /\ RowsOK
  BY <1>1 DEF RowsOK, IsSeq
<1>7. TextInv
  <2>1. \A c \in Caller : calls[c].pc = "idle"
    BY <1>3, NothingCalled
  <2> QED BY <1>2, <2>1 DEF TextInv, TextOK, Sending
<1> QED BY <1>5, <1>6, <1>7 DEF NoticeInv, OneRow

LEMMA NoticeStep ==
  ASSUME NoticeInv, [NoticeNext]_noticeVars
  PROVE  NoticeInv'
<1>0. IsConsent(smsConsent)
  BY DEF NoticeInv, TextInv
<1>1. CASE NoticeNext
  <2>1. ASSUME NEW c \in Caller,
               \/ notify(c) \/ nextChannel(c) \/ insertNotice(c)
               \/ retryDueNotifications(c) \/ nextDue(c) \/ redeliverFailedEvent(c)
        PROVE  NoticeInv'
    BY <2>1, Notified, NextChannel, Inserted, SweepBegins, NextDue, Redelivered
  <2>2. ASSUME NEW c \in Caller,
               \/ deliverInApp(c) \/ deliverEmail(c) \/ getPhone(c) \/ isOptedOut(c) \/ findConsent(c)
               \/ providerAccepts(c) \/ markSent(c) \/ deliveryFails(c)
        PROVE  NoticeInv'
    BY <2>2, DeliverInApp, DeliverEmail, GetPhone, IsOptedOut, FindConsent, ProviderAccepts,
       MarkSent, DeliveryFails
  <2>3. ASSUME NEW c \in Caller, Dies(c) \/ recordProviderDeliveryEvent(c) \/ markOutcome(c)
        PROVE  NoticeInv'
    BY <2>3, Died, EventArrives, OutcomeMarked
  <2>4. CASE setPreference \/ changePhone \/ recordSmsOptOut \/ activateSmsConsent
    <3>1. /\ calls' = calls /\ KeepRows /\ optedOut \subseteq optedOut'
          /\ smsConsent' = smsConsent
      BY <2>4 DEF setPreference, changePhone, recordSmsOptOut, activateSmsConsent
    <3> QED BY <1>0, <3>1, UserStep
  <2>5. CASE writeConsent \/ withdrawSmsConsent
    BY <2>5, ConsentWritten, ConsentWithdrawn
  <2> QED BY <1>1, <2>1, <2>2, <2>3, <2>4, <2>5 DEF NoticeNext
<1>2. CASE UNCHANGED noticeVars
  <2>1. calls' = calls /\ KeepRows /\ optedOut' = optedOut /\ smsConsent' = smsConsent
    BY <1>2 DEF noticeVars, KeepRows
  <2> QED BY <1>0, <2>1, UserStep
<1> QED BY <1>1, <1>2

\* However often NotificationService.notify runs for one dedupe key, in any
\* number of processes, and whatever deliver, the daily retry job, redelivery
\* and the provider's events do in between, each channel has one
\* notification_event row (notification_event_dedupe_key_unique), and it is
\* recorded as sent at most once, and once more per redelivery asked for.
THEOREM NobodyIsToldTwice == NoticeSpec => []ToldOnce
<1>1. ASSUME NoticeInv PROVE ToldOnce
  <2> SUFFICES ASSUME NEW ch \in ToSet(notice.channels),
                      NEW i \in {j \in DOMAIN events : events[j].channel = ch}
               PROVE  /\ sends[i] <= 1 + redeliveries[i]
                      /\ Cardinality({j \in DOMAIN events : events[j].channel = ch}) = 1
    BY DEF ToldOnce
  <2>1. {j \in DOMAIN events : events[j].channel = ch} = {i}
    BY <1>1 DEF NoticeInv, OneRow
  <2>2. Cardinality({i}) = 1
    BY FS_Singleton
  <2>3. RowsOK /\ Allowed(i) /\ i \in DOMAIN events
    BY <1>1 DEF NoticeInv
  <2>4. /\ sends[i] \in Nat /\ redeliveries[i] \in Nat /\ Cardinality(InFlight(i)) \in Nat
        /\ Pledged(i) \in {0, 1}
    BY <2>3, Counts
  <2>5. sends[i] <= 1 + redeliveries[i]
    BY <2>3, <2>4 DEF Allowed
  <2> QED BY <2>1, <2>2, <2>5
<1> QED BY <1>1, NoticeInitial, NoticeStep, PTL DEF NoticeSpec

\* deliver hands a text to the provider only for a number that was not opted
\* out when the delivery began and that an active sms_consent has covered since
\* then, while STOP, withdrawal, a new consent and a change of number go on
\* between its awaits.
THEOREM NobodyIsTextedAgainstTheirWill == NoticeSpec => []TextsAreConsented
<1>1. ASSUME NoticeInv PROVE TextsAreConsented
  BY <1>1 DEF NoticeInv, TextInv, TextOK, TextsAreConsented, Doing
<1> QED BY <1>1, NoticeInitial, NoticeStep, PTL DEF NoticeSpec
==============================================================================
