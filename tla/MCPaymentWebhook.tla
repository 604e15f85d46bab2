--------------------------- MODULE MCPaymentWebhook ---------------------------
(***************************************************************************)
(* A catalogue of events, and the scenes in which subsets of them meet.    *)
(* One run explores several scenes: each is a behaviour of the pipeline in *)
(* which only the scene's events arrive, its payments' submissions end, at *)
(* most its number of workers are busy at a time, at most its number of    *)
(* faults happen, and the due date may pass or not.  Both payments are for *)
(* the one installment.                                                    *)
(***************************************************************************)
EXTENDS PaymentWebhook, TLC

CONSTANT SceneSet   \* the scenes of this run
VARIABLE scene      \* the one that was picked

Webhook(type, p) ==
  [type |-> type, payment |-> p, amount |-> 2, fee |-> 0, source |-> "webhook"]

Lookup(type, p) == [Webhook(type, p) EXCEPT !.source = "provider_lookup"]

Catalogue ==
  [s1 |-> Webhook("payment.succeeded", "p1"),
   t1 |-> [Webhook("payment.succeeded", "p1") EXCEPT !.fee = 1],
   a1 |-> [Webhook("payment.succeeded", "p1") EXCEPT !.amount = 1],
   b1 |-> [Webhook("payment.succeeded", "p1") EXCEPT !.fee = 3],
   l1 |-> Lookup("payment.succeeded", "p1"),
   m1 |-> [Lookup("payment.succeeded", "p1") EXCEPT !.fee = 3],
   f1 |-> Webhook("payment.failed", "p1"),
   r1 |-> Webhook("payment.refunded", "p1"),
   r2 |-> Webhook("payment.refunded", "p1"),
   r3 |-> Webhook("payment.refunded", "p1"),
   d1 |-> Webhook("payment.disputed", "p1"),
   n1 |-> Webhook("payment.returned", "p1"),
   v1 |-> Webhook("payment.reversed", "p1"),
   o1 |-> Webhook("payout.paid", "p1"),
   u1 |-> Webhook("unrecognized", "p1"),
   x1 |-> Webhook("payment.succeeded", "p1"),
   q2 |-> Webhook("payment.succeeded", "p2"),
   z2 |-> Webhook("payment.refunded", "p2")]

ForeignEvents == Event \cap {"x1"}

TypeFn    == [e \in Event |-> Catalogue[e].type]
PaymentFn == [e \in Event |-> Catalogue[e].payment]
SourceFn  == [e \in Event |-> Catalogue[e].source]
AmountFn  == [e \in Event |-> Catalogue[e].amount]
FeeFn     == [e \in Event |-> Catalogue[e].fee]

SharedInstallment == [p \in Payment |-> "i1"]
Two(S)            == [x \in S |-> 2]
PaymentAmounts    == Two(Payment)
InstallmentDues   == Two(Installment)

Symmetry == Permutations(Worker)

------------------------------------------------------------------------------
Scene(events, busy, mistakes, late) ==
  [events |-> events, busy |-> busy, mistakes |-> mistakes, late |-> late]

\* A success and its refund, and what else may touch the installment.
BookScenes ==
  {Scene({"s1", "r1", "q2"}, 2, 0, FALSE),   \* another payment covers it too,
   Scene({"s1", "r1", "q2"}, 1, 1, FALSE),   \* by one worker after another
   Scene({"s1", "q2"}, 2, 1, FALSE),         \* or by two at a time
   Scene({"f1", "q2", "z2"}, 2, 0, FALSE),   \* a failed payment and its retry
   Scene({"s1", "o1", "u1"}, 1, 1, TRUE)}    \* a payout, and an unknown event

\* What the events say, and who may act on it.
EvidenceScenes ==
  {Scene({"s1", "r1"}, 2, 2, FALSE),         \* overtaken workers
   Scene({"s1", "r1"}, 2, 1, TRUE),          \* and a due date that passes
   Scene({"s1", "t1", "r1"}, 2, 0, FALSE),   \* successes that disagree
   Scene({"s1", "d1", "r1"}, 2, 0, FALSE),   \* reversals that disagree
   Scene({"a1", "b1", "l1"}, 1, 0, FALSE),   \* unsound evidence: an amount,
   Scene({"b1", "m1", "x1"}, 1, 0, FALSE),   \* a fee, a source, a provider
   Scene({"s1", "o1", "r1"}, 1, 1, FALSE)}   \* payout, then refund

AllScenes == BookScenes \cup EvidenceScenes

RecoveryScenes == {Scene({"s1", "r1"}, 2, 1, TRUE)}
PayoutScenes   == {Scene({"s1", "o1", "r1"}, 2, 0, FALSE)}

InScene ==
  /\ \A e \in Event \ scene.events : event[e].status = "absent"
  /\ \A p \in Payment : payment[p].id => \E e \in scene.events : PaymentOf[e] = p
  /\ Cardinality({w \in Worker : worker[w].pc # "idle"}) <= scene.busy
  /\ faults <= scene.mistakes
  /\ overdue # {} => scene.late

SceneInit == Init /\ scene \in SceneSet
SceneNext == Next /\ UNCHANGED scene /\ InScene'
SceneSpec == SceneInit /\ [][SceneNext]_<<vars, scene>>

\* For a run whose one scene leaves nothing out.
FairSceneSpec == SceneSpec /\ Fairness
==============================================================================
