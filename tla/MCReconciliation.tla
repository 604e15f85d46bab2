-------------------------- MODULE MCReconciliation --------------------------
(***************************************************************************)
(* One payment for one installment.  Each scene allows some events, with   *)
(* or without a refund through the service, and a bound on the faults.     *)
(***************************************************************************)
EXTENDS Reconciliation

CONSTANT SceneSet   \* the scenes of this run
VARIABLE scene      \* the one that was picked

Webhook(type, fee) == [type |-> type, fee |-> fee]

Catalogue ==
  [s1 |-> Webhook("payment.succeeded", 0),
   b1 |-> Webhook("payment.succeeded", 3),
   r1 |-> Webhook("payment.refunded", 0),
   d1 |-> Webhook("payment.disputed", 0)]

TypeFn    == [e \in Event |-> Catalogue[e].type]
PaymentFn == [e \in Event |-> "p1"]
SourceFn  == [e \in Event |-> "webhook"]
AmountFn  == [e \in Event |-> 2]
FeeFn     == [e \in Event |-> Catalogue[e].fee]
NoEvents  == {}
OnlyInstallment == [p \in Payment |-> "i1"]
Two(S)          == [x \in S |-> 2]
PaymentAmounts  == Two(Payment)
InstallmentDues == Two(Installment)

Scene(events, refunds, mistakes) ==
  [events |-> events, refunds |-> refunds, mistakes |-> mistakes]

RepairScenes ==
  {Scene({"s1", "d1"}, FALSE, 0),   \* the pipeline alone would do
   Scene({"b1", "s1"}, FALSE, 1),   \* a poisoned success, and a crash
   Scene({"b1", "r1"}, FALSE, 0),
   Scene({"s1", "r1"}, TRUE, 0)}    \* a refund through the service

RefundScenes == {Scene({"s1", "r1"}, TRUE, 0)}

InScene ==
  /\ \A e \in Event \ scene.events : event[e].status = "absent"
  /\ \A p \in Payment : refund[p] # "none" => scene.refunds
  /\ faults <= scene.mistakes

SceneInit == RInit /\ scene \in SceneSet
SceneNext == RNext /\ UNCHANGED scene /\ InScene'
SceneSpec == SceneInit /\ [][SceneNext]_<<allVars, scene>> /\ RFairness

\* Everything the provider has to say arrives, for a run whose one scene leaves
\* no event out.
DeliveredSpec ==
  /\ SceneSpec
  /\ \A e \in Event : SF_vars(\E w \in Worker : tryInsertAndClaim(w, e))
  /\ \A p \in Payment : WF_vars(PersistProviderPaymentId(p))
==============================================================================
