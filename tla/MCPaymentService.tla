--------------------------- MODULE MCPaymentService ---------------------------
(***************************************************************************)
(* A catalogue of requests, each named after its operation and the row it  *)
(* is about, and the scenes in which some of them meet, with a bound on    *)
(* the faults.  Both installments are due 2.                               *)
(***************************************************************************)
EXTENDS PaymentService

CONSTANT SceneSet   \* the scenes of this run
VARIABLE scene      \* the one that was picked

Ask(op, k, i, n) == [op |-> op, key |-> k, installment |-> i, amount |-> n]

Catalogue ==
  [create1  |-> Ask("create", "k1", "i1", 1),
   again1   |-> Ask("create", "k1", "i1", 2),
   charge1  |-> Ask("charge", "k1", "i1", 2),
   double1  |-> Ask("charge", "k1", "i1", 2),
   charge2  |-> Ask("charge", "k2", "i1", 1),
   other2   |-> Ask("charge", "k2", "i2", 2),
   plan2    |-> Ask("schedule", "k2", "i1", 2),
   submit2  |-> Ask("submit", "k2", "i1", 2),
   cancel1  |-> Ask("cancel", "k1", "i1", 2),
   cancel2  |-> Ask("cancel", "k2", "i1", 2),
   refund1  |-> Ask("refund", "k1", "i1", 2),
   manual3  |-> Ask("manual", "k3", "i1", 1),
   manual4  |-> Ask("manual", "k4", "i1", 2),
   remand3  |-> Ask("manual", "k3", "i1", 1),
   confirm3 |-> Ask("confirm", "k3", "i1", 1)]

OpFn          == [r \in Request |-> Catalogue[r].op]
KeyFn         == [r \in Request |-> Catalogue[r].key]
InstallmentFn == [r \in Request |-> Catalogue[r].installment]
AmountFn      == [r \in Request |-> Catalogue[r].amount]
DueFn         == [i \in Installment |-> 2]

------------------------------------------------------------------------------
Scene(requests, mistakes) == [requests |-> requests, mistakes |-> mistakes]

ReservationScenes ==
  {\* A charge, its key used for another amount, a plan, a manual payment.
   Scene({"create1", "again1", "plan2", "submit2"}, 0),
   Scene({"create1", "plan2", "submit2", "manual3"}, 0),
   \* A charge and manual payments, a replay or a confirmation, with one fault.
   Scene({"charge2", "manual3", "remand3", "manual4"}, 1),
   Scene({"charge2", "manual3", "confirm3", "manual4"}, 1),
   \* A cancel and a refund, and a charge for another installment.
   Scene({"create1", "refund1", "other2", "cancel1"}, 0)}

LateFailureScenes == {Scene({"charge2", "manual4"}, 1)}

InScene ==
  /\ \A r \in Request \ scene.requests : request[r].pc = "idle"
  /\ faults <= scene.mistakes

SceneInit == Init /\ scene \in SceneSet
SceneNext == Next /\ UNCHANGED scene /\ InScene'
SceneSpec == SceneInit /\ [][SceneNext]_<<vars, scene>> /\ Fairness
==============================================================================
