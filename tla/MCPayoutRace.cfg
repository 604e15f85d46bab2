SPECIFICATION SceneSpec
CONSTANTS
  Event = {"s1", "o1", "r1"}
  Payment = {"p1"}
  Installment = {"i1"}
  InstallmentOf <- SharedInstallment
  Worker = {w1, w2}
  MaxFaults = 0
  TypeOf <- TypeFn
  PaymentOf <- PaymentFn
  SourceOf <- SourceFn
  AmountIn <- AmountFn
  FeeIn <- FeeFn
  Foreign <- ForeignEvents
  AmountOf <- PaymentAmounts
  DueOn <- InstallmentDues
  SceneSet <- PayoutScenes
SYMMETRY Symmetry
INVARIANT PayoutBlockedOnceReversed
CHECK_DEADLOCK FALSE
