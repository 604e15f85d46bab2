SPECIFICATION SceneSpec
CONSTANTS
  Event = {"s1", "b1", "r1", "d1"}
  Payment = {"p1"}
  Installment = {"i1"}
  InstallmentOf <- OnlyInstallment
  Worker = {"w1"}
  MaxFaults = 1
  TypeOf <- TypeFn
  PaymentOf <- PaymentFn
  SourceOf <- SourceFn
  AmountIn <- AmountFn
  FeeIn <- FeeFn
  Foreign <- NoEvents
  AmountOf <- PaymentAmounts
  DueOn <- InstallmentDues
  SceneSet <- RepairScenes
INVARIANTS BookedOnEvidence CompletionIsEarnedWithoutRefunds
PROPERTY StatusIsAccountedFor
CHECK_DEADLOCK FALSE
