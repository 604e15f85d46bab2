SPECIFICATION FairSceneSpec
CONSTANTS
  Event = {"s1", "r1"}
  Payment = {"p1"}
  Installment = {"i1"}
  InstallmentOf <- SharedInstallment
  Worker = {w1, w2}
  MaxFaults = 1
  TypeOf <- TypeFn
  PaymentOf <- PaymentFn
  SourceOf <- SourceFn
  AmountIn <- AmountFn
  FeeIn <- FeeFn
  Foreign <- ForeignEvents
  AmountOf <- PaymentAmounts
  DueOn <- InstallmentDues
  SceneSet <- RecoveryScenes
PROPERTY EveryEventSettles
CHECK_DEADLOCK FALSE
