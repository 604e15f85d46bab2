SPECIFICATION DeliveredSpec
CONSTANTS
  Event = {"s1", "r1"}
  Payment = {"p1"}
  Installment = {"i1"}
  InstallmentOf <- OnlyInstallment
  Worker = {"w1"}
  MaxFaults = 0
  TypeOf <- TypeFn
  PaymentOf <- PaymentFn
  SourceOf <- SourceFn
  AmountIn <- AmountFn
  FeeIn <- FeeFn
  Foreign <- NoEvents
  AmountOf <- PaymentAmounts
  DueOn <- InstallmentDues
  SceneSet <- RefundScenes
PROPERTY ReversalReopens
CHECK_DEADLOCK FALSE
