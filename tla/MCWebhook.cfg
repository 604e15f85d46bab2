SPECIFICATION SceneSpec
CONSTANTS
  Event = {"s1", "r1", "q2", "f1", "z2", "o1", "u1", "t1", "d1", "a1", "b1", "l1", "m1", "x1"}
  Payment = {"p1", "p2"}
  Installment = {"i1"}
  InstallmentOf <- SharedInstallment
  Worker = {w1, w2}
  MaxFaults = 2
  TypeOf <- TypeFn
  PaymentOf <- PaymentFn
  SourceOf <- SourceFn
  AmountIn <- AmountFn
  FeeIn <- FeeFn
  Foreign <- ForeignEvents
  AmountOf <- PaymentAmounts
  DueOn <- InstallmentDues
  SceneSet <- AllScenes
SYMMETRY Symmetry
INVARIANTS PaidIsCovered OneCompensation NoRetryOfCovered ProcessedMeansDone
  TypeOK StatusHasOneAuthor NoOutcomeDropped DisagreementIsSurfaced
  ClearedIsEarned ProceedsNotOverdrawn
PROPERTIES ProcessedIsFinal ImplementsLifecycle
CHECK_DEADLOCK FALSE
