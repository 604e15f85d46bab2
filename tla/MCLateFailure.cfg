SPECIFICATION SceneSpec
CONSTANTS
  Request = {"charge2", "manual4"}
  Key = {"k2", "k4"}
  Installment = {"i1"}
  DailyLimit = 9
  MaxFaults = 1
  Op <- OpFn
  KeyOf <- KeyFn
  InstallmentOf <- InstallmentFn
  AmountOf <- AmountFn
  Due <- DueFn
  SceneSet <- LateFailureScenes
INVARIANT NotOverpaid
CHECK_DEADLOCK FALSE
