SPECIFICATION SceneSpec
CONSTANTS
  Request = {"create1", "again1", "plan2", "submit2", "manual3", "charge2",
    "remand3", "confirm3", "manual4", "refund1", "other2", "cancel1"}
  Key = {"k1", "k2", "k3", "k4"}
  Installment = {"i1", "i2"}
  DailyLimit = 9
  MaxFaults = 1
  Op <- OpFn
  KeyOf <- KeyFn
  InstallmentOf <- InstallmentFn
  AmountOf <- AmountFn
  Due <- DueFn
  SceneSet <- ReservationScenes
INVARIANTS OneUnresolvedAttempt NotOvercharged ReplayIsSame
PROPERTIES EveryChargeResolves
CHECK_DEADLOCK FALSE
