SPECIFICATION FairSpec
CONSTANTS
  Retry = {"t1", "t2"}
  Manual = {"m1"}
  Worker = {"w1", "w2"}
  Amount <- Amounts
  Due = 2
  MaxFaults = 1
INVARIANTS NotOvercharged RowsMatchCharges
PROPERTIES EveryRetryResolves
CHECK_DEADLOCK FALSE
