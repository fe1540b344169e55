SPECIFICATION FairSpec
CONSTANTS
  e1 = e1
  e2 = e2
  Event = {e1, e2}
  MaxTask = 4
  MaxTime = 4
  MaxAttempts = 2
  BackoffSteps <- TwoSteps
  Period = 2
  Scenario <- Cases
INVARIANTS TokenNotAhead OneTaskPerEvent ImportArmed UnboundIsEmpty
PROPERTIES RemovedStays CatchesUp
\* The bounds on the world bring every behaviour to an end.
CHECK_DEADLOCK FALSE
