SPECIFICATION Spec
CONSTANTS
  MaxTask = 3
  DayLen = 2
  Period = 3
  Handler = {h1}
  Cron = cron
  MaxInFlight = 1
  MaxRequests = 2
  MaxTime = 4
  Ops = {"create", "update"}
  CreateRequests <- OnlySeries
  PutRequests <- OnlyConfOff
  Faults = {}
INVARIANTS NoSelfBlock
\* The bounds on time and requests bring every behaviour to an end.
CHECK_DEADLOCK FALSE
