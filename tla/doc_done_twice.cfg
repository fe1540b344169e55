SPECIFICATION Spec
CONSTANTS
  MaxTask = 4
  DayLen = 2
  Period = 3
  Handler = {h1, h2}
  Cron = cron
  MaxInFlight = 2
  MaxRequests = 3
  MaxTime = 2
  Ops = {"create", "done"}
  CreateRequests <- OnlySeries
  PutRequests <- NoPuts
  Faults = {}
INVARIANTS AtMostOneActiveChild
\* The bounds on time and requests bring every behaviour to an end.
CHECK_DEADLOCK FALSE
