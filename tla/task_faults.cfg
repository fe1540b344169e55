SPECIFICATION Spec
CONSTANTS
  MaxTask = 3
  DayLen = 2
  Period = 3
  Handler = {h1}
  Cron = cron
  MaxInFlight = 1
  MaxRequests = 4
  MaxTime = 4
  Ops = {"create", "update", "delete", "done", "mute", "queue"}
  CreateRequests <- SeriesNoChat
  PutRequests <- Dismantle
  Faults = {"publish", "db", "crash"}
INVARIANTS AtMostOneActiveChild FinishedNotArmed GoneParentHasNoActiveChild
\* The bounds on time and requests bring every behaviour to an end.
CHECK_DEADLOCK FALSE
