SPECIFICATION ExportSpec
CONSTANTS
  Worker = {w1}
  MaxItem = 4
  MaxAttempts = 2
  BatchLimit = 2
  BackoffSteps <- OneStep
  BoxFaults = {"claim", "mark", "crash"}
  MaxTask = 1
  Binding = {b1}
  Client = {c1, c2}
  MaxChange = 4
  Overlap = FALSE
  ExportFaults = {"call", "lost", "write"}
INVARIANTS OneEventPerCalendar GoneHasNoEvent InScopeIsCurrent
\* The bounds on requests and items bring every behaviour to an end.
CHECK_DEADLOCK FALSE
