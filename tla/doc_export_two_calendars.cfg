SPECIFICATION ExportSpec
CONSTANTS
  Worker = {w1}
  MaxItem = 6
  MaxAttempts = 2
  BatchLimit = 2
  BackoffSteps <- OneStep
  BoxFaults = {}
  MaxTask = 1
  Binding = {b1, b2}
  Client = {c1}
  MaxChange = 2
  Overlap = FALSE
  ExportFaults = {}
INVARIANT OneEventPerCalendar
CHECK_DEADLOCK FALSE
