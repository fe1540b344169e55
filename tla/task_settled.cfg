SPECIFICATION Spec
CONSTANTS
  MaxTask = 4
  DayLen = 2
  Period = 3
  Handler = {h1}
  Cron = cron
  MaxInFlight = 1
  MaxRequests = 5
  MaxTime = 4
  Ops = {"create", "update", "done", "mute", "unmute"}
  CreateRequests <- AllKinds
  PutRequests <- ConfToggles
  Faults = {}
INVARIANTS SilentNotArmed SeriesHasItsOccurrence ArmedMatchesRow
\* The bounds on time and requests bring every behaviour to an end.
CHECK_DEADLOCK FALSE
