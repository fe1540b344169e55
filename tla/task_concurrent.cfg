SPECIFICATION FairSpec
CONSTANTS
  MaxTask = 6
  DayLen = 2
  Period = 3
  Handler = {h1, h2}
  Cron = cron
  MaxInFlight = 2
  MaxRequests = 3
  MaxTime = 5
  Ops = {"create", "update", "delete", "done", "mute", "unmute", "queue"}
  CreateRequests <- SeriesOneTime
  PutRequests <- TitleUnmute
  Faults = {}
PROPERTIES DeletedFrozen EveryRequestEnds MissedRemindersMove
\* The bounds on time and requests bring every behaviour to an end.
CHECK_DEADLOCK FALSE
