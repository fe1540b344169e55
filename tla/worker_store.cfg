SPECIFICATION FairSpec
CONSTANTS
  Task = {t1}
  Message <- Messages
  MaxMsg = 3
  MaxTime = 3
  Limit = 1
  Period = 2
  Retry = 2
  DupeTTL = 2
  PostTime = 1
  MaxFault = 1
  Faults = {"redis", "webhook", "crash"}
INVARIANTS ScheduledIsKept OnlyRepeatsAreSkipped DeletedIsSilent PreHasMain NoEmptyJob AckedApart
PROPERTY DueIsTaken
\* The bounds on messages and time bring every behaviour to an end.
CHECK_DEADLOCK FALSE
