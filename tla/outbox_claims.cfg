SPECIFICATION FairBoxSpec
CONSTANTS
  Worker = {w1, w2}
  MaxItem = 3
  MaxAttempts = 3
  BatchLimit = 2
  BackoffSteps <- OneThenTwo
  BoxFaults = {"claim", "mark", "crash"}
INVARIANTS ClaimsAgree GivenUpAtTheLimit
PROPERTIES FinalStays ImplementsQueue EndsOrStranded
\* The bounds on time and items bring every behaviour to an end.
CHECK_DEADLOCK FALSE
