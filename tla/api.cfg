SPECIFICATION Spec
CONSTANTS
  MaxId = 3
  MaxUsers = 1
  MaxFault = 1
  Scenario <- Cases
INVARIANTS
  LimitOvershoot StatusIsHonest OneDeleteAnswered GoneUserStaysGone OneDigestPerChat
  DigestTold GroupInUseStays ListsAgree CompletedStays
PROPERTY NothingGoesBack
\* Every scenario ends when its requests are answered.
CHECK_DEADLOCK FALSE
