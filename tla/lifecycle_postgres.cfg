CONSTANTS
  Operations = {o1}
  Principals = {p1, p2}
  Sessions = {s1, s2}
  Sweeper = sweeper
  None = None
  MaxConcurrent = 1
  ApprovalTTL = 1
  ExecutionTTL = 1
  SingleWriter = FALSE
  EnableV2 = TRUE
  MaxTime = 4
  MaxCrashes = 0
SPECIFICATION FairSpec
CHECK_DEADLOCK FALSE
PROPERTIES
  ImplementsContract
  OverdueIsSettled
  ExecutionResolves
