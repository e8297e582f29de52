CONSTANTS
  Operations = {o1, o2}
  Principals = {p1}
  Sessions = {s1, s2}
  Sweeper = sweeper
  None = None
  MaxConcurrent = 1
  ApprovalTTL = 1
  ExecutionTTL = 1
  SingleWriter = TRUE
  EnableV2 = FALSE
  MaxTime = 3
  MaxCrashes = 1
SPECIFICATION Spec
SYMMETRY Symmetry
CHECK_DEADLOCK FALSE
INVARIANTS
  TypeOK
  TrailExplainsState
  AtMostOneRun
  ExecutionIsAuthorized
  RefusalIsFinal
  ConcurrencyCap
  ResultMatchesState
  ExecutionIsAttended
