CONSTANTS
  Requests = {1}
  Alerts = {2, 3}
  Requesters = {s1}
  Retriers = {s2}
  Alerters = {s1, s2}
  NoRow = NoRow
  MaxAttempts = 2
  ListLimit = 2
  SingleWriter = FALSE
SPECIFICATION FairSpec
CHECK_DEADLOCK FALSE
INVARIANTS
  GivenUpAfterTrying
  NotifiedIsRecorded
PROPERTY EveryEventIsSettled
