CONSTANTS
  Callers = {c1, c2}
  Principals = {p1}
  Keys = {k1}
  NoKey = NoKey
  Arguments = {a1, a2}
  None = None
  RateLimit = 1
  MAX_RETRY_CHAIN_DEPTH = 1
  SingleWriter = FALSE
  Moves = {"T05", "T10"}
  MaxOperations = 3
SPECIFICATION Spec
CHECK_DEADLOCK FALSE
SYMMETRY Symmetry
INVARIANTS
  TypeOK
  RetryHasFinishedParent
  OvershootIsBounded
PROPERTY ImplementsKeyedOperations
