CONSTANTS
  Writers = {w1, w2, w3}
  None = None
  SingleWriter = FALSE
  AuditOnly = FALSE
  MaxEntries = 5
SPECIFICATION Spec
CHECK_DEADLOCK FALSE
INVARIANT ChainVerifies
