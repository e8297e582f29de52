CONSTANTS
  Writers = {w1, w2, w3}
  None = None
  SingleWriter = TRUE
  AuditOnly = FALSE
  MaxEntries = 6
  Readers = {r1}
  PageSize = 2
  Scope <- MCScope
SPECIFICATION ReadsSpec
CHECK_DEADLOCK FALSE
INVARIANTS
  ChainVerifies
  SeqIsGapFree
  NoBreakAcrossPages
  NothingSkippedOrRepeated
PROPERTY ImplementsAppendOnlyLog
