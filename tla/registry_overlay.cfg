SPECIFICATION Spec
CONSTANTS
  Unset = Unset
  Missing = Missing
  IndirectRefs = {"env:BASE", "env:STAGING"}
  RelativePaths = {"/a", "/b"}
  Hashes = {"hA", "hB", "hC"}
  ServerMaxArgumentBytes = 4
  Files <- MCFiles
  OverlayFiles <- MCOverlayFiles
  Workflow = "crm.sync"
  N8nWorkflows = {"w1", "w2"}
  Definitions <- MCDefinitions
  Admins = {a1}
  Ops = {o1}
  EnableV2 = TRUE
  MaxLoads = 1
  MaxEdits = 1
INVARIANTS
  DispatchFollowsContract
CHECK_DEADLOCK FALSE
