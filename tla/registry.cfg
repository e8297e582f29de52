SPECIFICATION Spec
CONSTANTS
  Unset = Unset
  Missing = Missing
  IndirectRefs = {"env:BASE", "env:STAGING"}
  RelativePaths = {"/a", "/b"}
  Hashes = {"hA", "hB", "hC"}
  ServerMaxArgumentBytes = 4
  Files <- MCFiles
  OverlayFiles <- MCOverlayFiles
  Workflow = "crm.sync"
  N8nWorkflows = {"w1", "w2"}
  Definitions <- MCDefinitions
  Admins = {a1, a2}
  Ops = {o1}
  EnableV2 = TRUE
  MaxLoads = 2
  MaxEdits = 2
INVARIANTS
  UnattendedIsReadOnly
  DispatchHitsVerifiedDefinition
SYMMETRY AdminSymmetry
CHECK_DEADLOCK FALSE
