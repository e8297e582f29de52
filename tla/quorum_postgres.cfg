CONSTANTS
  Approvers = {a1, a2, a3}
  Requester = r
  Quorum = 2
  Sessions = {s1, s2}
  None = None
  SingleWriter = FALSE
  MaxSlots = 4
SPECIFICATION Spec
SYMMETRY Symmetry
CHECK_DEADLOCK FALSE
INVARIANTS
  ApprovalNeedsQuorum
  NoStrandedQuorum
  RejectionIsFinal
PROPERTIES
  DecisionsStand
  ImplementsBallot
