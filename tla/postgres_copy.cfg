SPECIFICATION CopySpec
CONSTANTS
  Operations = {1, 2, 3}
  InitialEvents <- MCInitialEvents
  ChunkSize = 2
  Runs = {r1, r2}
  MaxEvents = 6
  MaxBurns = 1
  MaxStarts = 3
  Absent = Absent
SYMMETRY Symmetry
INVARIANTS
  VerifiedCopyIsComplete
  DestinationIsPrefix
CHECK_DEADLOCK FALSE
