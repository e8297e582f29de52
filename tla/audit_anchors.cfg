CONSTANTS
  Publishers = {p1, p2}
  Unparseable = Unparseable
  MaxEntries = 4
  MaxRows = 2
  MaxCrashes = 1
SPECIFICATION Spec
CHECK_DEADLOCK FALSE
SYMMETRY Symmetry
INVARIANTS
  FileGoesForward
  RecordedIsOnFile
  AnchorPinsHistory
  NoFalseAlarm
  EditIsLocated
