SPECIFICATION AttendedSpec
CONSTANTS
  Operations = {a, b}
  Contents = {x, y}
  None = None
  MaxLog = 5
  MaxCommits = 4
  MaxEdits = 1
  MaxFaults = 3
INVARIANTS WitnessIsUnique MarkerCoversDispatch
PROPERTIES ApprovalKept RecoveryDecides ApprovalDecided MarkerIsResolved
CHECK_DEADLOCK FALSE
