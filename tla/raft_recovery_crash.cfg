CONSTANTS
  n1 = n1
  n2 = n2
  n3 = n3
  Node = {n1, n2, n3}
  None = None
  MaxBatch = 5
  CrashPoints = {"idle", "recovery"}
  MaxElections = 1
  MaxWaiting = 3
  MaxLog = 2
  MaxRestarts = 2
SPECIFICATION Spec
SYMMETRY Symmetry
VIEW LiveState
CHECK_DEADLOCK FALSE
INVARIANT CommittedIsDurable
