CONSTANTS
  n1 = n1
  n2 = n2
  n3 = n3
  Node = {n1, n2, n3}
  None = None
  MaxBatch = 5
  CrashPoints = {}
  MaxElections = 3
  MaxWaiting = 1
  MaxLog = 1
  MaxRestarts = 0
SPECIFICATION Spec
SYMMETRY Symmetry
VIEW LiveState
CHECK_DEADLOCK FALSE
INVARIANT TypeOK
INVARIANT LogMatching
INVARIANT MatchIndexSound
 
PROPERTY LeaderAppendOnly
 
