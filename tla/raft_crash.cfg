CONSTANTS
  n1 = n1
  n2 = n2
  n3 = n3
  Node = {n1, n2, n3}
  None = None
  MaxBatch = 5
  CrashPoints = {"idle", "vote", "append"}
  MaxElections = 2
  MaxWaiting = 3
  MaxLog = 1
  MaxRestarts = 1
SPECIFICATION Spec
SYMMETRY Symmetry
VIEW LiveState
CHECK_DEADLOCK FALSE
 
 
INVARIANT ElectionSafety
INVARIANT OneVotePerTerm
INVARIANT VoteIsPersisted
INVARIANT ElectionIsCurrent
INVARIANT LeaderCompleteness
