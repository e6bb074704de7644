CONSTANTS
  v1 = v1
  Voter = {v1}
  NoVoter = NoVoter
  SegmentSize = 3
  SnapshotTail = FALSE
  MaxTerm = 2
  MaxIndex = 3
  MaxWrites = 7
SPECIFICATION Spec
CHECK_DEADLOCK FALSE
INVARIANT RecoverExact
 
 
