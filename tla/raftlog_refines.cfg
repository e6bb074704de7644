CONSTANTS
  NoVoter = NoVoter
  SegmentSize = 3
  Word = 16
  SnapshotThreshold = 2
  MaxTerm = 2
  MaxIndex = 3
  MaxRecords = 6
SPECIFICATION Spec
CHECK_DEADLOCK FALSE
INVARIANT IndexedByOffset
INVARIANT SearchesExact
PROPERTY ImplementsReplicatedLog
