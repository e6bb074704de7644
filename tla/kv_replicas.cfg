CONSTANTS
  r1 = r1
  r2 = r2
  Replica = {r1, r2}
  x = x
  Value = {x}
  Absent = Absent
  Never = Never
  Key <- MCKeys
  Ttl <- MCTtl
  TicksPerMs = 2
  MaxLog = 3
  MaxTime = 3
  MaxRestarts = 1
  MaxCas = 0
SPECIFICATION Spec
SYMMETRY Symmetry
CHECK_DEADLOCK FALSE
INVARIANT ReplicasAgree
INVARIANT ScanExact
INVARIANT SnapshotRoundTrip
INVARIANT TtlIsKept
