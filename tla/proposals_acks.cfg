CONSTANTS
  c1 = c1
  c2 = c2
  Client = {c1, c2}
  Idle = Idle
  MaxTerm = 3
  MaxLog = 3
  Logs <- MCLogs
SPECIFICATION Spec
SYMMETRY Symmetry
CHECK_DEADLOCK FALSE
INVARIANT AppliesTheCommittedLog
INVARIANT AckedInItsTermIsApplied
