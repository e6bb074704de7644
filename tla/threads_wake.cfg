SPECIFICATION Spec
CONSTANTS
  None = None
  MaxCommit = 2
INVARIANT TypeOK
PROPERTIES CommittedIsApplied DeposedLeaderWakes StopWaitsForSleepersOnly
\* A node that has been stopped does nothing more.
CHECK_DEADLOCK FALSE
