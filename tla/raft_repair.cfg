CONSTANTS
  a = a
  b = b
  c = c
  Node = {a, b, c}
  None = None
  MaxBatch = 1
  CrashPoints = {}
  MaxElections = 3
  MaxWaiting = 3
  MaxLog = 4
  MaxRestarts = 0
SPECIFICATION RepairSpec
PROPERTY Converges
 
