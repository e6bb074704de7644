CONSTANTS
  elect = elect
  repl = repl
  Thread = {elect, repl}
  MaxCalls = 4
SPECIFICATION Spec
CHECK_DEADLOCK FALSE
 
INVARIANT PendingIsOutstanding
