CONSTANTS
  k1 = k1
  k2 = k2
  p1 = p1
  p2 = p2
  apply = apply
  cas = cas
  Key = {k1, k2}
  Writer = {apply, cas}
  Poll = {p1, p2}
  Watched <- MCWatched
  Nothing = Nothing
  MaxChanges = 2
SPECIFICATION LiveSpec
CHECK_DEADLOCK FALSE
INVARIANT CallbackHasItsFrame
INVARIANT EveryChangeIsSeen
INVARIANT PollReportsNewest
 
