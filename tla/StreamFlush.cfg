CONSTANTS
  w1 = w1
  w2 = w2
  r = r
  endA = endA
  endB = endB
  Proc = {w1, w2, r}
  End = {endA, endB}
  Home <- HomeOf
  NBLK = 5
  NSE = 2
  hiwat = 2
  lowat = 1
  MaxLen = 2
  Calls <- BothWays
SPECIFICATION AllSpec
INVARIANT WritersAreCalled
