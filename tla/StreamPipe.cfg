CONSTANTS
  w1 = w1
  w2 = w2
  r = r
  endA = endA
  endB = endB
  Proc = {w1, w2, r}
  End = {endA, endB}
  Home <- HomeOf
  NBLK = 5
  NSE = 2
  hiwat = 2
  lowat = 1
  MaxLen = 2
  Calls <- BothWays
SPECIFICATION FairSpec
INVARIANTS TypeOK WritersAreCalled ReadersAreCalled  BlocksAreConserved OverrunIsBounded BytesInOrder
 
\* every process may wait for a block while all are on the queues
CHECK_DEADLOCK FALSE
