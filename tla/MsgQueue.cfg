CONSTANTS
  Proc = {p1, p2}
  msgmni = 1
  msgtql = 2
  msgseg = 3
  msgssz = 2
  msgmax = 3
  msgmnb = 4
  MaxSeq = 1
  Super = {}
  Text = {"a", "b"}
  NoText = "none"
  Calls <- Mixed
SPECIFICATION Spec
SYMMETRY Symmetry
INVARIANTS LockHasOneHolder LockedQueueExists SleepersFlagged BlockedForCause 
PROPERTIES ReceivesInOrder LockedQueueUntouched
