CONSTANTS
  Proc = {p1, p2}
  msgmni = 2
  msgtql = 2
  msgseg = 2
  msgssz = 2
  msgmax = 3
  msgmnb = 4
  MaxSeq = 0
  Super = {p1, p2}
  Text = {"a", "b"}
  NoText = "none"
  Calls <- Shared
SPECIFICATION FairSpec
PROPERTY LockSleepersWake
INVARIANTS TypeOK SpaceAccounted
