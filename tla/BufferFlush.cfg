CONSTANTS
  Proc = {p1, p2}
  Buf = {b1, b2}
  Block = {k1, k2}
  d1 = d1
  Dev = {d1}
  DevOf <- OneDevice
  Value = {0, 1}
  Zero = 0
  BawFree = 0
  Ops = {"getblk", "bread", "bflush"}
  NoProc = NoProc
  NoBuf = NoBuf
  NoBlock = NoBlock
  AllDev = AllDev
  Unknown = Unknown
SPECIFICATION Spec
SYMMETRY Symmetry
PROPERTY FlushLeavesNoDelayedWrite
