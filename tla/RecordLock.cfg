CONSTANTS
  Proc = {p1, p2}
  NoProc = NoProc
  MAXEND = 2
  recs = 4
  Calls <- AllRanges
SPECIFICATION Spec
SYMMETRY Symmetry
INVARIANTS TypeOK ListIsNormal SleepersAreBlocked WaitsAreAcyclic
PROPERTY ImplementsByteLocks
