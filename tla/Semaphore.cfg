CONSTANTS
  Proc = {p1, p2}
  semmni = 2
  semmns = 3
  semmsl = 2
  semvmx = 2
  semaem = 2
  semume = 2
  semmnu = 1
  CountMod = 65536
  MaxSeq = 1
  MaxCount = 1
  Lists <- OnceEach
  PageFault = FALSE
SPECIFICATION Spec
SYMMETRY Symmetry
INVARIANTS TypeOK NoSleeperCouldRun UndoBalances NothingOutlivesASet WithinLimits SleepersSetExists
