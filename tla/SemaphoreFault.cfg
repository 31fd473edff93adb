CONSTANTS
  Proc = {p1, p2, p3}
  semmni = 1
  semmns = 1
  semmsl = 1
  semvmx = 1
  semaem = 1
  semume = 1
  semmnu = 1
  CountMod = 65536
  MaxSeq = 1
  MaxCount = 2
  Lists <- Simple
  PageFault = TRUE
SPECIFICATION Spec
SYMMETRY Symmetry
INVARIANT SleepersCounted
