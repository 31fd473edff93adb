CONSTANTS
  Proc = {p1, p2}
  semmni = 1
  semmns = 1
  semmsl = 1
  semvmx = 2
  semaem = 1
  semume = 1
  semmnu = 1
  CountMod = 65536
  MaxSeq = 0
  MaxCount = 1
  Lists <- Plain
  PageFault = TRUE
SPECIFICATION Spec
SYMMETRY Symmetry
PROPERTY OwnListIsDone
