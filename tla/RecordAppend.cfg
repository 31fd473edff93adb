CONSTANTS
  Proc = {p1, p2}
  NoProc = NoProc
  MAXEND = 2
  recs = 4
  Calls <- Appends
SPECIFICATION Spec
SYMMETRY Symmetry
PROPERTY AppendsAtEnd
