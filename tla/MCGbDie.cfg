\* Exit's question, and die.
CONSTANTS
  w1 = w1
  w2 = w2
  w3 = w3
  f1 = f1
  f2 = f2
  e1 = e1
  e2 = e2
  sbw = sbw
  Win = {w1, w2}
  File = {f1}
  Edit = {e1}
  Foreign = {}
  Nil = Nil
  Missing = Missing
  Damaged = Damaged
  MaxChooser = 1
  MaxDie = 1
SPECIFICATION Spec
CHECK_DEADLOCK FALSE
SYMMETRY DocSymmetry
INVARIANTS
  ExitClosesWindows
