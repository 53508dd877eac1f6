\* Three windows, so that exit has a first, a middle and a last one, two files,
\* a chooser that outlives its window, and die in the middle of anything.
CONSTANTS
  w1 = w1
  w2 = w2
  w3 = w3
  f1 = f1
  f2 = f2
  e1 = e1
  e2 = e2
  sbw = sbw
  Win = {w1, w2, w3}
  File = {f1, f2}
  Edit = {e1}
  Foreign = {}
  Nil = Nil
  Missing = Missing
  Damaged = Damaged
  MaxChooser = 1
  MaxDie = 1
SPECIFICATION Spec
CHECK_DEADLOCK FALSE
SYMMETRY DocSymmetry
INVARIANTS
  TypeOK
  EmptyHasNoEdits
  EditsAccounted
  ExitLeavesOnlyKept
  CallsHaveWindows
