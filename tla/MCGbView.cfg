CONSTANTS
  sys = sys
  dl = dl
  w1 = w1
  w2 = w2
  d1 = d1
  d2 = d2
  d3 = d3
  b1 = b1
  b2 = b2
  Table = {sys, dl}
  MonthsOf <- MCMonthsOf
  Window = {w1, w2}
  Doc = {d1, d2, d3}
  Bond = {b1, b2}
  PaysFrom <- MCPaysFrom
  Title = {t1}
  File = {f1}
  Today = {6}
  System = {sys}
  YearDates = 3
  MaxOps = 6
  None = None

SPECIFICATION Spec
SYMMETRY Symmetry
INVARIANTS TypeOK TitleTrue VerbsTrue RowsTrue PicksPriced
PROPERTIES ChoicesKept
CHECK_DEADLOCK FALSE
