\* The document alone: every order of additions, deletions, imports, saves,
\* failed saves and reopenings of up to three bonds.
CONSTANTS
  p1 = p1
  p2 = p2
  p3 = p3
  t1 = t1
  t2 = t2
  Ptr = {p1, p2, p3}
  Date = {1, 2}
  SN = {1, 2}
  NoSN = NoSN
  Title = {t1, t2}
  NoTitle = NoTitle
  TitleInFile <- TitleCut
  NoFile = NoFile
  Truncated = Truncated
  MaxImport = 2
  SbwFiles <- MCSbwFiles
  Cut <- CutShort
  Blank = Blank
  NotWhole = NotWhole
SYMMETRY PtrSymmetry
SPECIFICATION SbwSpec
INVARIANTS
  TypeOK
  ListOrdered
  SerialNumbersUnique
  OwnFileReadsBack
  CleanNeverStale
  ImportWhole
PROPERTIES
  KeepsPromise
