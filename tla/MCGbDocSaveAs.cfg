\* A failed Save As of an unmodified document over its own file.
CONSTANTS
  p1 = p1
  p2 = p2
  p3 = p3
  t1 = t1
  t2 = t2
  Ptr = {p1, p2, p3}
  Date = {1, 2}
  SN = {1, 2}
  NoSN = NoSN
  Title = {t1, t2}
  NoTitle = NoTitle
  TitleInFile <- TitleCut
  NoFile = NoFile
  Truncated = Truncated
  MaxImport = 2
  SbwFiles <- MCSbwFiles
  Cut <- CutShort
  Blank = Blank
  NotWhole = NotWhole
SPECIFICATION SbwSpec
INVARIANTS
  CleanMeansStored
