\* Every bond issued to 2004 in every month to May 2011.
CONSTANTS
  FirstRdate <- MCFirstRdate
  LastRdate <- MCLastRdate
  LastIdate <- MCLastIdate
  Entries <- MCEntries
SPECIFICATION Spec
CHECK_DEADLOCK FALSE
INVARIANTS
  AccrualsBracket
  EnteredReadsBack
  ColorsInOrder
PROPERTIES
  NextAccrualKept
