\* Series I accrues by the month.
CONSTANTS
  FirstRdate <- MCFirstRdate
  LastRdate <- MCLastRdate
  LastIdate <- MCLastIdate
  Entries <- MCEntries
SPECIFICATION Spec
CHECK_DEADLOCK FALSE
PROPERTIES
  NextAccrualComes
