\* Downloads with errors, short transfers, cancellations and a crash.
CONSTANTS
  t1 = t1
  t2 = t2
  t3 = t3
  Table = {t1, t2, t3}
  Installed = {t1}
  Remote = {t1, t2, t3}
  MonthsOf <- MCMonthsOf
  Size = 2
  MaxError = 1
  MaxShort = 2
  MaxCrash = 1
  MaxUnread = 1
SPECIFICATION Spec
INVARIANTS
  TypeOK
  TablesWhole
  ConfiguredAsStored
  FinishedComplete
  CallbackHasWindow
PROPERTIES
  CancelIsSeen
  DownloadEnds
