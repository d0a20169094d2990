CONSTANTS
  Days = {2}
  Holidays = {3}
  Quotes = {1, 2}
  Ingesters = {task, route}
  Task = task
  CbThreshold = 1
  MaxEvents = 2
  RunDate = 4
  Contracts = {1, 2}
  Opening = {1}
  Floating = TRUE
  Workers = {scheduled, manual}
SYMMETRY AnyWorker
SPECIFICATION FinanceSpec
INVARIANTS SnapshotsProvable ClosedDayCovered
PROPERTIES ClosedDayIsFinal
CHECK_DEADLOCK FALSE
