SPECIFICATION Spec
CONSTANTS
  e1 = e1
  e2 = e2
  d1 = d1
  d2 = d2
  Events = {1}
  Entries = {e1}
  DriverOf <- MCDriverOf
  Times = {1, 2}
  Requests = {q1, q2}
  Dispatcher = sensor
  NoEntry = noEntry
  Modes = {"sensor"}
  Kinds = {"launch", "start", "finish_by_id", "undo_goal", "cancel", "undo_start", "adopt", "dismiss"}
  ReorderTo = {0}
  MaxCourseTime = 0
  InitialTables <- OneCar
  Serial = FALSE
  Faults = TRUE
  MaxRequests = 2
  MaxTriggers = 2
  MaxCrashes = 1
  RowIDs = {1}
SYMMETRY Symmetry
INVARIANTS TypeOK DoneHasTiming PendingTimingOnRecord PendingHasTimer TimingHeldOnce OrphansHeldOnce
CHECK_DEADLOCK FALSE
