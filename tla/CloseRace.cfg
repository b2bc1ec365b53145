SPECIFICATION Spec
CONSTANTS
  e1 = e1
  e2 = e2
  d1 = d1
  d2 = d2
  Events = {1}
  Entries = {e1}
  DriverOf <- MCDriverOf
  Times = {1, 2}
  Requests = {q1, q2}
  Dispatcher = sensor
  NoEntry = noEntry
  Modes = {"sensor"}
  Kinds = {"close", "launch"}
  ReorderTo = {0}
  MaxCourseTime = 1
  InitialTables <- OneCar
  Serial = FALSE
  Faults = FALSE
  MaxRequests = 2
  MaxTriggers = 0
  MaxCrashes = 0
  RowIDs = {1}
SYMMETRY Symmetry
INVARIANT ClosedCourseIsEmpty
CHECK_DEADLOCK FALSE
