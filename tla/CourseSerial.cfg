SPECIFICATION FairSpec
CONSTANTS
  e1 = e1
  e2 = e2
  d1 = d1
  d2 = d2
  Events = {1, 2}
  Entries = {e1, e2}
  DriverOf <- MCDriverOf
  Times = {1, 2}
  Requests = {q1}
  Dispatcher = sensor
  NoEntry = noEntry
  Modes = {"sensor", "manual"}
  Kinds = {"launch", "my_launch", "start", "finish", "finish_by_id", "undo_goal", "cancel", "undo_start", "my_launch_undo", "pt", "mc", "queue_add", "my_queue_add", "queue_cancel", "my_queue_cancel", "reorder", "adopt", "dismiss", "create", "close", "settings"}
  ReorderTo = {0}
  MaxCourseTime = 1
  InitialTables <- TwoCars
  Serial = TRUE
  Faults = FALSE
  MaxRequests = 3
  MaxTriggers = 1
  MaxCrashes = 0
  RowIDs = {1, 2}
INVARIANTS WaitingHasNoStart ClosedCourseIsEmpty CanceledHasNoTiming
PROPERTIES RunsFollowLifecycle GraceEnds FirstStartWins FinishOnlyRunning OldestGoesFirst UndoneIsNext
CHECK_DEADLOCK FALSE
