\* The handlers, two at a time, with one browser that may be slow.  Left to the
\* proofs are createEvent, myVehicle, driverIcon and vehicleIcon: like closeEvent
\* they write and then publish every board, and two such at a time are too many
\* states.
SPECIFICATION Spec
CONSTANTS
  Topics = {"ranking", "queue", "on_course", "settings", "orphan", "directory", "sensor_status", "time"}
  Clients = {c1}
  Admins = {}
  Publishers = {p1, p2}
  Buffer = 1
  Requests = {{"on_course", "orphan", "time"}}
  Operations = {"queue", "launch", "course", "sensorStart", "finish", "confirm", "undoGoal", "undoStart", "log", "settleLog", "settings", "registration", "closeEvent", "orphanRun", "adoptOrphan", "warning", "driver", "vehicle", "directory", "sensorStatus", "heartbeat"}
  MaxHandlers = 2
SYMMETRY Goroutines
INVARIANTS TypeOK NothingMissed NobodyLeftInSilence TimeIsFresh NeverHeldUp ChangesArePublished
CHECK_DEADLOCK FALSE
