\* Three requests, two of them at a time, on a new database or on one that an
\* older version has left.
SPECIFICATION Spec
CONSTANTS
  Requests = {q1, q2}
  Handlers <- Everything
  MaxDrivers = 3
  MaxVehicles = 2
  MaxHandled = 3
SYMMETRY Permuted
INVARIANTS TypeOK UpgradeGoesThrough
PROPERTIES LastAdminStays SetUpOnce MainIsOwn
CHECK_DEADLOCK FALSE
