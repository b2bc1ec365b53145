\* What the comment on migrations says of a step, on a start that is cut short.
SPECIFICATION Spec
CONSTANTS
  Requests = {}
  Handlers = {}
  MaxDrivers = 2
  MaxVehicles = 1
  MaxHandled = 0
INVARIANT StepsAreRepeatable
CHECK_DEADLOCK FALSE
