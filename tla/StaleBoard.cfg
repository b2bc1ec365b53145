\* Two handlers that overlap, and a browser that follows the course.
SPECIFICATION Spec
CONSTANTS
  Topics = {"queue", "on_course"}
  Clients = {c1}
  Admins = {}
  Publishers = {p1, p2}
  Buffer = 2
  Requests = {{"queue", "on_course"}}
  Operations = {"course", "sensorStart"}
  MaxHandlers = 2
INVARIANT QuietScreensAreCurrent
CHECK_DEADLOCK FALSE
