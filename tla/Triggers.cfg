SPECIFICATION FairSpec
CONSTANTS
  Sensors = {"goal"}
  MaxTime = 1
  MaxStimuli = 3
  Slots = 2
  Echo = 0
  Copies = 2
  EarlierBeats = 1
  Lockouts = {1, 2}
  DefaultLockout = 1
  WorkSlots = 2
  HbWindow = 2
  UnresponsiveAfter = 1
  Callers = {c1, c2}
  ForgetSlots = 1
  FallbackLockout = 1
  Faults = TRUE
INVARIANTS TypeOK TriggerSettledOnce WindowIsOfOneBoot StatusListsKnown AnswersAreTrue
PROPERTIES CarsToldOnce ReceivedIsWorkedOff
CHECK_DEADLOCK FALSE
