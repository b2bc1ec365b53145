\* Three logs of two combinations, one of them electric, and two editors.
SPECIFICATION Spec
CONSTANTS
  Combos = {1, 2}
  Electric = {2}
  ConvertedCC <- Displacement
  Requests = {q1, q2}
  Bodies <- SomeBodies
  Instants = {1, 2}
  Rules <- BothRules
  Removable = {{1}}
  Limit = 2
  MaxLogs = 3
  MaxChanges = 4
SYMMETRY Editors
INVARIANTS TypeOK HeatsAreGapFree RankingIsDecided RankingAgreesWithDrilldown RecentHasNoGap
PROPERTIES OnlyOverlapRevives SettledIsUnwarned
CHECK_DEADLOCK FALSE
