SPECIFICATION FairSpec
CONSTANTS
  storage = storage  ap = ap  peripheral = peripheral
  ledIsr = ledIsr  sdIsr = sdIsr  NULL = NULL
  Tasks <- MCTasks
  Priority <- MCPriority
  Timers <- MCTimers
  UserIsrs <- MCUserIsrs
  Owner <- MCOwner
  Intervals = {2}
  MaxIsrs = 1
INVARIANTS TypeOK WordTrue
PROPERTIES ImplementsAlarms TimerRings
