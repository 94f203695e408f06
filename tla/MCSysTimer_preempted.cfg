SPECIFICATION Spec
CONSTANTS
  storage = storage  ap = ap  peripheral = peripheral
  ledIsr = ledIsr  sdIsr = sdIsr  NULL = NULL
  Tasks <- MCTasks
  Priority <- MCPriority
  Timers <- MCMountTimer
  UserIsrs <- MCLedIsr
  Owner <- MCOwner
  Intervals = {2}
  MaxIsrs = 1
INVARIANTS WordHolds
