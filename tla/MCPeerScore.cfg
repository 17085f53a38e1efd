\* Award, Punish, Int, String and Disconnect from two goroutines
CONSTANTS
  Goroutines = {g1, g2}
  Ops <- OpsAll
  AwardEvents <- MCAwardEvents
  PunishEvents <- MCPunishEvents
  Times <- MCTimes
  MaxCalls = 3
  NoHolder = NoHolder
  NoValue = NoValue
SPECIFICATION Spec
\* the callers stop after MaxCalls calls and the clock at its last value:
\* the final states are terminal
CHECK_DEADLOCK FALSE
INVARIANT TypeOK
