\* EventsCounted under Award, Punish, Int and Disconnect
CONSTANTS
  Goroutines = {g1, g2}
  Ops <- OpsNoString
  AwardEvents <- MCAwardEvents
  PunishEvents <- MCPunishEvents
  Times <- MCTimes
  MaxCalls = 3
  NoHolder = NoHolder
  NoValue = NoValue
SPECIFICATION Spec
\* the callers stop after MaxCalls calls and the clock at its last value:
\* the final states are terminal
CHECK_DEADLOCK FALSE
PROPERTY EventsCounted
