CONSTANTS
  SynchMode = FALSE
  BodyTypes = {"DASH"}
  PlayModes = {"PlayOn"}
  MaxStep = 3
  Losable = {}
  MaxLoss = 0
  Late = FALSE
  Slow = TRUE
  MaxDelay = 0
  ServerWait = 4
SPECIFICATION Spec
INVARIANTS TurnNeckIsOfPreviousCycle
\* The server may stop, and stops at MaxStep; the agent ends when it is gone.
CHECK_DEADLOCK FALSE
