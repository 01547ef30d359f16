CONSTANTS
  SynchMode = FALSE
  BodyTypes = {"DASH"}
  PlayModes = {"PlayOn", "BeforeKickOff"}
  MaxStep = 3
  Losable = {"command", "see", "hear_player"}
  MaxLoss = 1
  Late = FALSE
  Slow = FALSE
  MaxDelay = 2
  ServerWait = 4
SPECIFICATION Spec
INVARIANTS TypeOK OneDecisionPerStep PredictionIsExact EveryStepDecided
\* The server may stop, and stops at MaxStep; the agent ends when it is gone.
CHECK_DEADLOCK FALSE
