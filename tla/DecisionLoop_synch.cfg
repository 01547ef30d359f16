CONSTANTS
  SynchMode = TRUE
  BodyTypes = {"DASH"}
  PlayModes = {"PlayOn", "BeforeKickOff"}
  MaxStep = 2
  Losable = {"sense_body"}
  MaxLoss = 1
  Late = FALSE
  Slow = FALSE
  MaxDelay = 0
  ServerWait = 4
SPECIFICATION Spec
INVARIANTS OneDecisionPerStep
PROPERTIES ThinkIsAnswered ServerDownNoticed
\* The server may stop, and stops at MaxStep; the agent ends when it is gone.
CHECK_DEADLOCK FALSE
