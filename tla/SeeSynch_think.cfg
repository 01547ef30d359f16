CONSTANTS
  SynchMode = TRUE
  WantSynchSee = FALSE
  SynchSeeOffset = 2
  PlayModes = {"PlayOn", "FreeKick_"}
  MaxModeChanges = 2
  Losable = {}
  MaxMessageLoss = 0
  MaxCommandLoss = 0
SPECIFICATION Spec
INVARIANTS TimingIsTrue PredictionIsTrue
