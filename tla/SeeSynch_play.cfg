CONSTANTS
  SynchMode = FALSE
  WantSynchSee = FALSE
  SynchSeeOffset = 2
  PlayModes = {"PlayOn", "FreeKick_"}
  MaxModeChanges = 2
  Losable = {"see"}
  MaxMessageLoss = 1
  MaxCommandLoss = 0
SPECIFICATION Spec
PROPERTY StoppedPlaySynchronizes
