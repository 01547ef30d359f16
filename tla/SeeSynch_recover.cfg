CONSTANTS
  SynchMode = FALSE
  WantSynchSee = TRUE
  SynchSeeOffset = 2
  PlayModes = {"FreeKick_", "BeforeKickOff"}
  MaxModeChanges = 1
  Losable = {"see"}
  MaxMessageLoss = 1
  MaxCommandLoss = 1
SPECIFICATION Spec
INVARIANTS TypeOK TimingIsTrue PredictionIsTrue NoSeeMissed
PROPERTY PredictionRecovers
