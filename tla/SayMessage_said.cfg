CONSTANTS
  BehaviourTypes = {"Ball", "Pass", "WaitRequest", "OffsideLine", "Intercept", "PassRequest", "Self", "Teammate", "Opponent"}
  Samples <- MCSamples
SPECIFICATION Spec
INVARIANTS TypeOK NothingIsCrowdedOut HeardIsSaid
