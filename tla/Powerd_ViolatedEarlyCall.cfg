SPECIFICATION Spec
CONSTANTS
  c1 = c1
  c2 = c2
  c3 = c3
  Callers <- ThreeCallers
  Profiles <- AllProfiles
  Balanced = "balanced"
  Nothing = "nothing"
  Early = TRUE
  PersistFails = FALSE
INVARIANTS
  KnobsFollow
