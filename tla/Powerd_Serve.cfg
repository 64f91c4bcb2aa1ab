SPECIFICATION FairSpec
CONSTANTS
  c1 = c1
  c2 = c2
  c3 = c3
  Callers <- ThreeCallers
  Profiles <- AllProfiles
  Balanced = "balanced"
  Nothing = "nothing"
  Early = FALSE
  PersistFails = TRUE
INVARIANTS
  TypeOK
  LatestWins
  KnobsFollow
  PinFollows
PROPERTIES
  SupersededTruly
  Answered
