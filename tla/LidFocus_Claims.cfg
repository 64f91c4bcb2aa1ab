SPECIFICATION FocusSpec
CONSTANTS
  Inputs <- FocusInputs
  Lossy <- ChargerSignal
  HyprctlFails = FALSE
  LidPresent = TRUE
  LidAcDefer = TRUE
  MaxExt = 0
  MaxQueue = 2
ACTION_CONSTRAINT Focused
INVARIANTS
  ClaimsCoherent
  WatchOnlyDeferred
PROPERTIES
  ParkedOnCharger
