SPECIFICATION FairSpec
CONSTANTS
  Inputs <- WakeInputs
  Lossy <- ResumeSignal
  HyprctlFails = FALSE
  LidPresent = TRUE
  LidAcDefer = FALSE
  MaxExt = 0
  MaxQueue = 2
PROPERTIES
  SuspendingLeft
