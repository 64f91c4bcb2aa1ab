SPECIFICATION Spec
CONSTANTS
  Inputs <- LockInputs
  Lossy <- LidSignal
  HyprctlFails = TRUE
  LidPresent = TRUE
  LidAcDefer = FALSE
  MaxExt = 1
  MaxQueue = 1
INVARIANTS
  TypeOK
  CountdownTimed
  DownOnlySuspending

  
  
