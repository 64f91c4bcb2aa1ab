SPECIFICATION FairSpec
CONSTANTS
  Inputs <- LockerInputs
  Lossy <- LidSignal
  HyprctlFails = FALSE
  LidPresent = TRUE
  LidAcDefer = FALSE
  MaxExt = 0
  MaxQueue = 1
PROPERTIES
  EventuallyFaithful
  SuspendingLeft
  SuspendRetried
