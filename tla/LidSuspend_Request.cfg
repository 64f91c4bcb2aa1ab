SPECIFICATION Spec
CONSTANTS
  Inputs <- RequestInputs
  Lossy <- NoSignal
  HyprctlFails = FALSE
  LidPresent = TRUE
  LidAcDefer = FALSE
  MaxExt = 0
  MaxQueue = 1
INVARIANTS
  SettleOwed
PROPERTIES
  NoSuspendLoop
  WithdrawnInTime
