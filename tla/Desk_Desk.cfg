SPECIFICATION DeskSpec
CONSTANTS
  Profiles <- AllProfiles
  PolicyFor <- DefaultPolicy
  Words <- SomeWords
  Nothing = Nothing
  MaxLevel = 4
  MaxQueue = 1
  MaxMoves = 3
  FullLevel = 4
  HalfLevel = 2
  LedMax = 2
  NoLevel = NoLevel
  MaxKbdMoves = 3
  MaxKbdQueue = 2
  Cards <- ThreeCards
  Preferences <- DeskPrefs
  OverrideWords = {"none", "igpu", "off"}
  PlatformWords = {"low-power", "balanced", "performance"}
  MaxGpuMoves = 3
  WakeDevices = {"hub", "keyboard"}
  Attempts = 4
  MaxHookMoves = 6
INVARIANTS
  TypeOK
  InForce
  OverrideOfThisAxis
  
  OverrideAtNewLevel
  
  
  WakeArmed
  PartsTypeOK
PROPERTIES
  ExpiresOnlySo
  UnplugDimUndone
  
  TouchpadRetried
CHECK_DEADLOCK FALSE
