CONSTANTS
  Threshold = 2
  Warning = 3
  Fatal = 6
  Events = {e1, e2, e3}
  Null = null
  Limits = {1, 2}
  Delays = {0, 2}
  FirstTime = 1
  MaxTime = 4
  Half = 8
SPECIFICATION PartsSpec
INVARIANTS
  NoFalseTrap
  EventsConserved
PROPERTIES
  HangIsDetected
  PauseIsKept
  EveryEventLeaves
