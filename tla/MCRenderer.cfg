CONSTANTS
  Streams = {main, decode}
  Default = main
  Bufs = {b1, b2}
  None = None
  Capacity = 2
  Half = 6
  MaxCommands <- Commands
  MainCommands = 2
  JobCommands = 1
SPECIFICATION Spec
INVARIANTS
  CmdBufsConserved
  CommandsConserved
  FenceMeansExecuted
  FramesBounded
PROPERTY CallsReturn
CHECK_DEADLOCK FALSE
