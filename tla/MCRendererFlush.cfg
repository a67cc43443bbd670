\* one buffer and one command are enough to lose the wake-up
CONSTANTS
  Streams = {main}
  Default = main
  Bufs = {b1}
  None = None
  Capacity = 1
  Half = 6
  MaxCommands <- Commands
  MainCommands = 1
  JobCommands = 0
SPECIFICATION Spec
PROPERTY FlushReturns
CHECK_DEADLOCK FALSE
