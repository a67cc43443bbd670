CONSTANTS
  Workers = {w1}
  LateThreads = {pump}
  Main = main
  Dispatcher = dispatcher
  Nobody = nobody
  MaxCalls = 1
  MaxEvents = 1
  Buffers = 2
SPECIFICATION FairSpec
INVARIANTS
  TextsDoNotMix
  BuffersConserved
PROPERTIES
  LogReturns
