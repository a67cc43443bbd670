CONSTANTS
  r1 = r1
  r2 = r2
  Requests = {r1, r2}
  None = none
  Fragments = 3
  Capacity = 1
  Scripts <- Answers
SPECIFICATION MCSpec
INVARIANTS
  PumpTouchesLiveHandles
  FragmentsConserved
  OkMeansWholeBody
PROPERTY EveryRequestEnds
CHECK_DEADLOCK FALSE
