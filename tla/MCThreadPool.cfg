CONSTANTS
  Workers = {w1, w2}
  Main = main
  NoThread = none
  MaxPendingJobs = 3
  MaxEnqueues = 3
SPECIFICATION FairSpec
INVARIANTS
  SlotConservation
  DrainedQuiescent
  CompletionsInJobOrder
PROPERTIES
  ImplementsJobService
  JobsAreServed
