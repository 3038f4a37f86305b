CONSTANTS
  NJobs = 3
  maxchildren_ = 2
  MaxEvents = 0
  EventResults <- OnlyFail
  Env <- Hostile
SPECIFICATION Spec
INVARIANTS Concurrency AbnormalEndFails ReturnTellsAll
  IInv
PROPERTY BoardSpec
