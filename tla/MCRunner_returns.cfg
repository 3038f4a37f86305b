CONSTANTS
  NJobs = 2
  maxchildren_ = 2
  MaxEvents = 0
  EventResults <- OnlyFail
  Env <- Ordinary
SPECIFICATION FairSpec
PROPERTY RunReturns
