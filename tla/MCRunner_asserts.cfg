CONSTANTS
  NJobs = 1
  maxchildren_ = 1
  MaxEvents = 0
  EventResults <- OnlyFail
  Env <- Daemon
SPECIFICATION Spec
INVARIANT AssertsHold
