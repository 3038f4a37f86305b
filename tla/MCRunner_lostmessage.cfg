CONSTANTS
  NJobs = 1
  maxchildren_ = 1
  MaxEvents = 2
  EventResults <- NaOrFail
  Env <- Ordinary
SPECIFICATION Spec
INVARIANT AllMessagesCount
