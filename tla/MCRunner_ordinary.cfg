CONSTANTS
  NJobs = 2
  maxchildren_ = 2
  MaxEvents = 1
  EventResults <- NaOrFail
  Env <- Ordinary
SPECIFICATION Spec
INVARIANTS TypeOK AssertsHold FirstMessageCounts
  QuietInv
PROPERTY Monotone
