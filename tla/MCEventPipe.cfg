CONSTANTS
  Writers <- TwoProcesses
  Test = 1
  Forks <- Waits
  Dies = TRUE
  Whichs <- PassOrFail
  Texts <- Strings3
  Traces <- NoneAndLong
  FnFile <- TheFile
  Junk <- Freed
  TracebufSize = 7
  PipeSize = 5
  PipeBuf = 2
  MaxEvents = 2
SPECIFICATION FairSpec
INVARIANTS EventsArriveAsRaised 
PROPERTY HandlerReturns
