CONSTANTS
  Depth = 2
  Fds <- TwoFds
  PipeFd = 1
  Files <- OneFile
  MaxCalls = 2
  ClosesPipe = TRUE
  HAVE_VALGRIND = TRUE
SPECIFICATION FairSpec
INVARIANTS FixtureOrder ResultExplained LeaksFail ChildInv
PROPERTIES ScriptSpec TeardownBegins
