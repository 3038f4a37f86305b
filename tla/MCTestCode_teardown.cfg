CONSTANTS
  Depth = 2
  Fds <- TwoFds
  PipeFd = 1
  Files <- OneFile
  MaxCalls = 0
  ClosesPipe = FALSE
  HAVE_VALGRIND = FALSE
SPECIFICATION Spec
INVARIANT TeardownAlwaysRuns
