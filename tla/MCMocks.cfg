SPECIFICATION Spec
CONSTANT BadRegexp = BadRegexp
CHECK_DEADLOCK FALSE
INVARIANTS MockTakesEffect TextFollowsTable TrampolineUnseen 
  TraceIsCallChain 
 
