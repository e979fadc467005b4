SPECIFICATION RRSpec
CONSTANTS
  MAX_TASK = 3
  NTASK = 3
  STACK_SIZE = 330
INVARIANTS
  ContextsResumable
PROPERTIES
  CreatedOnce
  TakesTurns
CHECK_DEADLOCK FALSE
