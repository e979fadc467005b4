SPECIFICATION Spec
CONSTANTS
  NPROC = 3
  NSEM = 1
  NSTK = 3
  QUANTUM = 2
  NullPrio = 1
  MainPrio = 2
  Prios = {2}
  Delays = {}
  Counts = {}
  Msgs = {0}
  MaxCount = 2
  MaxDebt = 4
  MaxLate = 1
  Calls <- EarlyReturnCalls
INVARIANTS
  MessageThere
