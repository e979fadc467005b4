SPECIFICATION Spec
CONSTANTS
  NPROC = 4
  NSEM = 1
  NSTK = 4
  QUANTUM = 1
  NullPrio = 1
  MainPrio = 2
  Prios = {2, 3}
  Delays = {2}
  Counts = {}
  Msgs = {}
  MaxCount = 2
  MaxDebt = 4
  MaxLate = 1
  Calls <- KillRaceCalls
INVARIANTS
  HaltsLast
CHECK_DEADLOCK FALSE
