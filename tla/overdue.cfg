SPECIFICATION Spec
CONSTANTS
  NPROC = 3
  NSEM = 1
  NSTK = 3
  QUANTUM = 2
  NullPrio = 1
  MainPrio = 2
  Prios = {2}
  Delays = {0, 2}
  Counts = {}
  Msgs = {}
  MaxCount = 2
  MaxDebt = 4
  MaxLate = 1
  Calls <- OverdueCalls
INVARIANTS
  NotOverdue
