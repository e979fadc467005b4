SPECIFICATION Spec
CONSTANTS
  NPROC = 4
  NSEM = 1
  NSTK = 4
  QUANTUM = 2
  NullPrio = 1
  MainPrio = 2
  Prios = {2, 3}
  Delays = {}
  Counts = {0, 2}
  Msgs = {}
  MaxCount = 2
  MaxDebt = 3
  MaxLate = 1
  Calls <- SemaphoreCalls
INVARIANTS
  HighestPriorityRuns
PROPERTIES
  ReleasedInOrder
VIEW LiveView
