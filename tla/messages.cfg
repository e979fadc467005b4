SPECIFICATION Spec
CONSTANTS
  NPROC = 3
  NSEM = 1
  NSTK = 4
  QUANTUM = 1
  NullPrio = 1
  MainPrio = 2
  Prios = {0, 2}
  Delays = {1, 2}
  Counts = {}
  Msgs = {0, 1}
  MaxCount = 2
  MaxDebt = 4
  MaxLate = 1
  Calls <- MessageCalls
INVARIANTS
  QueuesMatchStates
  ReadySorted
  BlockedHasNoMessage
  NotLate
PROPERTIES
  MessageKept
VIEW LiveView
