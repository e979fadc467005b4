SPECIFICATION FairSpec
CONSTANTS
  NPROC = 4
  NSEM = 1
  NSTK = 4
  QUANTUM = 2
  NullPrio = 1
  MainPrio = 2
  Prios = {2}
  Delays = {1, 2}
  Counts = {0}
  Msgs = {}
  MaxCount = 1
  MaxDebt = 4
  MaxLate = 1
  Calls <- TurnCalls
PROPERTIES
  SleeperWakes
  TurnComes
