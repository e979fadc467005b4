SPECIFICATION MachineSpec
CONSTANTS
  WORDS = 2
  RAM_SIZE = 8
  CodePoints = {0, 4}
  BadAddrs = {6, 20}
  Count = 2
  Programs <- Images
INVARIANTS
  MachineTypeOK
  FlagsApart
PROPERTIES
  TimerExact
  TrapReturns
  TrapPrecise
  WfiWakes
  TickComes
CHECK_DEADLOCK FALSE
