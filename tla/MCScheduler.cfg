SPECIFICATION Spec
CONSTANTS
  MaxThreads = 3
  Prio <- MCPrio
  Space = {direct}
  Direct = direct
  KernelSpace = direct
  Ticks <- MCTicks
  Budget <- MCBudget
  Quantum = 2
  MaxElapsed = 3
INVARIANTS
  TypeOK
  OnePlace
  BoundedOvertaking
  ClockIsWork
PROPERTIES
  NoOversleep
  RunReturns
CHECK_DEADLOCK FALSE
