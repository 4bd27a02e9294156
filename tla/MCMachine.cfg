SPECIFICATION Spec
CONSTANTS
  Thread = {t1, t2}
  Main = main
  Reg <- MCReg
  N = 2
  Data = {0, 1}
  Zero = 0
INVARIANTS
  FaultsArePrecise
PROPERTIES
  ThreadsKeepTheirRegisters
