SPECIFICATION PathSpec
CONSTANTS
  Axes <- MCAxes
  OtherFlags <- MCOtherFlags
  Regs <- MCRegs
  Words <- MCWords
  Timeout = 4
  Lag = 0
  MaxTime = 7
  MaxCycle = 2
  ScanPeriod = 1
  MaxCrashes = 1
  MaxPlcRestarts = 1
INVARIANTS
  PathTypeOK
  PlcJogDeadMan
  PlcActsOnLatest
  RestartedSinkIsClean
