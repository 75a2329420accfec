SPECIFICATION Spec
CONSTANTS
  Axes <- MCAxes
  OtherFlags <- MCOtherFlags
  Regs <- MCRegs
  Words <- MCWords
  Timeout = 8
  Lag = 1
  MaxTime = 17
  MaxCycle = 2
INVARIANTS
  TypeOK
  JogDeadMan
  PublishedIsAsked
PROPERTIES
  NoEarlyExpiry
  ChangeHasNewCycle
