SPECIFICATION AxisCtlSpec
CONSTANTS
  Commands = {"MOVE_REL", "HOMING_WRITE_PARAM", "JOG_POS"}
  MaxRequests = 1
  Interrupts = FALSE
  EmergencyStop = TRUE
INVARIANTS
  AxisCtlTypeOK
  OneBlockExecutes
  DoneIsEarned
  HomeAfterWrite
  ErrorIsNotPaused
PROPERTIES
  NoRepeatedRelative
  MotionBeginsSafely
VIEW Recalled
