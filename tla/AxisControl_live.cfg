SPECIFICATION AxisCtlFairSpec
CONSTANTS
  Commands = {"JOG_NEG", "MOVE_VEL", "SET_POSITION"}
  MaxRequests = 1
  Interrupts = TRUE
  EmergencyStop = FALSE
PROPERTIES
  StopIsWaitedFor
