SPECIFICATION AxisCtlFairSpec
CONSTANTS
  Commands = {"MOVE_ABS"}
  MaxRequests = 1
  Interrupts = FALSE
  EmergencyStop = TRUE
PROPERTIES
  StopIsWaitedFor
