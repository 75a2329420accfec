SPECIFICATION AxisCtlFairSpec
CONSTANTS
  Commands = {"MOVE_ABS"}
  MaxRequests = 1
  Interrupts = FALSE
  EmergencyStop = FALSE
PROPERTIES
  ResetRestoresReady
