SPECIFICATION DashSpec
CONSTANTS
  ScanPeriod = 1
  PollPeriod = 2
  PushPeriod = 2
  StaleAfter = 5
  PollLag = 1
  Latency = 1
  LineSize = 2
  MaxTime = 100
  MaxPlcDeaths = 1
  MaxOutages = 3
INVARIANTS
  DashTypeOK
  LiveMeansPlcRan
  AliveIsServed
  ConnectedMeansPlcRan
  AliveIsConnected
VIEW Moments
