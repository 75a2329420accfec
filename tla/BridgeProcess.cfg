SPECIFICATION FairProcessSpec
CONSTANTS
  Requests <- RequestsMC
  MaxFaults = 1
INVARIANTS
  ProcessTypeOK
  PollReadsMapped
  DownIsExplained
  DataInsideBank
PROPERTIES
  AcceptedIsWritable
  AnswerMatchesEffect
  FailedRunsAgain
  StopEnds
