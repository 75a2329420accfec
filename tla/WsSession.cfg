SPECIFICATION FairWsSpec
CONSTANTS
  Passwords = {"shift", "default"}
  NoHash = ""
  EnvHashes <- EnvHashesMC
  Default = "default"
  TTL = 1
  AckSlots = 1
  InFlight = 2
  MaxLogins = 2
  MaxTime = 2
INVARIANTS
  WsTypeOK
  SessionsAreEarned
PROPERTIES
  PermissionIsEarned
  RejectionIsShown
  ConnectionEnds
