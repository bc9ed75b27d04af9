SPECIFICATION HostSpec
CONSTANTS
  Clients = 2
  Sectors = 3
  ChunkAttempts = 3
  Reconnects = 2
  Recoveries = 2
  Callers = {a, b}
  CreationLimit = 3
  PollLimit = 4
  LimitWindow = 2
  PollInterval = 1
  RequestLifetime = 4
INVARIANTS
  WholePayloadsRun
  ImageIsAccounted
  PatientCallersAreServed
  RevokedTokensAreRefused
  
PROPERTIES
  UploadEnds
  CopyEnds
CHECK_DEADLOCK FALSE
