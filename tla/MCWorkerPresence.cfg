SPECIFICATION FairPresence
CONSTANTS
  Relays = {r1, r2}
  Newest = 2
  MaxStarts = 2
  HeartbeatEvery = 1
  PollWait = 2
  Latency = 1
  FetchTimeout = 3
  Backoff <- Waits
  Jitter = 1
  OfflineAfter = 6
  MaxFaults = 2
INVARIANTS PresenceTypeOK SchemaIsPrefix ServesComplete SilenceIsAccounted
PROPERTY ComesBack
CHECK_DEADLOCK FALSE
