SPECIFICATION FairSpec
CONSTANTS
  NativeCalls = {"strict"}
  SandboxCalls = {"strict"}
  Processes = {"run"}
  Output <- ShortOutput
  MaxOutput = 3
INVARIANTS ProcessTypeOK PolledOnce EndsAsReported
PROPERTY RunEnds
CHECK_DEADLOCK FALSE
