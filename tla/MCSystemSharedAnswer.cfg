SPECIFICATION SystemSpec
INVARIANTS SystemTypeOK AppliedOnlyIfConfirmed PromptIsCurrent
CONSTANTS
  Jobs = {"press", "again"}
  ReadOnlyJobs = {}
  Hashes = {"h1"}
  RequestHash <- SameHash
  Bodies <- WorkerBodies
  JobTimeout = 2
  LeaseTime = 1
  CreateUntil = 0
  MaxAttempts = 2
  Questions <- JobQuestions
  Summaries <- JobSummaries
  WindowJobs = {"press", "again"}
  ApprovalTtl = 1
  WorkerCrashes = TRUE
  RelayCrashes = TRUE
CHECK_DEADLOCK FALSE
