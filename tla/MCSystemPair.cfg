SPECIFICATION FairSystemSpec
INVARIANTS AppliedAtMostOnce RowTellsEffect
PROPERTY MutationCallReturns
CONSTANTS
  Jobs = {"capture", "call"}
  ReadOnlyJobs = {"capture"}
  Hashes = {"h1"}
  RequestHash <- SameHash
  Bodies <- WorkerBodies
  JobTimeout = 2
  LeaseTime = 1
  CreateUntil = 0
  MaxAttempts = 2
  Questions <- JobQuestions
  Summaries <- JobSummaries
  WindowJobs = {"capture"}
  ApprovalTtl = 1
  WorkerCrashes = TRUE
  RelayCrashes = FALSE
CHECK_DEADLOCK FALSE
