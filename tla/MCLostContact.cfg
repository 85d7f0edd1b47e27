SPECIFICATION SystemSpec
INVARIANT LostContactIsNotFailure
CONSTANTS
  Jobs = {"call"}
  ReadOnlyJobs = {}
  Hashes = {"h1"}
  RequestHash <- SameHash
  Bodies <- WorkerBodies
  JobTimeout = 2
  LeaseTime = 9
  CreateUntil = 0
  MaxAttempts = 2
  Questions <- JobQuestions
  Summaries <- JobSummaries
  WindowJobs = {}
  ApprovalTtl = 1
  WorkerCrashes = FALSE
  RelayCrashes = FALSE
CHECK_DEADLOCK FALSE
