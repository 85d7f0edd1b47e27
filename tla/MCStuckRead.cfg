SPECIFICATION FairSystemSpec
PROPERTY EveryCallReturns
CONSTANTS
  Jobs = {"call"}
  ReadOnlyJobs = {"call"}
  Hashes = {"h1"}
  RequestHash <- SameHash
  Bodies <- WorkerBodies
  JobTimeout = 2
  LeaseTime = 1
  CreateUntil = 0
  MaxAttempts = 2
  Questions <- JobQuestions
  Summaries <- JobSummaries
  WindowJobs = {}
  ApprovalTtl = 1
  WorkerCrashes = FALSE
  RelayCrashes = FALSE
CHECK_DEADLOCK FALSE
