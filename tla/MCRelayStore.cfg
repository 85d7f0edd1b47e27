SPECIFICATION Spec
CONSTANTS
  Jobs = {"edit", "look"}
  ReadOnlyJobs = {"look"}
  Hashes = {"h1", "h2"}
  RequestHash <- SameHash
  Bodies = {"b1"}
  JobTimeout = 2
  LeaseTime = 1
  CreateUntil = 1
  MaxAttempts = 3
INVARIANTS TypeOK RowsCoherent RerunAuthorised ApprovalSentGranted
PROPERTIES Contract AnswerKept
CHECK_DEADLOCK FALSE
