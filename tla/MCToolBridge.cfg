SPECIFICATION Spec
CONSTANTS
  Jobs = {"press", "copy", "online", "move"}
  Summaries <- SummariesOfTools
  Actions <- JobActions
  WindowJobs = {"press"}
  MaxEffects = 2
INVARIANTS BridgeTypeOK RunsOnlyIfAccepted QuestionIsOwn CompletedIsAudited
CHECK_DEADLOCK FALSE
