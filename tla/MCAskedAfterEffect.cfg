SPECIFICATION Spec
CONSTANTS
  Jobs = {"press", "list"}
  Summaries <- SummariesOfTools
  Actions <- JobActions
  WindowJobs = {"press"}
  MaxEffects = 2
INVARIANTS AskedBeforeEffect
CHECK_DEADLOCK FALSE
