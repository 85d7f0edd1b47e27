SPECIFICATION SessionSpec
CONSTANTS
  NameLength <- Lengths
  Workspace <- Work
  Basics <- BasicApps
  Initial <- FirstConfig
  Rules <- UserRules
  Names = {"confirm-all", "mostly-unattended", "yolo", "mine", "unknown"}
  Requests <- Asked
  MaxWrites = 1
  Calls <- AllCalls
  Apps <- WindowApps
INVARIANTS SessionTypeOK FileCanBeLoaded DenialDecides ProfileKeepsItsWord RerunIsHarmless AcceptedIsWhatRuns
CHECK_DEADLOCK FALSE
