SPECIFICATION Spec
CONSTANTS
  Calls = {"write", "replace", "import", "copy", "keep", "same", "move", "delete", "erase"}
  MaxCalls = 3
  Call <- CallsMade
  Paths <- PathsUsed
  Texts <- TextsUsed
  Before <- FilesBefore
  MaxEdits = 1
INVARIANTS FilesTypeOK NeverTorn
PROPERTIES BuildsOnTheFile ImportsTheExpected
CHECK_DEADLOCK FALSE
