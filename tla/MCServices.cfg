SPECIFICATION MCSpec
CONSTANTS
  MaxKids = 2
  Calls = {c1, c2}
  MaxNodes = 2
  Actions = {a1}
INVARIANTS StagingSafe StopIsReported NothingLeft
PROPERTIES CommandsEnd GenerationEnds
CHECK_DEADLOCK FALSE
