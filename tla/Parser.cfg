CONSTANTS
  Names <- MCNames
  Fold <- MCFold
  Reserved = {"loop", "offset", "crlf"}
  Mnemonics = {"loop"}
  Routines = {"crlf"}
  Disableable = {"loop", "offset"}
  General = {"ebx", "esi"}
  Capacity <- MCCapacity
  Topics <- MCTopics
SPECIFICATION Spec
CHECK_DEADLOCK FALSE
INVARIANTS ImageFitsExecutor CodeMeansItsSource InvokeMatchesCallee DeclarationsStayApart
