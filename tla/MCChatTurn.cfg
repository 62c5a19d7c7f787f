SPECIFICATION TurnPartsSpec
CONSTANTS
  Renderers = {"steps", "tasks"}
  MaxTokens = 4
  MaxAdds = 3
  MaxAborts = 3
  MaxTurns = 3
  MaxFiles = 2
  MaxDisruptions = 1
  Tools = {t1, t2}
  MaxConnections = 2
  MaxRequests = 2
  MaxCalls = 2
INVARIANTS
  TurnPartsTypeOK
  TextInOrder
  StepsEndOnScreen
  OutcomeShown
  RequestCarriesFiles
  CalledSessionListedTool
PROPERTIES
  OnlyConversation
  ForgottenOnDisconnect
SYMMETRY ToolSymmetry
CHECK_DEADLOCK FALSE
