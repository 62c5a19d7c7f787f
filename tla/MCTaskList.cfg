SPECIFICATION Spec
CONSTANTS
  Renderers = {"tasks"}
  MaxTokens = 2
  MaxAdds = 2
  MaxAborts = 2
INVARIANT EndsOnScreen
CHECK_DEADLOCK FALSE
