SPECIFICATION InputSpec
CONSTANTS
  MaxTurns = 3
  MaxFiles = 1
  MaxDisruptions = 0
INVARIANT EditedMessageIsSent
CHECK_DEADLOCK FALSE
