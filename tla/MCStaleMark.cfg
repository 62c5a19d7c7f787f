SPECIFICATION InputSpec
CONSTANTS
  MaxTurns = 3
  MaxFiles = 1
  MaxDisruptions = 2
INVARIANT BlockedStaysMarked
CHECK_DEADLOCK FALSE
