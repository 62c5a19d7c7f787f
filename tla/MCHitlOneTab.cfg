SPECIFICATION Spec
CONSTANTS
  Sessions = {s1}
  Turns = {t1, t2}
  s1 = s1
  t1 = t1
  t2 = t2
  NoTask = NoTask
  MaxReviews = 2
  MaxCrashes = 1
  Inline = {2}
  Events = {"double_send", "crash", "stop", "reconnect", "update_fails"}
SYMMETRY TurnSymmetry
INVARIANTS
  TypeOK
  TranscriptIncludesReview
  AtMostOneContinuation
  SpinnerHasTask
PROPERTIES
  ImplementsLifecycle
CHECK_DEADLOCK FALSE
