SPECIFICATION Spec
CONSTANTS
  Sessions = {s1, s2}
  Turns = {t1}
  s1 = s1
  s2 = s2
  t1 = t1
  NoTask = NoTask
  MaxReviews = 1
  MaxCrashes = 0
  Inline = {}
  Events = {}
INVARIANTS
  AtMostOneContinuation
CHECK_DEADLOCK FALSE
