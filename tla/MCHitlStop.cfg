SPECIFICATION Spec
CONSTANTS
  Sessions = {s1}
  Turns = {t1, t2}
  s1 = s1
  t1 = t1
  t2 = t2
  NoTask = NoTask
  MaxReviews = 2
  MaxCrashes = 0
  Inline = {}
  Events = {"stop"}
INVARIANTS
  ContinuationIsSessionTask
CHECK_DEADLOCK FALSE
