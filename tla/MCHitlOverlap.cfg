SPECIFICATION FairSpec
CONSTANTS
  Sessions = {s1}
  Turns = {t1, t2, t3}
  s1 = s1
  t1 = t1
  t2 = t2
  t3 = t3
  NoTask = NoTask
  MaxReviews = 3
  MaxCrashes = 0
  Inline = {}
  Events = {}
PROPERTIES
  TurnsAwaitReviews
CHECK_DEADLOCK FALSE
