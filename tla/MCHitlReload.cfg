SPECIFICATION FairSpec
CONSTANTS
  Sessions = {s1}
  Turns = {t1, t2}
  s1 = s1
  t1 = t1
  t2 = t2
  NoTask = NoTask
  MaxReviews = 2
  MaxCrashes = 1
  Inline = {}
  Events = {"crash", "stop"}
INVARIANTS
  StoredCloseIsKnown
PROPERTIES
  OutcomeIsFinal
  CloseBecomesDurable
  AnswerContinues
CHECK_DEADLOCK FALSE
