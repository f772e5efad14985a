SPECIFICATION FairSpec
CONSTANTS
  SIZE_MOD = 8
  NONE = NONE
  t1 = t1
  t2 = t2
  t3 = t3
  Thread = {t1, t2, t3}
  MaxRequests = 2
  MaxInFlight = 1
  Patient = TRUE
  max_length = 2
  Shape <- GoodShapes
  Parts = {1, 2}
INVARIANTS
  AnswersMatch
PROPERTIES
  Answered
  Freed
CHECK_DEADLOCK FALSE
