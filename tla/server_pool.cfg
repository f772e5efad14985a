SPECIFICATION FairSpec
CONSTANTS
  NONE = NONE
  t1 = t1
  t2 = t2
  t3 = t3
  a = a
  b = b
  c = c
  Thread = {t1, t2, t3}
  Client = {a, b}
  Sleeper = {a, b}
  MaxErrors = 1
INVARIANTS
  TypeOK
  OneAccept
  OneSleepEach
  SomeoneAwake
PROPERTIES
  Accepted
  Served
CHECK_DEADLOCK FALSE
