SPECIFICATION Spec
CONSTANTS
  NONE = NONE
  t1 = t1
  t2 = t2
  t3 = t3
  a = a
  b = b
  c = c
  Thread = {t1, t2}
  Client = {a, b, c}
  Sleeper = {a, b}
  MaxErrors = 1
INVARIANTS
  SomeoneAwake
CHECK_DEADLOCK FALSE
