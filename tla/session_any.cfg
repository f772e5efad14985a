SPECIFICATION Spec
CONSTANTS
  SIZE_MOD = 8
  NONE = NONE
  t1 = t1
  t2 = t2
  t3 = t3
  Thread = {t1, t2, t3}
  MaxRequests = 2
  MaxInFlight = 2
  Patient = FALSE
  max_length = 2
  Shape <- AnyShapes
  Parts = {1}
INVARIANTS
  TypeOK
  OneOperation
  RefsExact
SYMMETRY Symmetry
CHECK_DEADLOCK FALSE
