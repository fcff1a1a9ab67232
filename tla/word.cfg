SPECIFICATION Spec
CONSTANTS
  W = 5
  BatchSizes = {0, 2, 9}
INVARIANTS
  TypeOK
  MaskIsRemainder
  InOrder
  BatchInRange
  FullAtCapacity
CHECK_DEADLOCK FALSE
