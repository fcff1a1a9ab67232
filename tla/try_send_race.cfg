SPECIFICATION Spec
CONSTANTS
  N = 2
  Senders = {s1, s2, s3}
  Receivers = {r1}
  Msgs = {m1}
  NULL = NULL
  SendOps = {"try_send"}
  RecvOps = {"recv"}
  HandleOps = {"drop"}
  BatchSizes = {}
  MaxSends = 5
SYMMETRY Symmetry
INVARIANT ExclusiveWriteAlways
CHECK_DEADLOCK FALSE
