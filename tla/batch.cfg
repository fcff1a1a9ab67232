SPECIFICATION Spec
CONSTANTS
  N = 4
  Senders = {s1, s2}
  Receivers = {r1, r2}
  Msgs = {m1, m2}
  NULL = NULL
  SendOps = {"send"}
  RecvOps = {"try_recv_batch"}
  HandleOps = {"clone"}
  BatchSizes = {0, 2, 9}
  MaxSends = 5
SYMMETRY Symmetry
INVARIANTS
  NoReadWriteRace
  ReadsTheLog
  CountersExact
  IInv
PROPERTY ImplementsChannel
CHECK_DEADLOCK FALSE
