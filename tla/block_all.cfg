SPECIFICATION BSpec
CONSTANTS
  N = 2
  Senders = {s1, s2}
  Receivers = {r1, r2}
  Msgs = {m1}
  NULL = NULL
  SendOps = {"send", "try_send", "try_send_before"}
  RecvOps = {"recv", "try_recv_until", "try_recv_batch"}
  HandleOps = {"clone", "drop"}
  BatchSizes = {1}
  MaxSends = 2
  SpinFirst = TRUE
SYMMETRY Symmetry
INVARIANTS
  BTypeOK
  ListenersExact
  CellWakeup
CHECK_DEADLOCK FALSE
