SPECIFICATION ASpec
CONSTANTS
  N = 2
  Senders = {s1, s2}
  Receivers = {r1, r2}
  Msgs = {m1}
  NULL = NULL
  SendOps = {"poll_ready", "try_send_before"}
  RecvOps = {"poll_next", "try_recv_batch"}
  HandleOps = {"clone", "drop"}
  BatchSizes = {1}
  MaxSends = 2
  TaskOps = {"cancel", "drop", "repoll"}
SYMMETRY Symmetry
INVARIANTS ATypeOK TaskWakeup
CHECK_DEADLOCK FALSE
