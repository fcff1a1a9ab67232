SPECIFICATION ASpec
CONSTANTS
  N = 2
  Senders = {s1, s2}
  Receivers = {r1}
  Msgs = {m1}
  NULL = NULL
  SendOps = {"poll_ready"}
  RecvOps = {"poll_next"}
  HandleOps = {}
  BatchSizes = {}
  MaxSends = 3
  TaskOps = {"repoll"}
INVARIANT ExclusiveWrite
CHECK_DEADLOCK FALSE
