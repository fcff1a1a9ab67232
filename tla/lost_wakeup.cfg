SPECIFICATION BDrainSpec
CONSTANTS
  N = 2
  Senders = {s1, s2}
  Receivers = {r1}
  Msgs = {m1}
  NULL = NULL
  SendOps = {"send", "try_send"}
  RecvOps = {"recv"}
  HandleOps = {}
  BatchSizes = {1}
  MaxSends = 4
  SpinFirst = FALSE
PROPERTY SendReturns
CHECK_DEADLOCK FALSE
