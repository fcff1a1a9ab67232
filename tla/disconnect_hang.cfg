SPECIFICATION FairSpec
CONSTANTS
  N = 2
  Senders = {s1, s2}
  Receivers = {r1}
  Msgs = {m1}
  NULL = NULL
  SendOps = {"send"}
  RecvOps = {"recv"}
  HandleOps = {"drop"}
  BatchSizes = {}
  MaxSends = 3
PROPERTY DisconnectedReturns
CHECK_DEADLOCK FALSE
