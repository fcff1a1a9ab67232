SPECIFICATION BDrainSpec
CONSTANTS
  N = 2
  Senders = {s1, s2, s3}
  Receivers = {r1}
  Msgs = {m1}
  NULL = NULL
  SendOps = {"send"}
  RecvOps = {"recv"}
  HandleOps = {}
  BatchSizes = {1}
  MaxSends = 4
  SpinFirst = TRUE
INVARIANT HeadWakeup
PROPERTIES
  SendReturns
  RecvReturns
CHECK_DEADLOCK FALSE
