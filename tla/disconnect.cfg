SPECIFICATION Spec
CONSTANTS
  N = 2
  Senders = {s1, s2, s3}
  Receivers = {r1, r2}
  Msgs = {m1}
  NULL = NULL
  SendOps = {"send", "try_send_before"}
  RecvOps = {"try_recv"}
  HandleOps = {"clone", "drop"}
  BatchSizes = {}
  MaxSends = 4
INVARIANT ExclusiveWriteAlways
PROPERTIES
  NoSendAfterDisconnect
  OneOrphanAtMost
CHECK_DEADLOCK FALSE
