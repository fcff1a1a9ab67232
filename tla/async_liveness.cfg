SPECIFICATION ADrainSpec
CONSTANTS
  N = 2
  Senders = {s1, s2, s3}
  Receivers = {r1}
  Msgs = {m1}
  NULL = NULL
  SendOps = {"poll_ready"}
  RecvOps = {"poll_next"}
  HandleOps = {}
  BatchSizes = {}
  MaxSends = 3
  TaskOps = {}
INVARIANT SinkWakeup
PROPERTIES SinkReturns StreamYields
CHECK_DEADLOCK FALSE
