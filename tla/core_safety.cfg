SPECIFICATION Spec
CONSTANTS
  N = 2
  Senders = {s1, s2}
  Receivers = {r1, r2}
  Msgs = {m1, m2}
  NULL = NULL
  SendOps = {"send", "try_send", "try_send_before", "poll_ready"}
  RecvOps = {"try_recv", "try_recv_until", "poll_next"}
  HandleOps = {"clone", "drop"}
  BatchSizes = {}
  MaxSends = 4
SYMMETRY Symmetry
INVARIANTS
  TypeOK
  NoReadWriteRace
  ReadsTheLog
  ExclusiveWrite
  NoOverwriteUnread
  CountersExact
  TokenUnique
  TokenNotLost
  DisconnectedIsFinal
  IInv
PROPERTY ImplementsChannel
CHECK_DEADLOCK FALSE
