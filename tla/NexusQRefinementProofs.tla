----------------------- MODULE NexusQRefinementProofs -----------------------
(***************************************************************************)
(* NexusQ implements BroadcastChannel: the cells, counters and the token   *)
(* together behave as one log that every receiver reads in order.          *)
(***************************************************************************)
EXTENDS NexusQRefinement, NexusQProofs

\* Where a receive is in progress; elsewhere a handle has no method.
RecvCalls == {"check", "await", "batch_read", "move_to", "move_from", "read"}

\* What the mapping of positions needs to know of a handle beyond IInv: its
\* method, the length of a receive that is no batch, and that a clone starts
\* where its original is.
PositionInv ==
  \A r \in Receivers :
    /\ rpc[r] \notin RecvCalls => rop[r] = "none"
    /\ rpc[r] = "read" => rop[r] # "try_recv_batch"
    /\ rpc[r] \in {"move_to", "move_from"} =>
         rop[r] = "try_recv_batch" \/ num_read[r] = 1
    /\ rpc[r] = "cloned" => cursor[r] = cursor[clone_of[r]]

\* The fields the mapping reads have their types.
HandleTypes == /\ cursor \in [Receivers -> Nat \ {0}]
               /\ rpc \in [Receivers -> RecvPCs]
               /\ rop \in [Receivers -> AllRecvOps \cup {"none"}]
               /\ num_read \in [Receivers -> 0 .. N-1]
               /\ out \in [Receivers -> Msgs \cup {NULL}]

\* Steps of receivers keep the fields of a handle in agreement.
LEMMA ReceiverPosition ==
  ASSUME IInv, PositionInv, ReceiverNext
  PROVE  PositionInv'
<1>0. HandleTypes /\ CloneInv
  BY DEF IInv, TypeOK, HandleTypes
<1> USE <1>0 DEF HandleTypes, PositionInv, RecvCalls, CloneInv, GotoR,
                 EndReceive
<1>1. ASSUME NEW r \in Receivers, RecvCall(r) PROVE PositionInv'
  BY <1>1 DEF RecvCall
<1>2. ASSUME NEW r \in Receivers, Accept(r) PROVE PositionInv'
  BY <1>2 DEF Accept
<1>3. ASSUME NEW r \in Receivers, NotPublished(r) PROVE PositionInv'
  BY <1>3 DEF NotPublished
<1>4. ASSUME NEW r \in Receivers, RecvTimeout(r) PROVE PositionInv'
  BY <1>4 DEF RecvTimeout
<1>5. ASSUME NEW r \in Receivers, BatchRead(r) PROVE PositionInv'
  <2>1. rop[r] = "try_recv_batch"
    BY <1>5 DEF BatchRead, IInv, HandleInv
  <2> QED
    BY <1>5, <2>1 DEF BatchRead
<1>6. ASSUME NEW r \in Receivers, MoveTo(r) PROVE PositionInv'
  BY <1>6 DEF MoveTo
<1>7. ASSUME NEW r \in Receivers, MoveFrom(r) PROVE PositionInv'
  BY <1>7 DEF MoveFrom
<1>8. ASSUME NEW r \in Receivers, Read(r) PROVE PositionInv'
  BY <1>8 DEF Read
<1>9. ASSUME NEW r \in Receivers, Drop(r) PROVE PositionInv'
  BY <1>9 DEF Drop
<1>10. ASSUME NEW r \in Receivers, DropCell(r) PROVE PositionInv'
  BY <1>10 DEF DropCell
<1>11. ASSUME NEW q \in Receivers, CloneCount(q) PROVE PositionInv'
  BY <1>11 DEF CloneCount, IInv, TypeOK
<1>12. ASSUME NEW r \in Receivers, NEW q \in Receivers, Clone(r, q)
       PROVE  PositionInv'
  BY <1>12 DEF Clone, IInv, TypeOK
<1> QED
  BY <1>1, <1>2, <1>3, <1>4, <1>5, <1>6, <1>7, <1>8, <1>9, <1>10, <1>11,
     <1>12 DEF ReceiverNext, RecvStep

\* The agreement holds in every reachable state.
LEMMA PositionInductive == Spec => []PositionInv
<1>1. Init => PositionInv
  BY DEF Init, PositionInv, RecvCalls
<1>2. IInv /\ PositionInv /\ [Next]_vars => PositionInv'
  <2> SUFFICES ASSUME IInv, PositionInv, [Next]_vars PROVE PositionInv'
    OBVIOUS
  <2>1. CASE ReceiverNext
    BY <2>1, ReceiverPosition
  <2>2. CASE SenderNext \/ UNCHANGED vars
    BY <2>2, SenderFrame DEF vars, recvvars, PositionInv
  <2> QED
    BY <2>1, <2>2, NextSplit
<1> QED
  BY <1>1, <1>2, Inductive, PTL DEF Spec

-----------------------------------------------------------------------------
(* Steps of the senders.                                                    *)

\* The positions and the receivers are what they were.
LEMMA SameReceivers ==
  ASSUME UNCHANGED recvvars
  PROVE  /\ LiveReceivers' = LiveReceivers
         /\ \A r \in Receivers : PosBar(r)' = PosBar(r)
         /\ out' = out
  BY DEF recvvars, LiveReceivers, Live, PosBar, NextId

\* A claim is a Send: the cell was free, so nobody is a whole ring behind.
LEMMA RestoreIsSend ==
  ASSUME IInv, PositionInv, NEW s \in Senders, Restore(s)
  PROVE  Abstract!Send
<1>1. UNCHANGED recvvars /\ \E m \in Msgs : log' = Append(log, m)
  BY DEF Restore
<1>2. ASSUME NEW r \in LiveReceivers
      PROVE  Len(log) + 1 - PosBar(r) < N
  <2>1. r \in Receivers /\ Live(r) /\ Holding(r)
    BY DEF LiveReceivers, Live, Holding
  <2>2. cursor[r] - 1 > Len(log) + 1 - N
    BY <2>1 DEF IInv, ClearedInv, Restore
  <2>3. /\ cursor[r] \in Int /\ num_read[r] \in Nat /\ Len(log) \in Int
        /\ N \in Int
    BY <2>1, RingAssumption DEF IInv, TypeOK
  <2>4. PosBar(r) \in Int /\ PosBar(r) >= cursor[r] - 1
    BY <2>1, <2>3 DEF PosBar, NextId
  <2> QED
    BY <2>2, <2>3, <2>4
<1>3. \A r \in LiveReceivers : r \in Receivers
  BY DEF LiveReceivers
<1> QED
  BY <1>1, <1>2, <1>3, SameReceivers DEF Abstract!Send, Abstract!Backlog

\* The other steps of a sender change nothing the receivers can see.
LEMMA SenderStutters ==
  ASSUME IInv, NEW s \in Senders, SendCall(s) \/ SendStep(s), ~Restore(s)
  PROVE  UNCHANGED Abstract!vars
<1>1. UNCHANGED recvvars
  BY SenderFrame DEF SenderNext
<1>2. log' = log
  <2>1. CASE OutsideStep(s)
    BY <2>1, OutsideStepForm DEF IInv
  <2>2. CASE Write(s) \/ Publish(s)
    BY <2>2 DEF Write, Publish
  <2> QED
    BY <2>1, <2>2 DEF SendStep, OutsideStep, LocalStep
<1> QED
  BY <1>1, <1>2, SameReceivers DEF Abstract!vars

-----------------------------------------------------------------------------
(* Steps of the receivers.                                                  *)

\* A handle that a step does not touch is at the same position after it.
SamePosition(q) == /\ rpc'[q] = rpc[q] /\ cursor'[q] = cursor[q]
                   /\ num_read'[q] = num_read[q] /\ rop'[q] = rop[q]

\* Its mapped position and its being counted are the same.
LEMMA PositionFrame ==
  ASSUME NEW q \in Receivers, SamePosition(q)
  PROVE  PosBar(q)' = PosBar(q) /\ (Live(q)' <=> Live(q))
  BY DEF SamePosition, PosBar, Live, NextId

\* A step that moves one handle without changing its position is invisible.
LEMMA HandleStutters ==
  ASSUME ReceiverNext, NEW r \in Receivers, UNCHANGED out,
         \A q \in Receivers \ {r} : SamePosition(q),
         Live(r)' <=> Live(r), PosBar(r)' = PosBar(r)
  PROVE  UNCHANGED Abstract!vars
<1>1. \A q \in Receivers : PosBar(q)' = PosBar(q) /\ (Live(q)' <=> Live(q))
  BY PositionFrame
<1>2. LiveReceivers' = LiveReceivers
  BY <1>1 DEF LiveReceivers
<1>3. log' = log
  BY ReceiverFrame
<1> QED
  BY <1>1, <1>2, <1>3 DEF Abstract!vars

\* A step that clones the message at a handle's position and moves it on by
\* one is a Receive.
LEMMA HandleReceives ==
  ASSUME IInv, ReceiverNext, NEW r \in Receivers,
         PosBar(r) \in 1 .. Len(log),
         out' = [out EXCEPT ![r] = log[PosBar(r)]],
         \A q \in Receivers \ {r} : SamePosition(q),
         Live(r), Live(r)', PosBar(r)' = PosBar(r) + 1
  PROVE  Abstract!Receive(r)
<1>1. \A q \in Receivers \ {r} :
        PosBar(q)' = PosBar(q) /\ (Live(q)' <=> Live(q))
  BY PositionFrame
<1>2. LiveReceivers' = LiveReceivers /\ r \in LiveReceivers
  BY <1>1 DEF LiveReceivers
<1>3. log' = log /\ Len(log) \in Nat
  BY ReceiverFrame DEF IInv, TypeOK
<1> DEFINE pos == [q \in Receivers |-> PosBar(q)]
<1>4. pos' = [pos EXCEPT ![r] = @ + 1]
  BY <1>1
<1> QED
  BY <1>2, <1>3, <1>4 DEF Abstract!Receive, Abstract!Backlog

\* Every step of a receiver is one of the channel's, or invisible.
LEMMA ReceiverRefines ==
  ASSUME IInv, PositionInv, ReceiverNext
  PROVE  \/ \E r \in Receivers : Abstract!Receive(r) \/ Abstract!Drop(r)
         \/ \E r, q \in Receivers : Abstract!Clone(r, q)
         \/ UNCHANGED Abstract!vars
<1>0. HandleTypes /\ CloneInv /\ HandleInv /\ ReadsTheLog
  BY CellsHoldTheLog DEF IInv, TypeOK, HandleTypes
<1>a. N \in Nat /\ Len(log) \in Nat
  BY RingAssumption DEF IInv, TypeOK
<1> USE <1>0, <1>a DEF HandleTypes, GotoR, EndReceive, SamePosition, Live,
                       PosBar, NextId
<1>1. ASSUME NEW r \in Receivers, RecvCall(r)
      PROVE  UNCHANGED Abstract!vars
  <2>1. /\ rpc[r] = "ready" /\ num_read[r] = 0 /\ rop[r] = "none"
        /\ rpc' = [rpc EXCEPT ![r] = "check"]
        /\ \E o \in RecvOps : rop' = [rop EXCEPT ![r] = o]
        /\ UNCHANGED <<cursor, num_read, out>>
    BY <1>1 DEF RecvCall, HandleInv, PositionInv, RecvCalls
  <2>2. /\ \A q \in Receivers \ {r} : SamePosition(q)
        /\ Live(r) /\ Live(r)' /\ PosBar(r)' = PosBar(r)
    BY <2>1
  <2> QED
    BY <2>1, <2>2, HandleStutters
<1>2. ASSUME NEW r \in Receivers, Accept(r) PROVE UNCHANGED Abstract!vars
  BY <1>2, HandleStutters DEF Accept
<1>3. ASSUME NEW r \in Receivers, NotPublished(r)
      PROVE  UNCHANGED Abstract!vars
  <2>1. /\ rpc[r] = "check" /\ UNCHANGED <<cursor, num_read, out>>
        /\ \A q \in Receivers \ {r} : SamePosition(q)
        /\ rpc'[r] \in {"await", "move_to", "ready"}
        /\ \/ rop'[r] = rop[r]
           \/ rop'[r] = "none" /\ num_read[r] = 0
    BY <1>3 DEF NotPublished, HandleInv
  <2>2. Live(r) /\ Live(r)' /\ PosBar(r)' = PosBar(r)
    BY <2>1
  <2> QED
    BY <2>1, <2>2, HandleStutters
<1>4. ASSUME NEW r \in Receivers, RecvTimeout(r)
      PROVE  UNCHANGED Abstract!vars
  BY <1>4, HandleStutters DEF RecvTimeout, HandleInv
<1>5. ASSUME NEW r \in Receivers, BatchRead(r) PROVE Abstract!Receive(r)
  <2>1. /\ rop[r] = "try_recv_batch" /\ rpc[r] = "batch_read"
        /\ NextId(r) \in 1 .. Len(log)
        /\ value[fast_mod(NextId(r))] = log[NextId(r)]
    BY <1>5 DEF BatchRead, HandleInv, ReadsTheLog
  <2>2. PosBar(r) = NextId(r) /\ out' = [out EXCEPT ![r] = log[PosBar(r)]]
    BY <1>5, <2>1 DEF BatchRead
  <2>3. /\ \A q \in Receivers \ {r} : SamePosition(q)
        /\ Live(r) /\ Live(r)' /\ PosBar(r)' = PosBar(r) + 1
    BY <1>5, <2>1 DEF BatchRead
  <2> QED
    BY <2>1, <2>2, <2>3, HandleReceives
<1>6. ASSUME NEW r \in Receivers, MoveTo(r) PROVE UNCHANGED Abstract!vars
  BY <1>6, HandleStutters DEF MoveTo
<1>7. ASSUME NEW r \in Receivers, MoveFrom(r) PROVE UNCHANGED Abstract!vars
  <2>1. rpc[r] = "move_from" /\ (rop[r] = "try_recv_batch" \/ num_read[r] = 1)
    BY <1>7 DEF MoveFrom, PositionInv
  <2>2. PosBar(r)' = PosBar(r) /\ Live(r) /\ Live(r)'
    BY <1>7, <2>1 DEF MoveFrom
  <2>3. \A q \in Receivers \ {r} : SamePosition(q)
    BY <1>7 DEF MoveFrom
  <2> QED
    BY <1>7, <2>2, <2>3, HandleStutters DEF MoveFrom
<1>8. ASSUME NEW r \in Receivers, Read(r) PROVE Abstract!Receive(r)
  <2>1. /\ rpc[r] = "read" /\ cursor[r] - 1 \in 1 .. Len(log)
        /\ value[previous_cell_index[r]] = log[cursor[r] - 1]
    BY <1>8 DEF Read, ReadsTheLog
  <2>2. /\ PosBar(r) = cursor[r] - 1
        /\ out' = [out EXCEPT ![r] = log[PosBar(r)]]
    BY <1>8, <2>1 DEF Read
  <2>3. /\ \A q \in Receivers \ {r} : SamePosition(q)
        /\ Live(r) /\ Live(r)' /\ PosBar(r)' = PosBar(r) + 1
    BY <1>8, <2>1 DEF Read
  <2> QED
    BY <2>1, <2>2, <2>3, HandleReceives
<1>9. ASSUME NEW r \in Receivers, Drop(r) PROVE Abstract!Drop(r)
  <2>1. /\ \A q \in Receivers \ {r} : SamePosition(q)
        /\ Live(r) /\ ~Live(r)' /\ PosBar(r)' = 0
    BY <1>9 DEF Drop
  <2>2. /\ r \in LiveReceivers /\ LiveReceivers' = LiveReceivers \ {r}
        /\ \A q \in Receivers \ {r} : PosBar(q)' = PosBar(q)
    BY <2>1, PositionFrame DEF LiveReceivers
  <2> QED
    BY <1>9, <2>1, <2>2 DEF Abstract!Drop, Drop
<1>10. ASSUME NEW r \in Receivers, DropCell(r) PROVE UNCHANGED Abstract!vars
  BY <1>10, HandleStutters DEF DropCell
<1>11. ASSUME NEW q \in Receivers, CloneCount(q)
       PROVE  Abstract!Clone(clone_of[q], q)
  <2>0. PICK r \in Receivers : r = clone_of[q]
    BY <1>11 DEF CloneCount, CloneInv
  <2>1. /\ rpc[q] = "cloned" /\ rpc[r] = "cloning"
        /\ rop[r] = "none" /\ rop[q] = "none" /\ cursor[q] = cursor[r]
    BY <1>11, <2>0 DEF CloneCount, CloneInv, PositionInv, RecvCalls
  <2>2. /\ rpc' = [rpc EXCEPT ![q] = "ready", ![r] = "ready"]
        /\ UNCHANGED <<cursor, num_read, rop, out, log>>
    BY <1>11, <2>0 DEF CloneCount
  <2>3. /\ \A p \in Receivers \ {r, q} : SamePosition(p)
        /\ Live(r) /\ ~Live(q) /\ Live(r)' /\ Live(q)'
        /\ PosBar(r) = cursor[r] /\ PosBar(r)' = cursor[r]
        /\ PosBar(q)' = cursor[r]
    BY <2>1, <2>2
  <2> HIDE DEF SamePosition, Live, PosBar
  <2>4. /\ r \in LiveReceivers /\ q \notin LiveReceivers
        /\ LiveReceivers' = LiveReceivers \cup {q}
        /\ \A p \in Receivers \ {q} : PosBar(p)' = PosBar(p)
    BY <2>1, <2>3, PositionFrame DEF LiveReceivers
  <2>5. Abstract!Clone(r, q)
    BY <2>1, <2>2, <2>3, <2>4 DEF Abstract!Clone
  <2> QED
    BY <2>0, <2>5
<1>12. ASSUME NEW r \in Receivers, NEW q \in Receivers, Clone(r, q)
       PROVE  UNCHANGED Abstract!vars
  <2>1. /\ rpc[r] = "ready" /\ rpc[q] = "absent"
        /\ rpc' = [rpc EXCEPT ![r] = "cloning", ![q] = "cloned"]
        /\ cursor' = [cursor EXCEPT ![q] = cursor[r]]
        /\ UNCHANGED <<num_read, rop, out>>
    BY <1>12 DEF Clone
  <2>2. /\ Live(r) /\ Live(r)' /\ PosBar(r)' = PosBar(r)
        /\ ~Live(q) /\ ~Live(q)' /\ PosBar(q)' = PosBar(q)
    BY <2>1
  <2>3. \A p \in Receivers \ {r, q} : SamePosition(p)
    BY <2>1
  <2> HIDE DEF SamePosition, Live, PosBar
  <2>4. \A p \in Receivers : PosBar(p)' = PosBar(p) /\ (Live(p)' <=> Live(p))
    BY <2>2, <2>3, PositionFrame
  <2>5. LiveReceivers' = LiveReceivers
    BY <2>4 DEF LiveReceivers
  <2> QED
    BY <2>1, <2>4, <2>5, ReceiverFrame DEF Abstract!vars
<1>13. ASSUME NEW q \in Receivers, CloneCount(q) PROVE clone_of[q] \in Receivers
  BY <1>13 DEF CloneCount, CloneInv
<1> QED
  BY <1>1, <1>2, <1>3, <1>4, <1>5, <1>6, <1>7, <1>8, <1>9, <1>10, <1>11,
     <1>12, <1>13 DEF ReceiverNext, RecvStep

(***************************************************************************)
(* Every behaviour of the cells, counters and token is a behaviour of the  *)
(* broadcast channel, for every ring size and all sets of handles.         *)
(***************************************************************************)
THEOREM ChannelImplemented == Spec => ImplementsChannel
<1>1. Init => Abstract!Init
  <2> SUFFICES ASSUME Init PROVE Abstract!Init
    OBVIOUS
  <2>1. PICK first \in Receivers :
          rpc = [r \in Receivers |-> IF r = first THEN "ready" ELSE "absent"]
    BY DEF Init
  <2>2. LiveReceivers = {first}
    BY <2>1 DEF LiveReceivers, Live
  <2>3. [r \in Receivers |-> PosBar(r)]
          = [r \in Receivers |-> IF r = first THEN 1 ELSE 0]
    BY <2>1 DEF Init, PosBar, Live
  <2> QED
    BY <2>2, <2>3 DEF Init, Abstract!Init
<1>2. IInv /\ PositionInv /\ [Next]_vars => [Abstract!Next]_(Abstract!vars)
  <2> SUFFICES ASSUME IInv, PositionInv, [Next]_vars
               PROVE  Abstract!Next \/ UNCHANGED Abstract!vars
    OBVIOUS
  <2>1. CASE SenderNext
    BY <2>1, RestoreIsSend, SenderStutters DEF SenderNext, Abstract!Next
  <2>2. CASE ReceiverNext
    BY <2>2, ReceiverRefines DEF Abstract!Next
  <2>3. CASE UNCHANGED vars
    BY <2>3, SameReceivers DEF vars, Abstract!vars
  <2> QED
    BY <2>1, <2>2, <2>3, NextSplit
<1> QED
  BY <1>1, <1>2, Inductive, PositionInductive, PTL
     DEF Spec, ImplementsChannel, Abstract!Spec
=============================================================================
