---------------------------- MODULE NexusQProofs ----------------------------
(***************************************************************************)
(* IInv is an invariant of NexusQ, for every ring size, all sets of sender *)
(* and receiver handles and every mix of calls; the safety properties of   *)
(* the channel follow from it.                                             *)
(***************************************************************************)
EXTENDS NexusQ, FiniteSetTheorems, TLAPS

-----------------------------------------------------------------------------
(* Cell indices.                                                            *)

\* Division with remainder, as the provers need it.
LEMMA DivMod ==
  ASSUME NEW a \in Int
  PROVE  /\ a \div N \in Int
         /\ a % N \in 0 .. N-1
         /\ a = N * (a \div N) + (a % N)
  BY RingAssumption

\* A multiple of N smaller than N in size is 0.
LEMMA SmallMultiple ==
  ASSUME NEW k \in Int, N * k < N, N * k > -N
  PROVE  k = 0
<1>1. CASE k >= 1
  BY <1>1, RingAssumption
<1>2. CASE k <= -1
  BY <1>2, RingAssumption
<1> QED
  BY <1>1, <1>2

\* An id has a cell.
LEMMA IndexType ==
  ASSUME NEW i \in Int
  PROVE  fast_mod(i) \in Cells
  BY DivMod DEF fast_mod, Cells

\* Two ids less than a lap apart have different cells.
LEMMA IndexDistinct ==
  ASSUME NEW a \in Int, NEW b \in Int, a < b, b < a + N
  PROVE  fast_mod(a) # fast_mod(b)
<1> SUFFICES ASSUME a % N = b % N PROVE FALSE
  BY DEF fast_mod
<1> DEFINE p == a \div N
           q == b \div N
<1>1. p \in Int /\ a = N * p + (a % N) /\ a % N \in Int
  BY DivMod, RingAssumption
<1>2. q \in Int /\ b = N * q + (b % N)
  BY DivMod
<1> HIDE DEF p, q
<1>3. b - a = N * (q - p)
  BY <1>1, <1>2, RingAssumption
<1>4. q - p = 0
  BY <1>1, <1>2, <1>3, SmallMultiple, RingAssumption
<1> QED
  BY <1>1, <1>2, <1>4, RingAssumption

\* Ids exactly a lap apart share their cell.
LEMMA IndexLap ==
  ASSUME NEW a \in Int
  PROVE  fast_mod(a + N) = fast_mod(a)
<1> DEFINE p == a \div N
           q == (a + N) \div N
<1>1. p \in Int /\ a = N * p + (a % N) /\ a % N \in 0 .. N-1
  BY DivMod
<1>2. /\ q \in Int /\ a + N = N * q + ((a + N) % N)
      /\ (a + N) % N \in 0 .. N-1
  <2>1. a + N \in Int
    BY RingAssumption
  <2> QED
    BY <2>1, DivMod
<1> HIDE DEF p, q
<1>3. N * (q - p - 1) = (a % N) - ((a + N) % N)
  BY <1>1, <1>2, RingAssumption
<1>4. q - p - 1 = 0
  BY <1>1, <1>2, <1>3, SmallMultiple, RingAssumption
<1> QED
  BY <1>1, <1>2, <1>3, <1>4, RingAssumption DEF fast_mod

-----------------------------------------------------------------------------
(* What the two kinds of step leave alone.                                  *)

SenderNext   == \E s \in Senders : SendCall(s) \/ SendStep(s)
ReceiverNext == \/ \E r \in Receivers : RecvCall(r) \/ RecvStep(r) \/ Drop(r)
                \/ \E r, q \in Receivers : Clone(r, q)

\* A sender changes no counter and no receiver.
LEMMA SenderFrame ==
  SenderNext => UNCHANGED <<num_receivers, read_counter, recvvars>>
  BY DEF SenderNext, SendStep, SendCall, CheckDeadline, CheckConnected, Take,
         TakeFails, TakeTimeout, CheckCell, AwaitCell, CellTimeout,
         CheckReceivers, PollDisconnected, Unwind, Restore, Write, Publish,
         cells

\* A receiver changes no sender, not the head, and nothing of a cell but its
\* counter.
LEMMA ReceiverFrame ==
  ReceiverNext => UNCHANGED <<write_head, value, current_id, sendvars, log>>
  BY DEF ReceiverNext, RecvStep, RecvCall, Accept, NotPublished, RecvTimeout,
         BatchRead, MoveTo, MoveFrom, Read, Clone, CloneCount, Drop, DropCell,
         cells

\* Every step is a sender's or a receiver's.
LEMMA NextSplit == Next <=> SenderNext \/ ReceiverNext
  BY DEF Next, SenderNext, ReceiverNext

-----------------------------------------------------------------------------
\* A channel fresh from make_channel satisfies the invariant.
LEMMA InitIInv == Init => IInv
<1> SUFFICES ASSUME Init PROVE IInv
  OBVIOUS
<1> PICK first \in Receivers :
      rpc = [r \in Receivers |-> IF r = first THEN "ready" ELSE "absent"]
  BY DEF Init
<1>1. TypeOK
  BY RingAssumption DEF Init, TypeOK, Cells, MAX, TAKEN, SendPCs, Returned,
     RecvPCs
<1>2. fast_mod(0) = 0
  BY RingAssumption DEF fast_mod
<1>3. HandleInv /\ CloneInv
  BY <1>2 DEF Init, HandleInv, CloneInv
<1>4. CountersExact
  <2>1. LiveReceivers = {first}
    BY DEF LiveReceivers, Live
  <2>2. ASSUME NEW c \in Cells
        PROVE  Holders(c) = IF c = 0 THEN {first} ELSE {}
    BY DEF Init, Holders, Holds, Holding
  <2> QED
    BY <2>1, <2>2, FS_EmptySet, FS_Singleton DEF Init, CountersExact
<1>5. /\ TokenUnique /\ ClaimInv /\ PublishedInv /\ DisconnectedIsFinal
      /\ ClearedInv
  BY DEF Init, TokenUnique, ClaimInv, PublishedInv, DisconnectedIsFinal,
         ClearedInv, HoldsToken, InFlight, MAX
<1>6. WindowInv /\ ContentInv
  BY RingAssumption DEF Init, WindowInv, ContentInv, InFlight, LastId, NextId
<1> QED
  BY <1>1, <1>3, <1>4, <1>5, <1>6 DEF IInv

-----------------------------------------------------------------------------
(* Steps of the senders.                                                    *)

\* Most steps of a sender only move its program counter, or end the call.
LocalStep(s) ==
  \/ CheckDeadline(s) \/ CheckConnected(s) \/ TakeFails(s) \/ TakeTimeout(s)
  \/ CheckCell(s) \/ AwaitCell(s) \/ CellTimeout(s) \/ CheckReceivers(s)
  \/ PollDisconnected(s)

\* Such a step touches nothing shared and no id in flight.
LEMMA LocalStepForm ==
  ASSUME NEW s \in Senders, LocalStep(s)
  PROVE  /\ UNCHANGED <<write_head, num_receivers, cells, recvvars, log>>
         /\ \/ \E to \in SendPCs \ {"write", "publish"} : Goto(s, to)
            \/ \E result \in Returned : Return(s, result)
         /\ pc[s] \notin {"write", "publish"}
<1> USE DEF SendPCs, Returned
<1>1. CASE CheckDeadline(s)
  BY <1>1 DEF CheckDeadline
<1>2. CASE CheckConnected(s)
  BY <1>2 DEF CheckConnected
<1>3. CASE TakeFails(s)
  BY <1>3 DEF TakeFails
<1>4. CASE TakeTimeout(s)
  BY <1>4 DEF TakeTimeout
<1>5. CASE CheckCell(s)
  BY <1>5 DEF CheckCell
<1>6. CASE AwaitCell(s) \/ CellTimeout(s)
  BY <1>6 DEF AwaitCell, CellTimeout
<1>7. CASE CheckReceivers(s) \/ PollDisconnected(s)
  BY <1>7 DEF CheckReceivers, PollDisconnected
<1> QED
  BY <1>1, <1>2, <1>3, <1>4, <1>5, <1>6, <1>7 DEF LocalStep

\* No step of a sender breaks a type.
LEMMA SenderType == TypeOK /\ SenderNext => TypeOK'
<1> SUFFICES ASSUME TypeOK, NEW s \in Senders, SendCall(s) \/ SendStep(s)
             PROVE  TypeOK'
  BY DEF SenderNext
<1> USE DEF TypeOK, cells, sendvars, recvvars
<1>1. CASE SendCall(s)
  <2>1. PICK o \in SendOps : /\ pc' = [pc EXCEPT ![s] = EntryOf[o]]
                             /\ op' = [op EXCEPT ![s] = o]
    BY <1>1 DEF SendCall
  <2>2. EntryOf[o] \in SendPCs /\ o \in AllSendOps
    BY OpsAssumption DEF EntryOf, AllSendOps, SendPCs
  <2> QED
    BY <1>1, <2>1, <2>2 DEF SendCall
<1>2. CASE LocalStep(s)
  <2>1. CASE \E to \in SendPCs : Goto(s, to)
    BY <1>2, <2>1, LocalStepForm DEF Goto
  <2>2. ASSUME NEW result \in Returned, Return(s, result)
        PROVE  TypeOK'
    <3>1. result \in SendPCs
      BY DEF SendPCs
    <3> QED
      BY <1>2, <2>2, <3>1, LocalStepForm DEF Return
  <2> QED
    BY <1>2, <2>1, <2>2, LocalStepForm
<1>3. CASE Take(s)
  BY <1>3 DEF Take, TAKEN, SendPCs
<1>4. CASE Unwind(s)
  BY <1>4 DEF Unwind, Return, SendPCs, Returned
<1>5. CASE Restore(s)
  <2>1. PICK m \in Msgs : /\ msg' = [msg EXCEPT ![s] = m]
                          /\ log' = Append(log, m)
    BY <1>5 DEF Restore
  <2>2. log' \in Seq(Msgs) /\ msg' \in [Senders -> Msgs \cup {NULL}]
    BY <2>1
  <2>3. write_head' \in Nat
    BY <1>5 DEF Restore
  <2> QED
    BY <1>5, <2>2, <2>3 DEF Restore, SendPCs
<1>6. CASE Write(s)
  BY <1>6, IndexType DEF Write, Goto, SendPCs
<1>7. CASE Publish(s)
  BY <1>7, IndexType DEF Publish, Return, SendPCs, Returned
<1> QED
  BY <1>1, <1>2, <1>3, <1>4, <1>5, <1>6, <1>7 DEF SendStep, LocalStep

\* The token is taken by one sender at a time and put back with the next id.
LEMMA SenderToken == TypeOK /\ TokenUnique /\ SenderNext => TokenUnique'
<1> SUFFICES ASSUME TypeOK, TokenUnique, NEW s \in Senders,
                    SendCall(s) \/ SendStep(s)
             PROVE  TokenUnique'
  BY DEF SenderNext
<1> USE DEF TypeOK, TokenUnique, HoldsToken, Returned, TAKEN, MAX, cells
<1>1. CASE SendCall(s)
  <2>1. PICK o \in SendOps : pc' = [pc EXCEPT ![s] = EntryOf[o]]
    BY <1>1 DEF SendCall
  <2>2. EntryOf[o] \in {"take", "check_connected", "check_deadline"}
    BY OpsAssumption DEF EntryOf, AllSendOps
  <2> QED
    BY <1>1, <2>1, <2>2 DEF SendCall
<1>2. CASE LocalStep(s)
  <2>1. UNCHANGED <<write_head, log>>
    BY <1>2, LocalStepForm
  <2>2. ASSUME NEW result \in Returned, Return(s, result)
        PROVE  TokenUnique'
    BY <2>1, <2>2 DEF Return
  <2>3. ASSUME NEW to, Goto(s, to), HoldsToken(s) \/ ~HoldsToken(s)'
        PROVE  TokenUnique'
    BY <2>1, <2>3 DEF Goto
  <2>4. ~HoldsToken(s) /\ HoldsToken(s)' => FALSE
    BY <1>2 DEF LocalStep, CheckDeadline, CheckConnected, TakeFails,
       TakeTimeout, CheckCell, AwaitCell, CellTimeout, CheckReceivers,
       PollDisconnected, Goto, Return
  <2> QED
    BY <1>2, <2>2, <2>3, <2>4, LocalStepForm
<1>3. CASE Take(s)
  BY <1>3 DEF Take
<1>4. CASE Unwind(s)
  BY <1>4 DEF Unwind, Return
<1>5. CASE Restore(s)
  <2>1. Len(log') = Len(log) + 1
    BY <1>5 DEF Restore
  <2> QED
    BY <1>5, <2>1 DEF Restore
<1>6. CASE Write(s)
  BY <1>6 DEF Write, Goto
<1>7. CASE Publish(s)
  BY <1>7 DEF Publish, Return
<1> QED
  BY <1>1, <1>2, <1>3, <1>4, <1>5, <1>6, <1>7 DEF SendStep, LocalStep

\* Before the claim and after the publication, a sender's steps concern no id
\* in flight and no content of a cell.
OutsideStep(s) == SendCall(s) \/ LocalStep(s) \/ Take(s) \/ Unwind(s)

\* Such a step leaves contents, log and the other senders' claims alone.
LEMMA OutsideStepForm ==
  ASSUME TypeOK, NEW s \in Senders, OutsideStep(s)
  PROVE  /\ UNCHANGED <<value, current_id, log>>
         /\ ~InFlight(s) /\ ~InFlight(s)'
         /\ \A t \in Senders \ {s} :
              pc'[t] = pc[t] /\ id'[t] = id[t] /\ msg'[t] = msg[t]
<1> USE DEF TypeOK, InFlight, cells
<1>1. CASE SendCall(s)
  <2>1. PICK o \in SendOps : pc' = [pc EXCEPT ![s] = EntryOf[o]]
    BY <1>1 DEF SendCall
  <2>2. EntryOf[o] \in {"take", "check_connected", "check_deadline"}
    BY OpsAssumption DEF EntryOf, AllSendOps
  <2> QED
    BY <1>1, <2>1, <2>2 DEF SendCall, Returned
<1>2. CASE LocalStep(s)
  <2>1. ASSUME NEW to \in SendPCs \ {"write", "publish"}, Goto(s, to)
        PROVE  /\ ~InFlight(s)'
               /\ \A t \in Senders \ {s} :
                    pc'[t] = pc[t] /\ id'[t] = id[t] /\ msg'[t] = msg[t]
    BY <2>1 DEF Goto
  <2>2. ASSUME NEW result \in Returned, Return(s, result)
        PROVE  /\ ~InFlight(s)'
               /\ \A t \in Senders \ {s} :
                    pc'[t] = pc[t] /\ id'[t] = id[t] /\ msg'[t] = msg[t]
    BY <2>2 DEF Return, Returned
  <2> QED
    BY <1>2, <2>1, <2>2, LocalStepForm
<1>3. CASE Take(s)
  BY <1>3 DEF Take
<1>4. CASE Unwind(s)
  BY <1>4 DEF Unwind, Return
<1> QED
  BY <1>1, <1>2, <1>3, <1>4 DEF OutsideStep

\* What the claim of an id does, seen from the log.
LEMMA RestoreForm ==
  ASSUME TypeOK, TokenUnique, NEW s \in Senders, Restore(s)
  PROVE  /\ id[s] = Len(log) + 1
         /\ Len(log') = Len(log) + 1
         /\ log'[Len(log) + 1] = msg'[s]
         /\ \A k \in 1 .. Len(log) : log'[k] = log[k]
         /\ UNCHANGED <<value, current_id, id>>
         /\ pc' = [pc EXCEPT ![s] = "write"]
         /\ \A t \in Senders \ {s} : msg'[t] = msg[t]
<1>1. PICK m \in Msgs : /\ msg' = [msg EXCEPT ![s] = m]
                        /\ log' = Append(log, m)
  BY DEF Restore
<1>2. id[s] = Len(log) + 1
  BY DEF Restore, TokenUnique, HoldsToken
<1>3. log \in Seq(Msgs) /\ Len(log) \in Nat
  BY DEF TypeOK
<1>4. /\ Len(log') = Len(log) + 1
      /\ log'[Len(log) + 1] = m
      /\ \A k \in 1 .. Len(log) : log'[k] = log[k]
  BY <1>1, <1>3
<1> QED
  BY <1>1, <1>2, <1>4 DEF Restore, TypeOK, cells

\* No id is published before it was claimed.
LEMMA SenderPublished ==
  TypeOK /\ TokenUnique /\ ClaimInv /\ PublishedInv /\ SenderNext
    => PublishedInv'
<1> SUFFICES ASSUME TypeOK, TokenUnique, ClaimInv, PublishedInv,
                    NEW s \in Senders, SendCall(s) \/ SendStep(s)
             PROVE  PublishedInv'
  BY DEF SenderNext
<1>1. CASE OutsideStep(s)
  BY <1>1, OutsideStepForm DEF PublishedInv
<1>2. CASE Restore(s)
  <2>1. Len(log) \in Nat /\ \A c \in Cells : current_id[c] \in Int
    BY DEF TypeOK, MAX
  <2>2. Len(log') = Len(log) + 1 /\ current_id' = current_id
    BY <1>2, RestoreForm
  <2> QED
    BY <2>1, <2>2 DEF PublishedInv
<1>3. CASE Write(s)
  BY <1>3 DEF Write, PublishedInv
<1>4. CASE Publish(s)
  <2>1. id[s] <= Len(log)
    BY <1>4 DEF Publish, ClaimInv, InFlight
  <2> QED
    BY <1>4, <2>1 DEF Publish, PublishedInv, TypeOK
<1> QED
  BY <1>1, <1>2, <1>3, <1>4 DEF SendStep, OutsideStep, LocalStep

\* Ids in flight stay distinct, claimed and unpublished.
LEMMA SenderClaim ==
  TypeOK /\ TokenUnique /\ ClaimInv /\ PublishedInv /\ SenderNext
    => ClaimInv'
<1> SUFFICES ASSUME TypeOK, TokenUnique, ClaimInv, PublishedInv,
                    NEW s \in Senders, SendCall(s) \/ SendStep(s)
             PROVE  ClaimInv'
  BY DEF SenderNext
<1>1. CASE OutsideStep(s)
  BY <1>1, OutsideStepForm DEF ClaimInv, InFlight
<1>2. CASE Restore(s)
  <2>1. \A c \in Cells : current_id[c] <= Len(log)
    BY DEF PublishedInv
  <2>2. Len(log) \in Nat /\ \A c \in Cells : current_id[c] \in Int
    BY DEF TypeOK, MAX
  <2>3. /\ id[s] = Len(log) + 1
        /\ Len(log') = Len(log) + 1
        /\ log'[Len(log) + 1] = msg'[s]
        /\ \A k \in 1 .. Len(log) : log'[k] = log[k]
        /\ UNCHANGED <<current_id, id>>
        /\ pc' = [pc EXCEPT ![s] = "write"]
        /\ \A t \in Senders \ {s} : msg'[t] = msg[t]
    BY <1>2, RestoreForm
  <2>4. ~InFlight(s)
    BY <1>2 DEF Restore, InFlight
  <2>5. \A t \in Senders \ {s} : InFlight(t)' = InFlight(t)
    BY <2>3 DEF InFlight, TypeOK
  <2>6. ASSUME NEW t \in Senders \ {s}, InFlight(t)
        PROVE  id[t] \in 1 .. Len(log) /\ msg[t] = log[id[t]]
    BY <2>6 DEF ClaimInv
  <2>7. /\ id'[s] \in 1 .. Len(log')
        /\ msg'[s] = log'[id'[s]]
        /\ \A t \in Senders \ {s} : InFlight(t)' => id'[t] # id'[s]
        /\ \A c \in Cells : current_id'[c] # id'[s]
    BY <2>1, <2>2, <2>3, <2>5, <2>6
  <2>8. ASSUME NEW t \in Senders \ {s}, InFlight(t)'
        PROVE  /\ id'[t] \in 1 .. Len(log')
               /\ msg'[t] = log'[id'[t]]
               /\ \A u \in Senders \ {t} : InFlight(u)' => id'[u] # id'[t]
               /\ \A c \in Cells : current_id'[c] # id'[t]
    <3>1. InFlight(t) /\ id[t] \in 1 .. Len(log) /\ msg[t] = log[id[t]]
      BY <2>5, <2>6, <2>8
    <3>2. \A u \in Senders \ {t} : InFlight(u)' => id'[u] # id'[t]
      BY <2>2, <2>3, <2>5, <3>1 DEF ClaimInv
    <3>3. \A c \in Cells : current_id'[c] # id'[t]
      BY <2>3, <3>1 DEF ClaimInv
    <3> QED
      BY <2>2, <2>3, <3>1, <3>2, <3>3
  <2> QED
    BY <2>7, <2>8 DEF ClaimInv
<1>3. CASE Write(s)
  BY <1>3 DEF Write, Goto, ClaimInv, InFlight, TypeOK
<1>4. CASE Publish(s)
  <2>1. \A t \in Senders \ {s} : InFlight(t) => id[t] # id[s]
    BY <1>4 DEF Publish, ClaimInv, InFlight
  <2> QED
    BY <1>4, <2>1, IndexType
       DEF Publish, Return, ClaimInv, InFlight, TypeOK, CellOf
<1> QED
  BY <1>1, <1>2, <1>3, <1>4 DEF SendStep, OutsideStep, LocalStep

-----------------------------------------------------------------------------
(* Steps of the receivers.                                                  *)

\* Counting handles.
LEMMA CountHandles ==
  ASSUME NEW S \in SUBSET Receivers
  PROVE  /\ Cardinality(S) \in Nat
         /\ Cardinality(S) = 0 <=> S = {}
         /\ \A r \in Receivers \ S :
              Cardinality(S \cup {r}) = Cardinality(S) + 1
         /\ \A r \in S : /\ Cardinality(S \ {r}) = Cardinality(S) - 1
                         /\ Cardinality(S) >= 1
<1>1. IsFiniteSet(S)
  BY HandlesAssumption, FS_Subset
<1>2. Cardinality(S) \in Nat
  BY <1>1, FS_CardinalityType
<1>3. Cardinality(S) = 0 <=> S = {}
  BY <1>1, FS_EmptySet
<1>4. \A r \in Receivers \ S : Cardinality(S \cup {r}) = Cardinality(S) + 1
  BY <1>1, FS_AddElement
<1>5. ASSUME NEW r \in S
      PROVE  /\ Cardinality(S \ {r}) = Cardinality(S) - 1
             /\ Cardinality(S) >= 1
  <2>1. Cardinality(S \ {r}) = Cardinality(S) - 1
    BY <1>1, FS_RemoveElement
  <2>2. Cardinality(S) # 0
    BY <1>3
  <2> QED
    BY <1>2, <2>1, <2>2
<1> QED
  BY <1>2, <1>3, <1>4, <1>5

\* The steps of a receive that touch no counter and keep the handle where it is.
QuietStep(r) ==
  \/ RecvCall(r) \/ Accept(r) \/ NotPublished(r) \/ RecvTimeout(r)
  \/ BatchRead(r) \/ Read(r)

\* Where a receiver is between calls, and in one, outside move_to .. move_from.
QuietPCs == {"ready", "check", "await", "batch_read", "move_to", "read"}

\* Such a step touches no counter, and no handle but its own.
LEMMA QuietStepForm ==
  ASSUME TypeOK, NEW r \in Receivers, QuietStep(r)
  PROVE  /\ UNCHANGED <<num_receivers, read_counter, cursor,
                        previous_cell_index, clone_of>>
         /\ rpc[r] \in QuietPCs
         /\ \E to \in QuietPCs : GotoR(r, to)
         /\ \A q \in Receivers \ {r} : num_read'[q] = num_read[q]
<1> USE DEF TypeOK, QuietPCs, cells
<1>1. CASE RecvCall(r)
  BY <1>1 DEF RecvCall
<1>2. CASE Accept(r)
  BY <1>2 DEF Accept
<1>3. CASE NotPublished(r)
  BY <1>3 DEF NotPublished, EndReceive
<1>4. CASE RecvTimeout(r)
  BY <1>4 DEF RecvTimeout, EndReceive
<1>5. CASE BatchRead(r)
  BY <1>5 DEF BatchRead
<1>6. CASE Read(r)
  BY <1>6 DEF Read, EndReceive
<1> QED
  BY <1>1, <1>2, <1>3, <1>4, <1>5, <1>6 DEF QuietStep

\* A step of the receivers is quiet, or one of the six that move a counter.
LEMMA ReceiverCases ==
  ReceiverNext <=>
    \/ \E r \in Receivers : QuietStep(r) \/ MoveTo(r) \/ MoveFrom(r)
                              \/ CloneCount(r) \/ Drop(r) \/ DropCell(r)
    \/ \E r, q \in Receivers : Clone(r, q)
  BY DEF ReceiverNext, RecvStep, QuietStep

\* A clone and its original stay paired until the clone is counted.
LEMMA ReceiverClone ==
  TypeOK /\ CloneInv /\ ReceiverNext => CloneInv'
<1> SUFFICES ASSUME TypeOK, CloneInv, ReceiverNext PROVE CloneInv'
  OBVIOUS
<1>0. rpc \in [Receivers -> RecvPCs]
  BY DEF TypeOK
<1>a. ASSUME NEW r \in Receivers, NEW to, GotoR(r, to),
             rpc[r] \notin {"cloning", "cloned"}, to # "cloned",
             UNCHANGED clone_of
      PROVE  CloneInv'
  BY <1>0, <1>a DEF GotoR, CloneInv
<1>1. ASSUME NEW r \in Receivers, QuietStep(r) PROVE CloneInv'
  <2>1. PICK to \in QuietPCs : GotoR(r, to)
    BY <1>1, QuietStepForm
  <2>2. rpc[r] \in QuietPCs /\ UNCHANGED clone_of
    BY <1>1, QuietStepForm
  <2> QED
    BY <1>a, <2>1, <2>2 DEF QuietPCs
<1>2. ASSUME NEW r \in Receivers, MoveTo(r) PROVE CloneInv'
  BY <1>2, <1>a DEF MoveTo
<1>3. ASSUME NEW r \in Receivers, MoveFrom(r) PROVE CloneInv'
  BY <1>3, <1>a DEF MoveFrom, EndReceive
<1>4. ASSUME NEW r \in Receivers, Drop(r) PROVE CloneInv'
  BY <1>4, <1>a DEF Drop
<1>5. ASSUME NEW r \in Receivers, DropCell(r) PROVE CloneInv'
  BY <1>5, <1>a DEF DropCell
<1>6. ASSUME NEW r \in Receivers, CloneCount(r) PROVE CloneInv'
  BY <1>6 DEF CloneCount, TypeOK, CloneInv
<1>7. ASSUME NEW r \in Receivers, NEW q \in Receivers, Clone(r, q)
      PROVE  CloneInv'
  BY <1>7 DEF Clone, TypeOK, CloneInv
<1> QED
  BY <1>1, <1>2, <1>3, <1>4, <1>5, <1>6, <1>7, ReceiverCases

\* The fields of a handle move together.
LEMMA ReceiverHandle ==
  TypeOK /\ HandleInv /\ CloneInv /\ ReceiverNext => HandleInv'
<1> SUFFICES ASSUME TypeOK, HandleInv, CloneInv, ReceiverNext
             PROVE  HandleInv'
  OBVIOUS
<1> DEFINE T == /\ cursor \in [Receivers -> Nat \ {0}]
                /\ previous_cell_index \in [Receivers -> Cells]
                /\ rpc \in [Receivers -> RecvPCs]
                /\ rop \in [Receivers -> AllRecvOps \cup {"none"}]
                /\ num_read \in [Receivers -> 0 .. N-1]
                /\ max_results \in [Receivers -> 1 .. N-1]
<1>0. T /\ N \in Nat /\ N >= 2
  BY RingAssumption DEF TypeOK
<1> USE <1>0 DEF HandleInv, GotoR, EndReceive
<1>1. ASSUME NEW r \in Receivers, RecvCall(r) PROVE HandleInv'
  <2>1. PICK o \in RecvOps :
          /\ rop' = [rop EXCEPT ![r] = o]
          /\ IF o = "try_recv_batch"
               THEN \E m \in BatchSizes \ {0} :
                      max_results' = [max_results EXCEPT ![r] = Clamp(m)]
               ELSE UNCHANGED max_results
    BY <1>1 DEF RecvCall
  <2>2. /\ rpc[r] = "ready" /\ rpc' = [rpc EXCEPT ![r] = "check"]
        /\ UNCHANGED <<cursor, previous_cell_index, num_read>>
    BY <1>1 DEF RecvCall
  <2>3. CASE o = "try_recv_batch"
    <3>1. PICK m \in BatchSizes \ {0} :
            max_results' = [max_results EXCEPT ![r] = Clamp(m)]
      BY <2>1, <2>3
    <3>2. Clamp(m) \in 1 .. N-1
      BY OpsAssumption DEF Clamp
    <3> QED
      BY <2>1, <2>2, <2>3, <3>1, <3>2
  <2>4. CASE o # "try_recv_batch"
    BY <2>1, <2>2, <2>4
  <2> QED
    BY <2>3, <2>4
<1>2. ASSUME NEW r \in Receivers, Accept(r) PROVE HandleInv'
  <2>1. CASE rop[r] = "try_recv_batch"
    BY <1>2, <2>1 DEF Accept
  <2>2. CASE rop[r] # "try_recv_batch"
    BY <1>2, <2>2 DEF Accept
  <2> QED
    BY <2>1, <2>2
<1>3. ASSUME NEW r \in Receivers, NotPublished(r) PROVE HandleInv'
  <2>0. /\ rpc[r] = "check"
        /\ UNCHANGED <<cursor, previous_cell_index, num_read>>
    BY <1>3 DEF NotPublished
  <2>1. CASE /\ rop[r] \in {"recv", "try_recv_until", "poll_next"}
             /\ GotoR(r, "await")
             /\ UNCHANGED <<rop, max_results>>
    BY <2>0, <2>1
  <2>2. CASE /\ rop[r] = "try_recv_batch" /\ num_read[r] > 0
             /\ GotoR(r, "move_to")
             /\ UNCHANGED <<rop, max_results>>
    BY <2>0, <2>2
  <2>3. CASE /\ \/ rop[r] = "try_recv"
                \/ rop[r] = "try_recv_batch" /\ num_read[r] = 0
             /\ EndReceive(r)
    BY <2>0, <2>3
  <2> QED
    BY <1>3, <2>1, <2>2, <2>3 DEF NotPublished
<1>4. ASSUME NEW r \in Receivers, RecvTimeout(r) PROVE HandleInv'
  BY <1>4 DEF RecvTimeout
<1>5. ASSUME NEW r \in Receivers, BatchRead(r) PROVE HandleInv'
  <2>1. /\ rpc[r] = "batch_read" /\ num_read[r] \in 0 .. N-1
        /\ num_read' = [num_read EXCEPT ![r] = num_read[r] + 1]
        /\ UNCHANGED <<cursor, previous_cell_index, rop, max_results>>
    BY <1>5 DEF BatchRead
  <2>2. CASE num_read[r] + 1 < max_results[r]
    BY <1>5, <2>1, <2>2 DEF BatchRead
  <2>3. CASE ~(num_read[r] + 1 < max_results[r])
    BY <1>5, <2>1, <2>3 DEF BatchRead
  <2> QED
    BY <2>2, <2>3
<1>6. ASSUME NEW r \in Receivers, MoveTo(r) PROVE HandleInv'
  BY <1>6 DEF MoveTo
<1>7. ASSUME NEW r \in Receivers, MoveFrom(r) PROVE HandleInv'
  <2>1. /\ rpc[r] = "move_from"
        /\ previous_cell_index' =
             [previous_cell_index EXCEPT ![r] = fast_mod(LastId(r))]
        /\ cursor' = [cursor EXCEPT ![r] = NextId(r)]
        /\ num_read' = [num_read EXCEPT ![r] = 0]
        /\ \A q \in Receivers \ {r} : /\ rpc'[q] = rpc[q] /\ rop'[q] = rop[q]
                                      /\ max_results'[q] = max_results[q]
        /\ rpc'[r] \in {"ready", "read"}
    BY <1>7 DEF MoveFrom
  <2>2. NextId(r) - 1 = LastId(r) /\ NextId(r) > 1
    BY <2>1 DEF NextId, LastId
  <2> QED
    BY <2>1, <2>2
<1>8. ASSUME NEW r \in Receivers, Read(r) PROVE HandleInv'
  BY <1>8 DEF Read
<1>9. ASSUME NEW r \in Receivers, Drop(r) PROVE HandleInv'
  BY <1>9 DEF Drop
<1>10. ASSUME NEW r \in Receivers, DropCell(r) PROVE HandleInv'
  <2>1. fast_mod(0) = 0
    BY DEF fast_mod
  <2> QED
    BY <1>10, <2>1 DEF DropCell
<1>11. ASSUME NEW q \in Receivers, CloneCount(q) PROVE HandleInv'
  <2>1. clone_of[q] \in Receivers /\ rpc[clone_of[q]] = "cloning"
    BY <1>11 DEF CloneCount, CloneInv
  <2> QED
    BY <1>11, <2>1 DEF CloneCount
<1>12. ASSUME NEW r \in Receivers, NEW q \in Receivers, Clone(r, q)
       PROVE  HandleInv'
  BY <1>12 DEF Clone
<1> QED
  BY <1>1, <1>2, <1>3, <1>4, <1>5, <1>6, <1>7, <1>8, <1>9, <1>10, <1>11,
     <1>12 DEF ReceiverNext, RecvStep

\* A handle that a step does not touch holds the same cells after it.
SameHandle(q) == /\ rpc'[q] = rpc[q] /\ cursor'[q] = cursor[q]
                 /\ previous_cell_index'[q] = previous_cell_index[q]
                 /\ num_read'[q] = num_read[q]

\* Which cells a handle holds depends on its own fields alone.
LEMMA HoldsFrame ==
  ASSUME NEW q \in Receivers, SameHandle(q), NEW c
  PROVE  Holds(q, c)' <=> Holds(q, c)
  BY DEF SameHandle, Holds, Holding, LastId

\* What a step does to the set of holders of each cell.
LEMMA HoldersStep ==
  ASSUME NEW r \in Receivers, NEW c \in Cells,
         \A q \in Receivers \ {r} : Holds(q, c)' <=> Holds(q, c)
  PROVE  /\ (Holds(r, c)' <=> Holds(r, c)) => Holders(c)' = Holders(c)
         /\ Holds(r, c)' /\ ~Holds(r, c) =>
              /\ r \in Receivers \ Holders(c)
              /\ Holders(c)' = Holders(c) \cup {r}
         /\ ~Holds(r, c)' /\ Holds(r, c) =>
              /\ r \in Holders(c)
              /\ Holders(c)' = Holders(c) \ {r}
  BY DEF Holders

\* Only receivers hold cells.
LEMMA HoldersAreReceivers == \A c : Holders(c) \in SUBSET Receivers
  BY DEF Holders

\* Each cell's counter follows the set of its holders.
LEMMA ReceiverReadCounters ==
  ASSUME TypeOK, HandleInv, CloneInv, CountersExact, ReceiverNext,
         NEW c \in Cells
  PROVE  /\ read_counter'[c] = Cardinality(Holders(c)')
         /\ read_counter' \in [Cells -> Int]
<1> DEFINE T == /\ cursor \in [Receivers -> Nat \ {0}]
                /\ previous_cell_index \in [Receivers -> Cells]
                /\ rpc \in [Receivers -> RecvPCs]
                /\ num_read \in [Receivers -> 0 .. N-1]
                /\ read_counter \in [Cells -> Nat]
<1>0. T /\ N \in Nat /\ N >= 2
  BY RingAssumption DEF TypeOK
<1>a. /\ read_counter[c] = Cardinality(Holders(c))
      /\ Cardinality(Holders(c)) \in Nat
      /\ \A r \in Receivers \ Holders(c) :
           Cardinality(Holders(c) \cup {r}) = Cardinality(Holders(c)) + 1
      /\ \A r \in Holders(c) :
           Cardinality(Holders(c) \ {r}) = Cardinality(Holders(c)) - 1
  BY CountHandles, HoldersAreReceivers DEF CountersExact
<1> HIDE DEF T
<1>1. ASSUME NEW r \in Receivers, QuietStep(r)
      PROVE  /\ read_counter'[c] = Cardinality(Holders(c)')
             /\ read_counter' \in [Cells -> Int]
  <2>1. /\ UNCHANGED <<read_counter, cursor, previous_cell_index>>
        /\ rpc[r] \in QuietPCs
        /\ \E to \in QuietPCs : GotoR(r, to)
        /\ \A q \in Receivers \ {r} : num_read'[q] = num_read[q]
    BY <1>1, QuietStepForm
  <2>2. \A q \in Receivers \ {r} : SameHandle(q)
    BY <1>0, <2>1 DEF SameHandle, GotoR, T
  <2>3. rpc'[r] \in QuietPCs
    BY <1>0, <2>1 DEF GotoR, T
  <2>4. Holds(r, c)' <=> Holds(r, c)
    BY <2>1, <2>3 DEF Holds, Holding, QuietPCs
  <2>5. Holders(c)' = Holders(c)
    BY <2>2, <2>4, HoldsFrame, HoldersStep
  <2> QED
    BY <1>0, <1>a, <2>1, <2>5 DEF T
<1>2. ASSUME NEW r \in Receivers, MoveTo(r)
      PROVE  /\ read_counter'[c] = Cardinality(Holders(c)')
             /\ read_counter' \in [Cells -> Int]
  <2>1. /\ rpc[r] = "move_to" /\ rpc' = [rpc EXCEPT ![r] = "move_from"]
        /\ read_counter' =
             [read_counter EXCEPT ![fast_mod(LastId(r))] =
                read_counter[fast_mod(LastId(r))] + 1]
        /\ UNCHANGED <<cursor, previous_cell_index, num_read>>
    BY <1>2 DEF MoveTo, GotoR
  <2>2. \A q \in Receivers \ {r} : SameHandle(q)
    BY <1>0, <2>1 DEF SameHandle, T
  <2>3. /\ num_read[r] \in 1 .. N-1
        /\ previous_cell_index[r] = fast_mod(cursor[r] - 1)
        /\ cursor[r] \in Nat
    BY <1>0, <2>1 DEF HandleInv, T
  <2>4. /\ LastId(r) \in Int /\ cursor[r] - 1 \in Int
        /\ cursor[r] - 1 < LastId(r) /\ LastId(r) < cursor[r] - 1 + N
    BY <1>0, <2>3 DEF LastId
  <2>5. fast_mod(LastId(r)) # previous_cell_index[r]
    BY <2>3, <2>4, IndexDistinct
  <2>6. fast_mod(LastId(r)) \in Cells
    BY <2>4, IndexType
  <2>7. LastId(r)' = LastId(r)
    BY <2>1 DEF LastId
  <2>8. /\ Holds(r, c) <=> c = previous_cell_index[r]
        /\ Holds(r, c)' <=> \/ c = previous_cell_index[r]
                            \/ c = fast_mod(LastId(r))
    <3>1. rpc'[r] = "move_from"
      BY <1>0, <2>1 DEF T
    <3> QED
      BY <2>1, <2>7, <3>1 DEF Holds, Holding
  <2>9. CASE c = fast_mod(LastId(r))
    <3>1. Holders(c)' = Holders(c) \cup {r} /\ r \in Receivers \ Holders(c)
      BY <2>2, <2>5, <2>8, <2>9, HoldsFrame, HoldersStep
    <3> QED
      BY <1>0, <1>a, <2>1, <2>6, <2>9, <3>1 DEF T
  <2>10. CASE c # fast_mod(LastId(r))
    <3>1. Holders(c)' = Holders(c)
      BY <2>2, <2>8, <2>10, HoldsFrame, HoldersStep
    <3> QED
      BY <1>0, <1>a, <2>1, <2>6, <2>10, <3>1 DEF T
  <2> QED
    BY <2>9, <2>10
<1>3. ASSUME NEW r \in Receivers, MoveFrom(r)
      PROVE  /\ read_counter'[c] = Cardinality(Holders(c)')
             /\ read_counter' \in [Cells -> Int]
  <2>1. /\ rpc[r] = "move_from"
        /\ read_counter' =
             [read_counter EXCEPT ![previous_cell_index[r]] =
                read_counter[previous_cell_index[r]] - 1]
        /\ previous_cell_index' =
             [previous_cell_index EXCEPT ![r] = fast_mod(LastId(r))]
        /\ cursor' = [cursor EXCEPT ![r] = NextId(r)]
        /\ num_read' = [num_read EXCEPT ![r] = 0]
    BY <1>3 DEF MoveFrom
  <2>2. /\ rpc'[r] \in {"ready", "read"}
        /\ \A q \in Receivers \ {r} : rpc'[q] = rpc[q]
    BY <1>0, <1>3 DEF MoveFrom, GotoR, EndReceive, T
  <2>3. \A q \in Receivers \ {r} : SameHandle(q)
    BY <1>0, <2>1, <2>2 DEF SameHandle, T
  <2>4. /\ num_read[r] \in 1 .. N-1
        /\ previous_cell_index[r] = fast_mod(cursor[r] - 1)
        /\ cursor[r] \in Nat
    BY <1>0, <2>1 DEF HandleInv, T
  <2>5. /\ LastId(r) \in Int /\ cursor[r] - 1 \in Int
        /\ cursor[r] - 1 < LastId(r) /\ LastId(r) < cursor[r] - 1 + N
    BY <1>0, <2>4 DEF LastId
  <2>6. fast_mod(LastId(r)) # previous_cell_index[r]
    BY <2>4, <2>5, IndexDistinct
  <2>7. previous_cell_index[r] \in Cells
    BY <1>0 DEF T
  <2>8. /\ Holds(r, c) <=> \/ c = previous_cell_index[r]
                           \/ c = fast_mod(LastId(r))
        /\ Holds(r, c)' <=> c = fast_mod(LastId(r))
    BY <1>0, <2>1, <2>2 DEF Holds, Holding, T
  <2>9. CASE c = previous_cell_index[r]
    <3>1. Holders(c)' = Holders(c) \ {r} /\ r \in Holders(c)
      BY <2>3, <2>6, <2>8, <2>9, HoldsFrame, HoldersStep
    <3> QED
      BY <1>0, <1>a, <2>1, <2>7, <2>9, <3>1 DEF T
  <2>10. CASE c # previous_cell_index[r]
    <3>1. Holders(c)' = Holders(c)
      BY <2>3, <2>8, <2>10, HoldsFrame, HoldersStep
    <3> QED
      BY <1>0, <1>a, <2>1, <2>7, <2>10, <3>1 DEF T
  <2> QED
    BY <2>9, <2>10
<1>4. ASSUME NEW q \in Receivers, CloneCount(q)
      PROVE  /\ read_counter'[c] = Cardinality(Holders(c)')
             /\ read_counter' \in [Cells -> Int]
  <2>1. clone_of[q] \in Receivers /\ rpc[clone_of[q]] = "cloning"
    BY <1>4 DEF CloneCount, CloneInv
  <2>2. /\ rpc[q] = "cloned"
        /\ rpc' = [rpc EXCEPT ![q] = "ready", ![clone_of[q]] = "ready"]
        /\ UNCHANGED <<read_counter, cursor, previous_cell_index, num_read>>
    BY <1>4 DEF CloneCount, cells
  <2>3. \A p \in Receivers : Holds(p, c)' <=> Holds(p, c)
    BY <1>0, <2>1, <2>2 DEF Holds, Holding, LastId, T
  <2>4. Holders(c)' = Holders(c)
    BY <2>3 DEF Holders
  <2> QED
    BY <1>0, <1>a, <2>2, <2>4 DEF T
<1>5. ASSUME NEW r \in Receivers, Drop(r)
      PROVE  /\ read_counter'[c] = Cardinality(Holders(c)')
             /\ read_counter' \in [Cells -> Int]
  <2>1. /\ rpc[r] = "ready" /\ rpc' = [rpc EXCEPT ![r] = "dropping"]
        /\ UNCHANGED <<read_counter, cursor, previous_cell_index, num_read>>
    BY <1>5 DEF Drop, GotoR, cells
  <2>2. \A p \in Receivers : Holds(p, c)' <=> Holds(p, c)
    BY <1>0, <2>1 DEF Holds, Holding, LastId, T
  <2>3. Holders(c)' = Holders(c)
    BY <2>2 DEF Holders
  <2> QED
    BY <1>0, <1>a, <2>1, <2>3 DEF T
<1>6. ASSUME NEW r \in Receivers, DropCell(r)
      PROVE  /\ read_counter'[c] = Cardinality(Holders(c)')
             /\ read_counter' \in [Cells -> Int]
  <2>1. /\ rpc[r] = "dropping" /\ rpc' = [rpc EXCEPT ![r] = "absent"]
        /\ read_counter' =
             [read_counter EXCEPT ![previous_cell_index[r]] =
                read_counter[previous_cell_index[r]] - 1]
        /\ previous_cell_index' = [previous_cell_index EXCEPT ![r] = 0]
        /\ cursor' = [cursor EXCEPT ![r] = 1]
        /\ UNCHANGED num_read
    BY <1>6 DEF DropCell, GotoR
  <2>2. \A q \in Receivers \ {r} : SameHandle(q)
    BY <1>0, <2>1 DEF SameHandle, T
  <2>3. /\ Holds(r, c) <=> c = previous_cell_index[r]
        /\ ~Holds(r, c)'
    BY <1>0, <2>1 DEF Holds, Holding, T
  <2>4. previous_cell_index[r] \in Cells
    BY <1>0 DEF T
  <2>5. CASE c = previous_cell_index[r]
    <3>1. Holders(c)' = Holders(c) \ {r} /\ r \in Holders(c)
      BY <2>2, <2>3, <2>5, HoldsFrame, HoldersStep
    <3> QED
      BY <1>0, <1>a, <2>1, <2>4, <2>5, <3>1 DEF T
  <2>6. CASE c # previous_cell_index[r]
    <3>1. Holders(c)' = Holders(c)
      BY <2>2, <2>3, <2>6, HoldsFrame, HoldersStep
    <3> QED
      BY <1>0, <1>a, <2>1, <2>4, <2>6, <3>1 DEF T
  <2> QED
    BY <2>5, <2>6
<1>7. ASSUME NEW r \in Receivers, NEW q \in Receivers, Clone(r, q)
      PROVE  /\ read_counter'[c] = Cardinality(Holders(c)')
             /\ read_counter' \in [Cells -> Int]
  <2>1. /\ rpc[r] = "ready" /\ rpc[q] = "absent"
        /\ rpc' = [rpc EXCEPT ![r] = "cloning", ![q] = "cloned"]
        /\ read_counter' =
             [read_counter EXCEPT ![previous_cell_index[r]] =
                read_counter[previous_cell_index[r]] + 1]
        /\ previous_cell_index' =
             [previous_cell_index EXCEPT ![q] = previous_cell_index[r]]
        /\ cursor' = [cursor EXCEPT ![q] = cursor[r]]
        /\ UNCHANGED num_read
    BY <1>7 DEF Clone
  <2>2. \A p \in Receivers \ {q} : Holds(p, c)' <=> Holds(p, c)
    BY <1>0, <2>1 DEF Holds, Holding, LastId, T
  <2>3. /\ ~Holds(q, c)
        /\ Holds(q, c)' <=> c = previous_cell_index[r]
    BY <1>0, <2>1 DEF Holds, Holding, T
  <2>4. previous_cell_index[r] \in Cells
    BY <1>0 DEF T
  <2>5. CASE c = previous_cell_index[r]
    <3>1. Holders(c)' = Holders(c) \cup {q} /\ q \in Receivers \ Holders(c)
      BY <2>2, <2>3, <2>5, HoldersStep
    <3> QED
      BY <1>0, <1>a, <2>1, <2>4, <2>5, <3>1 DEF T
  <2>6. CASE c # previous_cell_index[r]
    <3>1. Holders(c)' = Holders(c)
      BY <2>2, <2>3, <2>6, HoldersStep
    <3> QED
      BY <1>0, <1>a, <2>1, <2>4, <2>6, <3>1 DEF T
  <2> QED
    BY <2>5, <2>6
<1> QED
  BY <1>1, <1>2, <1>3, <1>4, <1>5, <1>6, <1>7, ReceiverCases

\* num_receivers follows the set of counted handles, which loses its last
\* member for good.
LEMMA ReceiverCount ==
  ASSUME TypeOK, CloneInv, CountersExact, ReceiverNext
  PROVE  /\ num_receivers' = Cardinality(LiveReceivers')
         /\ LiveReceivers = {} => LiveReceivers' = {}
<1>0. rpc \in [Receivers -> RecvPCs]
  BY DEF TypeOK
<1>1. LiveReceivers \in SUBSET Receivers
  BY DEF LiveReceivers
<1>2. /\ num_receivers = Cardinality(LiveReceivers)
      /\ \A r \in Receivers \ LiveReceivers :
           Cardinality(LiveReceivers \cup {r}) = Cardinality(LiveReceivers) + 1
      /\ \A r \in LiveReceivers :
           Cardinality(LiveReceivers \ {r}) = Cardinality(LiveReceivers) - 1
  BY <1>1, CountHandles DEF CountersExact
<1>3. ASSUME UNCHANGED num_receivers, LiveReceivers' = LiveReceivers
      PROVE  /\ num_receivers' = Cardinality(LiveReceivers')
             /\ LiveReceivers = {} => LiveReceivers' = {}
  BY <1>2, <1>3
<1>4. ASSUME NEW r \in Receivers, QuietStep(r)
      PROVE  UNCHANGED num_receivers /\ LiveReceivers' = LiveReceivers
  <2>1. PICK to \in QuietPCs : GotoR(r, to)
    BY <1>4, QuietStepForm
  <2>2. rpc[r] \in QuietPCs /\ UNCHANGED num_receivers
    BY <1>4, QuietStepForm
  <2> QED
    BY <1>0, <2>1, <2>2 DEF QuietPCs, GotoR, LiveReceivers, Live
<1>5. ASSUME NEW r \in Receivers, MoveTo(r)
      PROVE  UNCHANGED num_receivers /\ LiveReceivers' = LiveReceivers
  BY <1>0, <1>5 DEF MoveTo, GotoR, LiveReceivers, Live
<1>6. ASSUME NEW r \in Receivers, MoveFrom(r)
      PROVE  UNCHANGED num_receivers /\ LiveReceivers' = LiveReceivers
  BY <1>0, <1>6 DEF MoveFrom, EndReceive, GotoR, LiveReceivers, Live
<1>7. ASSUME NEW r \in Receivers, DropCell(r)
      PROVE  UNCHANGED num_receivers /\ LiveReceivers' = LiveReceivers
  BY <1>0, <1>7 DEF DropCell, GotoR, LiveReceivers, Live
<1>8. ASSUME NEW r \in Receivers, NEW q \in Receivers, Clone(r, q)
      PROVE  UNCHANGED num_receivers /\ LiveReceivers' = LiveReceivers
  BY <1>0, <1>8 DEF Clone, LiveReceivers, Live
<1>9. ASSUME NEW r \in Receivers, Drop(r)
      PROVE  /\ num_receivers' = Cardinality(LiveReceivers')
             /\ LiveReceivers = {} => LiveReceivers' = {}
  <2>1. r \in LiveReceivers /\ LiveReceivers' = LiveReceivers \ {r}
    BY <1>0, <1>9 DEF Drop, GotoR, LiveReceivers, Live
  <2>2. num_receivers' = num_receivers - 1
    BY <1>9 DEF Drop
  <2> QED
    BY <1>2, <2>1, <2>2
<1>10. ASSUME NEW q \in Receivers, CloneCount(q)
       PROVE  /\ num_receivers' = Cardinality(LiveReceivers')
              /\ LiveReceivers = {} => LiveReceivers' = {}
  <2>1. /\ rpc[q] = "cloned"
        /\ clone_of[q] \in Receivers /\ rpc[clone_of[q]] = "cloning"
    BY <1>10 DEF CloneCount, CloneInv
  <2>2. rpc' = [rpc EXCEPT ![q] = "ready", ![clone_of[q]] = "ready"]
    BY <1>10 DEF CloneCount
  <2>3. /\ q \in Receivers \ LiveReceivers
        /\ clone_of[q] \in LiveReceivers
        /\ LiveReceivers' = LiveReceivers \cup {q}
    BY <1>0, <2>1, <2>2 DEF LiveReceivers, Live
  <2>4. num_receivers' = num_receivers + 1
    BY <1>10 DEF CloneCount
  <2> QED
    BY <1>2, <2>3, <2>4
<1> QED
  BY <1>3, <1>4, <1>5, <1>6, <1>7, <1>8, <1>9, <1>10, ReceiverCases

\* Both kinds of counter stay exact.
LEMMA ReceiverCounters ==
  TypeOK /\ HandleInv /\ CloneInv /\ CountersExact /\ ReceiverNext
    => CountersExact'
<1> SUFFICES ASSUME TypeOK, HandleInv, CloneInv, CountersExact, ReceiverNext
             PROVE  CountersExact'
  OBVIOUS
<1>1. \A c \in Cells : read_counter'[c] = Cardinality(Holders(c)')
  BY ReceiverReadCounters
<1>2. num_receivers' = Cardinality(LiveReceivers')
  BY ReceiverCount
<1> QED
  BY <1>1, <1>2 DEF CountersExact

\* No counter underflows and no cursor leaves the ring.
LEMMA ReceiverType ==
  TypeOK /\ HandleInv /\ CloneInv /\ CountersExact /\ ReceiverNext => TypeOK'
<1> SUFFICES ASSUME TypeOK, HandleInv, CloneInv, CountersExact, ReceiverNext
             PROVE  TypeOK'
  OBVIOUS
<1>1. UNCHANGED <<write_head, value, current_id, pc, op, id, msg, log>>
  BY ReceiverFrame DEF sendvars
<1>2. num_receivers' \in Nat
  <2>1. LiveReceivers' \in SUBSET Receivers
    BY DEF LiveReceivers
  <2> QED
    BY <2>1, CountHandles, ReceiverCount
<1>3. read_counter' \in [Cells -> Nat]
  <2>1. 0 \in Cells
    BY RingAssumption DEF Cells
  <2>2. read_counter' \in [Cells -> Int]
    BY <2>1, ReceiverReadCounters
  <2>3. ASSUME NEW c \in Cells PROVE read_counter'[c] \in Nat
    <3>1. Holders(c)' \in SUBSET Receivers
      BY DEF Holders
    <3> QED
      BY <3>1, CountHandles, ReceiverReadCounters
  <2> QED
    BY <2>2, <2>3
<1> DEFINE T == /\ cursor \in [Receivers -> Nat \ {0}]
                /\ previous_cell_index \in [Receivers -> Cells]
                /\ rpc \in [Receivers -> RecvPCs]
                /\ rop \in [Receivers -> AllRecvOps \cup {"none"}]
                /\ num_read \in [Receivers -> 0 .. N-1]
                /\ max_results \in [Receivers -> 1 .. N-1]
                /\ clone_of \in [Receivers -> Receivers \cup {NULL}]
                /\ out \in [Receivers -> Msgs \cup {NULL}]
<1>4. T /\ N \in Nat /\ N >= 2
  BY RingAssumption DEF TypeOK
<1>5. T'
  <2> USE <1>4 DEF GotoR, EndReceive, RecvPCs
  <2>1. ASSUME NEW r \in Receivers, RecvCall(r) PROVE T'
    <3>1. PICK o \in RecvOps :
            /\ rop' = [rop EXCEPT ![r] = o]
            /\ IF o = "try_recv_batch"
                 THEN \E m \in BatchSizes \ {0} :
                        max_results' = [max_results EXCEPT ![r] = Clamp(m)]
                 ELSE UNCHANGED max_results
      BY <2>1 DEF RecvCall
    <3>2. o \in AllRecvOps
      BY OpsAssumption
    <3>3. \A m \in BatchSizes \ {0} : Clamp(m) \in 1 .. N-1
      BY OpsAssumption DEF Clamp
    <3>4. max_results' \in [Receivers -> 1 .. N-1]
      BY <3>1, <3>3
    <3> QED
      BY <2>1, <3>1, <3>2, <3>4 DEF RecvCall
  <2>2. ASSUME NEW r \in Receivers, Accept(r) PROVE T'
    BY <2>2 DEF Accept
  <2>3. ASSUME NEW r \in Receivers, NotPublished(r) PROVE T'
    BY <2>3 DEF NotPublished
  <2>4. ASSUME NEW r \in Receivers, RecvTimeout(r) PROVE T'
    BY <2>4 DEF RecvTimeout
  <2>5. ASSUME NEW r \in Receivers, BatchRead(r) PROVE T'
    <3>1. num_read[r] + 1 \in 0 .. N-1
      BY <2>5 DEF BatchRead, HandleInv
    <3>2. NextId(r) \in Int
      BY DEF NextId
    <3>3. value[fast_mod(NextId(r))] \in Msgs \cup {NULL}
      BY <3>2, IndexType DEF TypeOK
    <3> QED
      BY <2>5, <3>1, <3>3 DEF BatchRead
  <2>6. ASSUME NEW r \in Receivers, MoveTo(r) PROVE T'
    BY <2>6 DEF MoveTo
  <2>7. ASSUME NEW r \in Receivers, MoveFrom(r) PROVE T'
    <3>1. NextId(r) \in Nat \ {0} /\ LastId(r) \in Int
      BY DEF NextId, LastId
    <3>2. fast_mod(LastId(r)) \in Cells
      BY <3>1, IndexType
    <3> QED
      BY <2>7, <3>1, <3>2 DEF MoveFrom
  <2>8. ASSUME NEW r \in Receivers, Read(r) PROVE T'
    <3>1. value[previous_cell_index[r]] \in Msgs \cup {NULL}
      BY DEF TypeOK
    <3> QED
      BY <2>8, <3>1 DEF Read
  <2>9. ASSUME NEW r \in Receivers, Drop(r) PROVE T'
    BY <2>9 DEF Drop
  <2>10. ASSUME NEW r \in Receivers, DropCell(r) PROVE T'
    <3>1. 0 \in Cells
      BY DEF Cells
    <3> QED
      BY <2>10, <3>1 DEF DropCell
  <2>11. ASSUME NEW q \in Receivers, CloneCount(q) PROVE T'
    BY <2>11 DEF CloneCount
  <2>12. ASSUME NEW r \in Receivers, NEW q \in Receivers, Clone(r, q) PROVE T'
    BY <2>12 DEF Clone
  <2> QED
    BY <2>1, <2>2, <2>3, <2>4, <2>5, <2>6, <2>7, <2>8, <2>9, <2>10, <2>11,
       <2>12 DEF ReceiverNext, RecvStep
<1> QED
  BY <1>1, <1>2, <1>3, <1>5 DEF TypeOK

-----------------------------------------------------------------------------
(* The window: receivers and senders stay within a lap of each other.       *)

\* A handle's position does not depend on what the senders do.
LEMMA SenderHandles ==
  ASSUME SenderNext
  PROVE  \A r \in Receivers :
           /\ Holding(r)' <=> Holding(r)
           /\ cursor'[r] = cursor[r]
           /\ LastId(r)' = LastId(r)
           /\ NextId(r)' = NextId(r)
           /\ rpc'[r] = rpc[r]
  BY SenderFrame DEF recvvars, Holding, LastId, NextId

\* No claim leaves a receiver a whole lap behind.
LEMMA SenderWindow ==
  TypeOK /\ TokenUnique /\ WindowInv /\ ClearedInv /\ SenderNext => WindowInv'
<1> SUFFICES ASSUME TypeOK, TokenUnique, WindowInv, ClearedInv, SenderNext,
                    NEW s \in Senders, SendCall(s) \/ SendStep(s),
                    NEW r \in Receivers, Holding(r)'
             PROVE  /\ cursor'[r] - 1 > Len(log') - N
                    /\ LastId(r)' <= Len(log')
                    /\ rpc'[r] = "batch_read" => NextId(r)' <= Len(log')
                    /\ \A t \in Senders : InFlight(t)' =>
                         /\ id'[t] > LastId(r)'
                         /\ rpc'[r] = "batch_read" => id'[t] > NextId(r)'
  BY DEF SenderNext, WindowInv
<1>1. /\ Holding(r) /\ cursor'[r] = cursor[r] /\ LastId(r)' = LastId(r)
      /\ NextId(r)' = NextId(r) /\ rpc'[r] = rpc[r]
  BY SenderHandles
<1>2. /\ cursor[r] - 1 > Len(log) - N
      /\ LastId(r) <= Len(log)
      /\ rpc[r] = "batch_read" => NextId(r) <= Len(log)
      /\ \A t \in Senders : InFlight(t) =>
           /\ id[t] > LastId(r)
           /\ rpc[r] = "batch_read" => id[t] > NextId(r)
  BY <1>1 DEF WindowInv
<1>3. CASE OutsideStep(s)
  BY <1>1, <1>2, <1>3, OutsideStepForm DEF InFlight
<1>4. CASE Restore(s)
  <2>1. /\ id[s] = Len(log) + 1 /\ Len(log') = Len(log) + 1
        /\ id' = id /\ pc' = [pc EXCEPT ![s] = "write"]
    BY <1>4, RestoreForm
  <2>2. cursor[r] - 1 > Len(log) + 1 - N
    BY <1>1, <1>4 DEF ClearedInv, Restore
  <2>3. /\ Len(log) \in Nat /\ cursor[r] \in Int /\ N \in Int
        /\ LastId(r) \in Int /\ NextId(r) \in Int
    BY RingAssumption DEF TypeOK, LastId, NextId
  <2>4. \A t \in Senders \ {s} : InFlight(t)' => InFlight(t)
    BY <2>1 DEF InFlight, TypeOK
  <2> QED
    BY <1>1, <1>2, <2>1, <2>2, <2>3, <2>4
<1>5. CASE Write(s) \/ Publish(s)
  <2>1. UNCHANGED log /\ \A t \in Senders : InFlight(t)' =>
                           InFlight(t) /\ id'[t] = id[t]
    BY <1>5 DEF Write, Publish, Goto, Return, InFlight, TypeOK
  <2> QED
    BY <1>1, <1>2, <2>1
<1> QED
  BY <1>3, <1>4, <1>5 DEF SendStep, OutsideStep, LocalStep

\* A receiver advances only over published ids, and no id in flight is one.
LEMMA ReceiverWindow ==
  TypeOK /\ HandleInv /\ CloneInv /\ ClaimInv /\ PublishedInv /\ WindowInv
    /\ ReceiverNext => WindowInv'
<1> SUFFICES ASSUME TypeOK, HandleInv, CloneInv, ClaimInv, PublishedInv,
                    WindowInv, ReceiverNext
             PROVE  WindowInv'
  OBVIOUS
<1> DEFINE T == /\ cursor \in [Receivers -> Nat \ {0}]
                /\ rpc \in [Receivers -> RecvPCs]
                /\ rop \in [Receivers -> AllRecvOps \cup {"none"}]
                /\ num_read \in [Receivers -> 0 .. N-1]
                /\ id \in [Senders -> Nat]
                /\ Len(log) \in Nat
           W(q, i, l, reading) ==
                /\ i - 1 > Len(log) - N
                /\ l <= Len(log)
                /\ reading => l + 1 <= Len(log)
                /\ \A s \in Senders : InFlight(s) =>
                     /\ id[s] > l
                     /\ reading => id[s] > l + 1
<1>0. T /\ N \in Nat /\ N >= 2
  BY RingAssumption DEF TypeOK
<1>1. /\ UNCHANGED <<log, id>>
      /\ \A s \in Senders : InFlight(s)' <=> InFlight(s)
  BY ReceiverFrame DEF sendvars, InFlight
<1>2. \A q \in Receivers : /\ LastId(q) \in Int
                           /\ NextId(q) = LastId(q) + 1
                           /\ cursor[q] \in Int
  BY <1>0 DEF LastId, NextId
<1>3. \A q \in Receivers : Holding(q) =>
        W(q, cursor[q], LastId(q), rpc[q] = "batch_read")
  BY <1>2 DEF WindowInv
<1>4. SUFFICES ASSUME NEW q \in Receivers, Holding(q)'
               PROVE  /\ NextId(q)' = LastId(q)' + 1
                      /\ W(q, cursor'[q], LastId(q)', rpc'[q] = "batch_read")
  BY <1>1 DEF WindowInv
<1> HIDE DEF T, W
<1>5. ASSUME SameHandle(q)
      PROVE  /\ NextId(q)' = LastId(q)' + 1
             /\ W(q, cursor'[q], LastId(q)', rpc'[q] = "batch_read")
  <2>1. /\ Holding(q) /\ cursor'[q] = cursor[q] /\ LastId(q)' = LastId(q)
        /\ NextId(q)' = NextId(q) /\ rpc'[q] = rpc[q]
    BY <1>4, <1>5 DEF SameHandle, Holding, LastId, NextId
  <2> QED
    BY <1>2, <1>3, <2>1
<1>6. ASSUME Holding(q), cursor'[q] = cursor[q], num_read'[q] = num_read[q],
             rpc'[q] # "batch_read"
      PROVE  /\ NextId(q)' = LastId(q)' + 1
             /\ W(q, cursor'[q], LastId(q)', rpc'[q] = "batch_read")
  <2>1. LastId(q)' = LastId(q) /\ NextId(q)' = NextId(q)
    BY <1>6 DEF LastId, NextId
  <2>2. W(q, cursor[q], LastId(q), FALSE)
    BY <1>3, <1>6 DEF W
  <2> QED
    BY <1>2, <1>6, <2>1, <2>2 DEF W
<1>7. ASSUME NEW r \in Receivers, RecvCall(r) \/ NotPublished(r)
                 \/ RecvTimeout(r) \/ Read(r)
      PROVE  /\ NextId(q)' = LastId(q)' + 1
             /\ W(q, cursor'[q], LastId(q)', rpc'[q] = "batch_read")
  <2>1. /\ UNCHANGED <<cursor, previous_cell_index, num_read>>
        /\ rpc[r] \notin {"absent", "batch_read"}
        /\ \E to \in {"check", "await", "move_to", "ready"} : GotoR(r, to)
    <3>1. CASE RecvCall(r)
      BY <3>1 DEF RecvCall
    <3>2. CASE NotPublished(r)
      BY <3>2 DEF NotPublished, EndReceive
    <3>3. CASE RecvTimeout(r)
      BY <3>3 DEF RecvTimeout, EndReceive
    <3>4. CASE Read(r)
      BY <3>4 DEF Read, EndReceive
    <3> QED
      BY <1>7, <3>1, <3>2, <3>3, <3>4
  <2>2. CASE q # r
    <3>1. SameHandle(q)
      BY <1>0, <2>1, <2>2 DEF SameHandle, GotoR, T
    <3> QED
      BY <1>5, <3>1
  <2>3. CASE q = r
    <3>1. Holding(q) /\ rpc'[q] # "batch_read"
      BY <1>0, <2>1, <2>3 DEF Holding, GotoR, T
    <3> QED
      BY <1>6, <2>1, <3>1
  <2> QED
    BY <2>2, <2>3
<1>8. ASSUME NEW r \in Receivers, Accept(r)
      PROVE  /\ NextId(q)' = LastId(q)' + 1
             /\ W(q, cursor'[q], LastId(q)', rpc'[q] = "batch_read")
  <2>1. CASE q # r
    <3>1. SameHandle(q)
      BY <1>0, <1>8, <2>1 DEF SameHandle, Accept, GotoR, T
    <3> QED
      BY <1>5, <3>1
  <2>2. CASE q = r
    <3>1. Holding(q) /\ rpc[q] # "batch_read"
      BY <1>8, <2>2 DEF Accept, Holding
    <3>2. W(q, cursor[q], LastId(q), FALSE)
      BY <1>3, <3>1 DEF W
    <3>3. NextId(q) <= Len(log) /\ fast_mod(NextId(q)) \in Cells
      BY <1>2, <1>8, <2>2, IndexType DEF Accept, Published, PublishedInv
    <3>4. \A s \in Senders : InFlight(s) => id[s] # NextId(q)
      BY <1>8, <2>2, <3>3 DEF Accept, Published, ClaimInv
    <3>5. \A s \in Senders : InFlight(s) => id[s] > LastId(q) + 1
      BY <1>0, <1>2, <3>2, <3>4 DEF W, T
    <3>6. CASE rop[r] = "try_recv_batch"
      <4>1. /\ UNCHANGED <<cursor, num_read>> /\ rpc'[q] = "batch_read"
        BY <1>0, <1>8, <2>2, <3>6 DEF Accept, GotoR, T
      <4>2. LastId(q)' = LastId(q) /\ NextId(q)' = NextId(q)
        BY <4>1 DEF LastId, NextId
      <4> QED
        BY <1>2, <3>2, <3>3, <3>5, <4>1, <4>2 DEF W
    <3>7. CASE rop[r] # "try_recv_batch"
      <4>1. /\ cursor' = cursor /\ num_read'[q] = 1 /\ rpc'[q] = "move_to"
        BY <1>0, <1>8, <2>2, <3>7 DEF Accept, GotoR, T
      <4>2. num_read[q] = 0
        BY <1>8, <2>2, <3>7 DEF Accept, HandleInv
      <4>3. LastId(q)' = LastId(q) + 1 /\ NextId(q)' = LastId(q)' + 1
        BY <1>0, <4>1, <4>2 DEF LastId, NextId, T
      <4> QED
        BY <1>2, <3>2, <3>3, <3>5, <4>1, <4>3 DEF W
    <3> QED
      BY <3>6, <3>7
  <2> QED
    BY <2>1, <2>2
<1>9. ASSUME NEW r \in Receivers, BatchRead(r)
      PROVE  /\ NextId(q)' = LastId(q)' + 1
             /\ W(q, cursor'[q], LastId(q)', rpc'[q] = "batch_read")
  <2>1. CASE q # r
    <3>1. SameHandle(q)
      BY <1>0, <1>9, <2>1 DEF SameHandle, BatchRead, GotoR, T
    <3> QED
      BY <1>5, <3>1
  <2>2. CASE q = r
    <3>1. Holding(q) /\ rpc[q] = "batch_read"
      BY <1>9, <2>2 DEF BatchRead, Holding
    <3>2. W(q, cursor[q], LastId(q), TRUE)
      BY <1>3, <3>1 DEF W
    <3>3. /\ cursor' = cursor /\ num_read'[q] = num_read[q] + 1
          /\ rpc'[q] # "batch_read"
      BY <1>0, <1>9, <2>2 DEF BatchRead, GotoR, T
    <3>4. LastId(q)' = LastId(q) + 1 /\ NextId(q)' = LastId(q)' + 1
      <4>1. num_read[q] \in Int /\ cursor[q] \in Int
        BY <1>0 DEF T
      <4> QED
        BY <3>3, <4>1 DEF LastId, NextId
    <3> QED
      BY <3>2, <3>3, <3>4 DEF W
  <2> QED
    BY <2>1, <2>2
<1>10. ASSUME NEW r \in Receivers, MoveTo(r) \/ Drop(r)
       PROVE  /\ NextId(q)' = LastId(q)' + 1
              /\ W(q, cursor'[q], LastId(q)', rpc'[q] = "batch_read")
  <2>1. /\ UNCHANGED <<cursor, previous_cell_index, num_read>>
        /\ rpc[r] # "absent"
        /\ \E to \in {"move_from", "dropping"} : GotoR(r, to)
    BY <1>10 DEF MoveTo, Drop
  <2>2. CASE q # r
    <3>1. SameHandle(q)
      BY <1>0, <2>1, <2>2 DEF SameHandle, GotoR, T
    <3> QED
      BY <1>5, <3>1
  <2>3. CASE q = r
    <3>1. Holding(q) /\ rpc'[q] # "batch_read"
      BY <1>0, <2>1, <2>3 DEF Holding, GotoR, T
    <3> QED
      BY <1>6, <2>1, <3>1
  <2> QED
    BY <2>2, <2>3
<1>11. ASSUME NEW r \in Receivers, MoveFrom(r)
       PROVE  /\ NextId(q)' = LastId(q)' + 1
              /\ W(q, cursor'[q], LastId(q)', rpc'[q] = "batch_read")
  <2>1. CASE q # r
    <3>1. SameHandle(q)
      BY <1>0, <1>11, <2>1 DEF SameHandle, MoveFrom, EndReceive, GotoR, T,
                               TypeOK
    <3> QED
      BY <1>5, <3>1
  <2>2. CASE q = r
    <3>1. Holding(q) /\ num_read[q] \in Nat
      BY <1>0, <1>11, <2>2 DEF MoveFrom, Holding, T
    <3>2. W(q, cursor[q], LastId(q), FALSE)
      BY <1>3, <3>1 DEF W
    <3>3. /\ cursor'[q] = NextId(q) /\ num_read'[q] = 0
          /\ rpc'[q] # "batch_read"
      BY <1>0, <1>11, <2>2 DEF MoveFrom, EndReceive, GotoR, T
    <3>4. LastId(q)' = LastId(q) /\ NextId(q)' = LastId(q)' + 1
      BY <1>0, <1>2, <3>1, <3>3 DEF LastId, NextId, T
    <3>5. NextId(q) >= cursor[q]
      BY <1>0, <3>1 DEF NextId, T
    <3> QED
      BY <1>0, <1>2, <3>2, <3>3, <3>4, <3>5 DEF W, T
  <2> QED
    BY <2>1, <2>2
<1>12. ASSUME NEW r \in Receivers, DropCell(r)
       PROVE  /\ NextId(q)' = LastId(q)' + 1
              /\ W(q, cursor'[q], LastId(q)', rpc'[q] = "batch_read")
  <2>1. q # r
    BY <1>0, <1>4, <1>12 DEF DropCell, GotoR, Holding, T
  <2>2. SameHandle(q)
    BY <1>0, <1>12, <2>1 DEF SameHandle, DropCell, GotoR, T, TypeOK
  <2> QED
    BY <1>5, <2>2
<1>13. ASSUME NEW r \in Receivers, CloneCount(r)
       PROVE  /\ NextId(q)' = LastId(q)' + 1
              /\ W(q, cursor'[q], LastId(q)', rpc'[q] = "batch_read")
  <2>1. /\ UNCHANGED <<cursor, previous_cell_index, num_read>>
        /\ rpc[r] # "absent"
        /\ rpc' = [rpc EXCEPT ![r] = "ready", ![clone_of[r]] = "ready"]
    BY <1>13 DEF CloneCount
  <2>2. CASE rpc'[q] = rpc[q]
    <3>1. SameHandle(q)
      BY <2>1, <2>2 DEF SameHandle
    <3> QED
      BY <1>5, <3>1
  <2>3. CASE rpc'[q] # rpc[q]
    <3>1. clone_of[r] \in Receivers /\ rpc[clone_of[r]] = "cloning"
      BY <1>13 DEF CloneCount, CloneInv
    <3>2. Holding(q) /\ rpc'[q] = "ready"
      BY <1>0, <2>1, <2>3, <3>1 DEF Holding, T
    <3> QED
      BY <1>6, <2>1, <3>2
  <2> QED
    BY <2>2, <2>3
<1>14. ASSUME NEW r \in Receivers, NEW p \in Receivers, Clone(r, p)
       PROVE  /\ NextId(q)' = LastId(q)' + 1
              /\ W(q, cursor'[q], LastId(q)', rpc'[q] = "batch_read")
  <2>1. /\ rpc[r] = "ready" /\ rpc[p] = "absent"
        /\ rpc' = [rpc EXCEPT ![r] = "cloning", ![p] = "cloned"]
        /\ previous_cell_index' =
             [previous_cell_index EXCEPT ![p] = previous_cell_index[r]]
        /\ cursor' = [cursor EXCEPT ![p] = cursor[r]]
        /\ UNCHANGED num_read
    BY <1>14 DEF Clone
  <2>2. num_read[r] = 0 /\ num_read[p] = 0
    BY <2>1 DEF HandleInv
  <2>3. CASE q = p
    <3>1. Holding(r) /\ W(r, cursor[r], LastId(r), FALSE)
      BY <1>3, <2>1 DEF Holding, W
    <3>2. cursor'[q] = cursor[r] /\ rpc'[q] = "cloned"
      BY <1>0, <2>1, <2>3 DEF T
    <3>3. LastId(q)' = LastId(r) /\ NextId(q)' = LastId(q)' + 1
      BY <1>0, <2>1, <2>2, <2>3, <3>2 DEF LastId, NextId, T
    <3> QED
      BY <3>1, <3>2, <3>3 DEF W
  <2>4. CASE q = r
    <3>1. Holding(q) /\ cursor'[q] = cursor[q] /\ rpc'[q] # "batch_read"
      BY <1>0, <2>1, <2>4 DEF Holding, T
    <3> QED
      BY <1>6, <2>1, <3>1
  <2>5. CASE q \notin {p, r}
    <3>1. SameHandle(q)
      BY <1>0, <2>1, <2>5 DEF SameHandle, T, TypeOK
    <3> QED
      BY <1>5, <3>1
  <2> QED
    BY <2>3, <2>4, <2>5
<1> QED
  BY <1>7, <1>8, <1>9, <1>10, <1>11, <1>12, <1>13, <1>14
     DEF ReceiverNext, RecvStep

\* A handle after a step continues from where some handle was before it.
LEMMA ReceiverAdvance ==
  ASSUME TypeOK, CloneInv, ReceiverNext, NEW q \in Receivers, Holding(q)'
  PROVE  \E p \in Receivers : Holding(p) /\ cursor'[q] >= cursor[p]
<1> DEFINE T == /\ cursor \in [Receivers -> Nat \ {0}]
                /\ rpc \in [Receivers -> RecvPCs]
                /\ num_read \in [Receivers -> 0 .. N-1]
<1>0. T /\ N \in Nat
  BY RingAssumption DEF TypeOK
<1>1. \A p \in Receivers : cursor[p] \in Nat /\ cursor[p] >= cursor[p]
  BY <1>0
<1> HIDE DEF T
<1>2. ASSUME NEW r \in Receivers, QuietStep(r)
      PROVE  Holding(q) /\ cursor'[q] = cursor[q]
  BY <1>0, <1>2, QuietStepForm DEF QuietPCs, GotoR, Holding, T
<1>3. ASSUME NEW r \in Receivers, MoveTo(r) \/ Drop(r)
      PROVE  Holding(q) /\ cursor'[q] = cursor[q]
  BY <1>0, <1>3 DEF MoveTo, Drop, GotoR, Holding, T
<1>4. ASSUME NEW r \in Receivers, MoveFrom(r)
      PROVE  Holding(q) /\ cursor'[q] >= cursor[q]
  BY <1>0, <1>1, <1>4 DEF MoveFrom, GotoR, EndReceive, NextId, Holding, T
<1>5. ASSUME NEW r \in Receivers, DropCell(r)
      PROVE  Holding(q) /\ cursor'[q] = cursor[q]
  BY <1>0, <1>5 DEF DropCell, GotoR, Holding, T
<1>6. ASSUME NEW r \in Receivers, CloneCount(r)
      PROVE  Holding(q) /\ cursor'[q] = cursor[q]
  <2>1. clone_of[r] \in Receivers /\ rpc[clone_of[r]] = "cloning"
    BY <1>6 DEF CloneCount, CloneInv
  <2> QED
    BY <1>0, <1>6, <2>1 DEF CloneCount, Holding, T
<1>7. ASSUME NEW r \in Receivers, NEW p \in Receivers, Clone(r, p)
      PROVE  \/ Holding(q) /\ cursor'[q] = cursor[q]
             \/ Holding(r) /\ cursor'[q] = cursor[r]
  BY <1>0, <1>7 DEF Clone, Holding, T
<1> QED
  BY <1>1, <1>2, <1>3, <1>4, <1>5, <1>6, <1>7, ReceiverCases

\* Cursors stay positive.
LEMMA ReceiverCursorType ==
  ASSUME TypeOK, ReceiverNext, NEW q \in Receivers
  PROVE  cursor'[q] \in Int
<1>1. cursor \in [Receivers -> Nat] /\ num_read \in [Receivers -> Nat]
  BY RingAssumption DEF TypeOK
<1> QED
  BY <1>1 DEF ReceiverNext, RecvStep, RecvCall, Accept, NotPublished,
     RecvTimeout, BatchRead, MoveTo, MoveFrom, Read, Clone, CloneCount, Drop,
     DropCell, NextId

\* A receiver never moves back to a cell a sender found free.
LEMMA ReceiverCleared ==
  TypeOK /\ CloneInv /\ ClearedInv /\ ReceiverNext => ClearedInv'
<1> SUFFICES ASSUME TypeOK, CloneInv, ClearedInv, ReceiverNext,
                    NEW s \in Senders, NEW q \in Receivers, Holding(q)',
                    pc'[s] \in {"check_receivers", "restore"}
             PROVE  cursor'[q] - 1 > Len(log') + 1 - N
  BY DEF ClearedInv
<1>1. pc' = pc /\ log' = log
  BY ReceiverFrame DEF sendvars
<1>2. PICK p \in Receivers : Holding(p) /\ cursor'[q] >= cursor[p]
  BY ReceiverAdvance
<1>3. cursor[p] - 1 > Len(log) + 1 - N
  BY <1>1, <1>2 DEF ClearedInv
<1>4. cursor[p] \in Int /\ cursor'[q] \in Int /\ Len(log) \in Int /\ N \in Int
  <2>1. cursor'[q] \in Int
    BY ReceiverCursorType
  <2> QED
    BY <2>1, RingAssumption DEF TypeOK
<1> QED
  BY <1>1, <1>2, <1>3, <1>4

\* A sender that finds its cell's counter at 0 has passed every receiver: one
\* that is N-1 messages behind would hold that very cell.
LEMMA FreeCell ==
  ASSUME TypeOK, HandleInv, CountersExact, WindowInv,
         NEW s \in Senders, id[s] = Len(log) + 1, CellFree(s),
         NEW r \in Receivers, Holding(r)
  PROVE  cursor[r] - 1 > Len(log) + 1 - N
<1>1. /\ id[s] \in Int /\ cursor[r] \in Int /\ Len(log) \in Int
      /\ N \in Int
  BY RingAssumption DEF TypeOK
<1>2. CellOf(s) \in Cells
  BY <1>1, IndexType DEF CellOf
<1>3. Holders(CellOf(s)) = {}
  BY <1>2, CountHandles, HoldersAreReceivers DEF CellFree, CountersExact
<1>4. fast_mod(cursor[r] - 1) # fast_mod(id[s])
  BY <1>3 DEF Holders, Holds, HandleInv, CellOf
<1>5. cursor[r] - 1 > Len(log) - N
  BY DEF WindowInv
<1>6. ASSUME cursor[r] - 1 = id[s] - N PROVE FALSE
  <2>1. fast_mod((cursor[r] - 1) + N) = fast_mod(cursor[r] - 1)
    <3>1. cursor[r] - 1 \in Int
      BY <1>1
    <3> QED
      BY <3>1, IndexLap, Zenon
  <2>2. (cursor[r] - 1) + N = id[s]
    BY <1>1, <1>6
  <2> QED
    BY <1>4, <2>1, <2>2
<1> QED
  BY <1>1, <1>5, <1>6

\* A cell found free has been passed by every receiver.
LEMMA SenderCleared ==
  TypeOK /\ HandleInv /\ CountersExact /\ TokenUnique /\ WindowInv
    /\ ClearedInv /\ SenderNext => ClearedInv'
<1> SUFFICES ASSUME TypeOK, HandleInv, CountersExact, TokenUnique, WindowInv,
                    ClearedInv, SenderNext,
                    NEW s \in Senders, SendCall(s) \/ SendStep(s),
                    NEW t \in Senders, NEW r \in Receivers, Holding(r)',
                    pc'[t] \in {"check_receivers", "restore"}
             PROVE  cursor'[r] - 1 > Len(log') + 1 - N
  BY DEF SenderNext, ClearedInv
<1>1. Holding(r) /\ cursor'[r] = cursor[r]
  BY SenderHandles
<1>2. CASE Restore(s)
  <2>1. pc' = [pc EXCEPT ![s] = "write"] /\ t # s /\ HoldsToken(t)
    BY <1>2 DEF Restore, HoldsToken, TypeOK
  <2>2. HoldsToken(s)
    BY <1>2 DEF Restore, HoldsToken
  <2> QED
    BY <2>1, <2>2 DEF TokenUnique
<1>3. CASE ~Restore(s)
  <2>1. log' = log
    BY <1>3 DEF SendStep, SendCall, CheckDeadline, CheckConnected, Take,
       TakeFails, TakeTimeout, CheckCell, AwaitCell, CellTimeout,
       CheckReceivers, PollDisconnected, Unwind, Write, Publish
  <2>2. CASE pc[t] \in {"check_receivers", "restore"}
    BY <1>1, <2>1, <2>2 DEF ClearedInv
  <2>3. CASE pc[t] \notin {"check_receivers", "restore"}
    <3>1. t = s /\ (CheckCell(s) \/ AwaitCell(s))
      <4>1. CASE SendCall(s)
        <5>1. PICK o \in SendOps : pc' = [pc EXCEPT ![s] = EntryOf[o]]
          BY <4>1 DEF SendCall
        <5>2. EntryOf[o] \in {"take", "check_connected", "check_deadline"}
          BY OpsAssumption DEF EntryOf, AllSendOps
        <5> QED
          BY <2>3, <5>1, <5>2 DEF TypeOK
      <4>2. CASE SendStep(s)
        BY <1>3, <2>3, <4>2 DEF SendStep, CheckDeadline, CheckConnected, Take,
           TakeFails, TakeTimeout, CheckCell, AwaitCell, CellTimeout,
           CheckReceivers, PollDisconnected, Unwind, Write, Publish, Goto,
           Return, TypeOK
      <4> QED
        BY <4>1, <4>2
    <3>2. CellFree(s)
      BY <2>3, <3>1 DEF CheckCell, AwaitCell, Goto, TypeOK
    <3>3. id[s] = Len(log) + 1
      BY <3>1 DEF CheckCell, AwaitCell, TokenUnique, HoldsToken
    <3> QED
      BY <1>1, <2>1, <3>2, <3>3, FreeCell
  <2> QED
    BY <2>2, <2>3
<1> QED
  BY <1>2, <1>3

-----------------------------------------------------------------------------
(* The contents of the cells.                                               *)

\* While a receiver is left, every id in flight is one of the last N claimed.
LEMMA InFlightWindow ==
  ASSUME TypeOK, ClaimInv, WindowInv, HandleInv, Connected,
         NEW s \in Senders, InFlight(s)
  PROVE  id[s] \in Int /\ id[s] > Len(log) - N /\ id[s] <= Len(log)
<1>1. PICK r \in Receivers : Holding(r)
  BY DEF Connected
<1>2. cursor[r] - 1 > Len(log) - N /\ id[s] > LastId(r)
  BY <1>1 DEF WindowInv
<1>3. LastId(r) >= cursor[r] - 1 /\ LastId(r) \in Int /\ cursor[r] \in Int
  BY RingAssumption DEF TypeOK, LastId
<1>4. id[s] \in Int /\ id[s] <= Len(log) /\ Len(log) \in Int /\ N \in Int
  BY RingAssumption DEF ClaimInv, TypeOK
<1> QED
  BY <1>2, <1>3, <1>4

\* Two of the last N ids have different cells.
LEMMA WindowDistinct ==
  ASSUME NEW a \in Int, NEW b \in Int, NEW n \in Int, a # b,
         a > n - N, a <= n, b > n - N, b <= n
  PROVE  fast_mod(a) # fast_mod(b)
<1>1. CASE a < b
  BY <1>1, IndexDistinct, RingAssumption
<1>2. CASE b < a
  BY <1>2, IndexDistinct, RingAssumption
<1> QED
  BY <1>1, <1>2

\* The last N claimed messages stay in their cells or in flight.
LEMMA SenderContent ==
  TypeOK /\ HandleInv /\ TokenUnique /\ ClaimInv /\ WindowInv /\ ContentInv
    /\ SenderNext => ContentInv'
<1> SUFFICES ASSUME TypeOK, HandleInv, TokenUnique, ClaimInv, WindowInv,
                    ContentInv, SenderNext, Connected',
                    NEW s \in Senders, SendCall(s) \/ SendStep(s)
             PROVE  /\ \A k \in 1 .. Len(log') : k > Len(log') - N =>
                         \/ \E t \in Senders : InFlight(t)' /\ id'[t] = k
                         \/ /\ current_id'[fast_mod(k)] = k
                            /\ value'[fast_mod(k)] = log'[k]
                    /\ \A t \in Senders : pc'[t] = "publish" =>
                         value'[fast_mod(id'[t])] = msg'[t]
  BY DEF SenderNext, ContentInv, CellOf
<1>1. Connected
  BY SenderHandles DEF Connected
<1>2. /\ \A k \in 1 .. Len(log) : k > Len(log) - N =>
           \/ \E t \in Senders : InFlight(t) /\ id[t] = k
           \/ /\ current_id[fast_mod(k)] = k
              /\ value[fast_mod(k)] = log[k]
      /\ \A t \in Senders : pc[t] = "publish" =>
           value[fast_mod(id[t])] = msg[t]
  BY <1>1 DEF ContentInv, CellOf
<1>3. Len(log) \in Nat /\ Len(log) \in Int /\ N \in Nat
  BY RingAssumption DEF TypeOK
<1>4. CASE OutsideStep(s)
  <2>1. /\ UNCHANGED <<value, current_id, log>>
        /\ ~InFlight(s) /\ ~InFlight(s)'
        /\ \A t \in Senders \ {s} :
             pc'[t] = pc[t] /\ id'[t] = id[t] /\ msg'[t] = msg[t]
    BY <1>4, OutsideStepForm
  <2> QED
    BY <1>2, <2>1 DEF InFlight
<1>5. CASE Restore(s)
  <2>1. /\ id[s] = Len(log) + 1 /\ Len(log') = Len(log) + 1
        /\ \A k \in 1 .. Len(log) : log'[k] = log[k]
        /\ UNCHANGED <<value, current_id, id>>
        /\ pc' = [pc EXCEPT ![s] = "write"]
        /\ \A t \in Senders \ {s} : msg'[t] = msg[t]
    BY <1>5, RestoreForm
  <2>2. /\ InFlight(s)' /\ pc'[s] = "write"
        /\ \A t \in Senders \ {s} : pc'[t] = pc[t]
        /\ \A t \in Senders : InFlight(t) => InFlight(t)'
    BY <2>1 DEF InFlight, TypeOK
  <2>3. ASSUME NEW k \in 1 .. Len(log'), k > Len(log') - N
        PROVE  \/ \E t \in Senders : InFlight(t)' /\ id'[t] = k
               \/ /\ current_id'[fast_mod(k)] = k
                  /\ value'[fast_mod(k)] = log'[k]
    <3>1. CASE k = Len(log) + 1
      BY <2>1, <2>2, <3>1
    <3>2. CASE k # Len(log) + 1
      <4>1. k \in 1 .. Len(log) /\ k > Len(log) - N
        BY <1>3, <2>1, <2>3, <3>2
      <4> QED
        BY <1>2, <2>1, <2>2, <4>1
    <3> QED
      BY <3>1, <3>2
  <2>4. \A t \in Senders : pc'[t] = "publish" =>
          value'[fast_mod(id'[t])] = msg'[t]
    BY <1>2, <2>1, <2>2
  <2> QED
    BY <2>3, <2>4
<1>6. CASE Write(s)
  <2>1. /\ pc[s] = "write" /\ InFlight(s)
        /\ value' = [value EXCEPT ![fast_mod(id[s])] = msg[s]]
        /\ pc' = [pc EXCEPT ![s] = "publish"]
        /\ UNCHANGED <<id, msg, current_id, log>>
    BY <1>6 DEF Write, Goto, InFlight, CellOf
  <2>2. /\ id[s] \in Int /\ id[s] > Len(log) - N /\ id[s] <= Len(log)
        /\ fast_mod(id[s]) \in Cells
    BY <1>1, <2>1, InFlightWindow, IndexType
  <2>3. \A t \in Senders : InFlight(t)' <=> InFlight(t)
    BY <2>1 DEF InFlight, TypeOK
  <2>4. ASSUME NEW k \in Int, k > Len(log) - N, k <= Len(log), k # id[s]
        PROVE  value'[fast_mod(k)] = value[fast_mod(k)]
    <3>1. fast_mod(k) # fast_mod(id[s])
      BY <1>3, <2>2, <2>4, WindowDistinct
    <3>2. fast_mod(k) \in Cells
      BY IndexType
    <3> QED
      BY <2>1, <3>1, <3>2 DEF TypeOK
  <2>5. ASSUME NEW k \in 1 .. Len(log'), k > Len(log') - N
        PROVE  \/ \E t \in Senders : InFlight(t)' /\ id'[t] = k
               \/ /\ current_id'[fast_mod(k)] = k
                  /\ value'[fast_mod(k)] = log'[k]
    <3>1. k \in Int /\ k <= Len(log) /\ k > Len(log) - N
          /\ k \in 1 .. Len(log)
      BY <1>3, <2>1, <2>5
    <3>2. CASE \E t \in Senders : InFlight(t) /\ id[t] = k
      BY <2>1, <2>3, <3>2
    <3>3. CASE ~ \E t \in Senders : InFlight(t) /\ id[t] = k
      <4>1. k # id[s]
        BY <2>1, <3>3
      <4> QED
        BY <1>2, <2>1, <2>4, <3>1, <3>3, <4>1
    <3> QED
      BY <3>2, <3>3
  <2>6. ASSUME NEW t \in Senders, pc'[t] = "publish"
        PROVE  value'[fast_mod(id'[t])] = msg'[t]
    <3>1. CASE t = s
      BY <2>1, <2>2, <3>1 DEF TypeOK
    <3>2. CASE t # s
      <4>1. pc[t] = "publish" /\ InFlight(t)
        BY <2>1, <2>6, <3>2 DEF InFlight, TypeOK
      <4>2. id[t] # id[s]
        BY <2>1, <3>2, <4>1 DEF ClaimInv
      <4>3. id[t] \in Int /\ id[t] > Len(log) - N /\ id[t] <= Len(log)
        BY <1>1, <4>1, InFlightWindow
      <4> QED
        BY <1>2, <2>1, <2>4, <4>1, <4>2, <4>3
    <3> QED
      BY <3>1, <3>2
  <2> QED
    BY <2>5, <2>6
<1>7. CASE Publish(s)
  <2>1. /\ pc[s] = "publish" /\ InFlight(s)
        /\ current_id' = [current_id EXCEPT ![fast_mod(id[s])] = id[s]]
        /\ UNCHANGED <<value, log>>
        /\ \A t \in Senders \ {s} :
             pc'[t] = pc[t] /\ id'[t] = id[t] /\ msg'[t] = msg[t]
        /\ pc'[s] = "ok"
    BY <1>7 DEF Publish, Return, InFlight, CellOf, TypeOK
  <2>2. /\ id[s] \in Int /\ id[s] > Len(log) - N /\ id[s] <= Len(log)
        /\ fast_mod(id[s]) \in Cells
    BY <1>1, <2>1, InFlightWindow, IndexType
  <2>3. value[fast_mod(id[s])] = log[id[s]]
    BY <1>2, <2>1 DEF ClaimInv
  <2>4. ASSUME NEW k \in 1 .. Len(log'), k > Len(log') - N
        PROVE  \/ \E t \in Senders : InFlight(t)' /\ id'[t] = k
               \/ /\ current_id'[fast_mod(k)] = k
                  /\ value'[fast_mod(k)] = log'[k]
    <3>1. k \in Int /\ k <= Len(log) /\ k > Len(log) - N
          /\ k \in 1 .. Len(log)
      BY <1>3, <2>1, <2>4
    <3>2. CASE k = id[s]
      BY <2>1, <2>2, <2>3, <3>2 DEF TypeOK
    <3>3. CASE k # id[s]
      <4>0. fast_mod(k) # fast_mod(id[s])
        BY <1>3, <2>2, <3>1, <3>3, WindowDistinct
      <4>1. fast_mod(k) # fast_mod(id[s]) /\ fast_mod(k) \in Cells
        BY <3>1, <4>0, IndexType
      <4>2. current_id'[fast_mod(k)] = current_id[fast_mod(k)]
        BY <2>1, <4>1 DEF TypeOK
      <4>3. ASSUME NEW t \in Senders, InFlight(t), id[t] = k
            PROVE  InFlight(t)' /\ id'[t] = k
        BY <2>1, <3>3, <4>3 DEF InFlight
      <4> QED
        BY <1>2, <2>1, <3>1, <4>2, <4>3
    <3> QED
      BY <3>2, <3>3
  <2>5. \A t \in Senders : pc'[t] = "publish" =>
          value'[fast_mod(id'[t])] = msg'[t]
    BY <1>2, <2>1
  <2> QED
    BY <2>4, <2>5
<1> QED
  BY <1>4, <1>5, <1>6, <1>7 DEF SendStep, OutsideStep, LocalStep

\* Receivers change no content of a cell.
LEMMA ReceiverContent ==
  TypeOK /\ CloneInv /\ ContentInv /\ ReceiverNext => ContentInv'
<1> SUFFICES ASSUME TypeOK, CloneInv, ContentInv, ReceiverNext, Connected'
             PROVE  ContentInv'
  BY DEF ContentInv
<1>1. UNCHANGED <<value, current_id, pc, id, msg, log>>
  BY ReceiverFrame DEF sendvars
<1>2. Connected
  BY ReceiverAdvance DEF Connected
<1>3. \A s \in Senders : InFlight(s)' <=> InFlight(s)
  BY <1>1 DEF InFlight
<1> QED
  BY <1>1, <1>2, <1>3 DEF ContentInv, CellOf

\* A sender returns Disconnected only if it counted no receiver.
LEMMA SenderFinal ==
  TypeOK /\ CountersExact /\ DisconnectedIsFinal /\ SenderNext
    => DisconnectedIsFinal'
<1> SUFFICES ASSUME TypeOK, CountersExact, DisconnectedIsFinal, SenderNext,
                    NEW s \in Senders, SendCall(s) \/ SendStep(s),
                    NEW t \in Senders, pc'[t] = "disconnected"
             PROVE  LiveReceivers' = {}
  BY DEF SenderNext, DisconnectedIsFinal
<1>1. LiveReceivers' = LiveReceivers
  BY SenderFrame DEF recvvars, LiveReceivers, Live
<1>2. CASE pc[t] = "disconnected"
  BY <1>1, <1>2 DEF DisconnectedIsFinal
<1>3. CASE pc[t] # "disconnected"
  <2>1. num_receivers = 0
    <3>1. CASE SendCall(s)
      <4>1. PICK o \in SendOps : pc' = [pc EXCEPT ![s] = EntryOf[o]]
        BY <3>1 DEF SendCall
      <4>2. EntryOf[o] \in {"take", "check_connected", "check_deadline"}
        BY OpsAssumption DEF EntryOf, AllSendOps
      <4> QED
        BY <1>3, <4>1, <4>2 DEF TypeOK
    <3>2. CASE SendStep(s)
      BY <1>3, <3>2 DEF SendStep, CheckDeadline, CheckConnected, Take,
         TakeFails, TakeTimeout, CheckCell, AwaitCell, CellTimeout,
         CheckReceivers, PollDisconnected, Unwind, Restore, Write, Publish,
         Goto, Return, TypeOK
    <3> QED
      BY <3>1, <3>2
  <2>2. LiveReceivers \in SUBSET Receivers
    BY DEF LiveReceivers
  <2> QED
    BY <1>1, <2>1, <2>2, CountHandles DEF CountersExact
<1> QED
  BY <1>2, <1>3

\* Without receivers no step makes one.
LEMMA ReceiverFinal ==
  TypeOK /\ CloneInv /\ CountersExact /\ DisconnectedIsFinal /\ ReceiverNext
    => DisconnectedIsFinal'
  BY ReceiverFrame, ReceiverCount DEF DisconnectedIsFinal, sendvars

-----------------------------------------------------------------------------
(* What a step leaves alone, conjunct by conjunct.                          *)

\* Steps of senders concern no handle and no counter.
LEMMA SenderKeeps ==
  ASSUME SenderNext
  PROVE  /\ HandleInv => HandleInv'
         /\ CloneInv => CloneInv'
         /\ CountersExact => CountersExact'
<1>1. /\ cursor' = cursor /\ previous_cell_index' = previous_cell_index
      /\ rpc' = rpc /\ rop' = rop /\ num_read' = num_read
      /\ max_results' = max_results /\ clone_of' = clone_of
      /\ read_counter' = read_counter /\ num_receivers' = num_receivers
  BY SenderFrame DEF recvvars
<1>2. HandleInv => HandleInv'
  BY <1>1 DEF HandleInv
<1>3. CloneInv => CloneInv'
  BY <1>1 DEF CloneInv
<1>4. CountersExact => CountersExact'
  <2>1. \A c \in Cells : Holders(c)' = Holders(c)
    BY <1>1 DEF Holders, Holds, Holding, LastId
  <2>2. LiveReceivers' = LiveReceivers
    BY <1>1 DEF LiveReceivers, Live
  <2> QED
    BY <1>1, <2>1, <2>2 DEF CountersExact
<1> QED
  BY <1>2, <1>3, <1>4

\* Steps of receivers concern no token and no claim.
LEMMA ReceiverKeeps ==
  ASSUME ReceiverNext
  PROVE  /\ TokenUnique => TokenUnique'
         /\ ClaimInv => ClaimInv'
         /\ PublishedInv => PublishedInv'
  BY ReceiverFrame DEF sendvars, TokenUnique, HoldsToken, ClaimInv, InFlight,
     PublishedInv

\* The invariant reads only variables of the specification.
LEMMA StutterIInv == IInv /\ UNCHANGED vars => IInv'
<1> SUFFICES ASSUME IInv, UNCHANGED vars PROVE IInv'
  OBVIOUS
<1> USE DEF vars, cells, sendvars, recvvars
<1>1. TypeOK'
  BY DEF IInv, TypeOK
<1>2. HandleInv' /\ CloneInv'
  BY DEF IInv, HandleInv, CloneInv
<1>3. CountersExact'
  BY DEF IInv, CountersExact, Holders, Holds, Holding, LastId, LiveReceivers,
         Live
<1>4. TokenUnique' /\ ClaimInv' /\ PublishedInv'
  BY DEF IInv, TokenUnique, HoldsToken, ClaimInv, InFlight, PublishedInv
<1>5. WindowInv' /\ ClearedInv'
  BY DEF IInv, WindowInv, ClearedInv, Holding, InFlight, LastId, NextId
<1>6. ContentInv' /\ DisconnectedIsFinal'
  BY DEF IInv, ContentInv, Connected, Holding, InFlight, CellOf,
         DisconnectedIsFinal, LiveReceivers, Live
<1> QED
  BY <1>1, <1>2, <1>3, <1>4, <1>5, <1>6 DEF IInv

-----------------------------------------------------------------------------
(***************************************************************************)
(* IInv holds in every reachable state of the channel.                     *)
(***************************************************************************)
THEOREM Inductive == Spec => []IInv
<1>1. IInv /\ SenderNext => IInv'
  BY SenderType, SenderToken, SenderPublished, SenderClaim, SenderWindow,
     SenderCleared, SenderContent, SenderFinal, SenderKeeps DEF IInv
<1>2. IInv /\ ReceiverNext => IInv'
  BY ReceiverType, ReceiverHandle, ReceiverClone, ReceiverCounters,
     ReceiverWindow, ReceiverCleared, ReceiverContent, ReceiverFinal,
     ReceiverKeeps DEF IInv
<1>3. IInv /\ [Next]_vars => IInv'
  BY <1>1, <1>2, NextSplit, StutterIInv
<1> QED
  BY <1>3, InitIInv, PTL DEF Spec

(***************************************************************************)
(* Every variable keeps its type: no counter of the code underflows.       *)
(***************************************************************************)
THEOREM TypeCorrect == Spec => []TypeOK
<1>1. IInv => TypeOK
  BY DEF IInv
<1> QED
  BY <1>1, Inductive, PTL

(***************************************************************************)
(* read_counter and num_receivers count exactly the receivers they should. *)
(***************************************************************************)
THEOREM CountersCorrect == Spec => []CountersExact
<1>1. IInv => CountersExact
  BY DEF IInv
<1> QED
  BY <1>1, Inductive, PTL

(***************************************************************************)
(* The write token is never duplicated, and put back with the next id.     *)
(***************************************************************************)
THEOREM TokenCorrect == Spec => []TokenUnique
<1>1. IInv => TokenUnique
  BY DEF IInv
<1> QED
  BY <1>1, Inductive, PTL

(***************************************************************************)
(* Disconnected is returned only when no receiver is left or will be.      *)
(***************************************************************************)
THEOREM DisconnectCorrect == Spec => []DisconnectedIsFinal
<1>1. IInv => DisconnectedIsFinal
  BY DEF IInv
<1> QED
  BY <1>1, Inductive, PTL

(***************************************************************************)
(* No value is cloned by a receiver while a sender replaces it.            *)
(***************************************************************************)
THEOREM RaceFree == Spec => []NoReadWriteRace
<1>1. IInv => NoReadWriteRace
  <2> SUFFICES ASSUME IInv, NEW r \in Receivers, NEW s \in Senders,
                      pc[s] = "write", Reading(r, CellOf(s))
               PROVE  FALSE
    BY DEF NoReadWriteRace
  <2>1. /\ cursor[r] \in Int /\ num_read[r] \in Nat /\ id[s] \in Int
        /\ Len(log) \in Int /\ N \in Int
    BY RingAssumption DEF IInv, TypeOK
  <2>2. InFlight(s) /\ Holding(r)
    BY DEF InFlight, Holding, Reading
  <2>3. /\ id[s] <= Len(log)
        /\ cursor[r] - 1 > Len(log) - N
        /\ id[s] > LastId(r)
        /\ rpc[r] = "batch_read" => id[s] > NextId(r)
    BY <2>1, <2>2 DEF IInv, ClaimInv, WindowInv
  <2>4. CASE rpc[r] = "read"
    <3>1. fast_mod(cursor[r] - 1) = fast_mod(id[s])
      BY <2>4 DEF Reading, CellOf, IInv, HandleInv
    <3>2. /\ cursor[r] - 1 \in Int /\ cursor[r] - 1 < id[s]
          /\ id[s] < cursor[r] - 1 + N
      BY <2>1, <2>3 DEF LastId
    <3> QED
      BY <2>1, <3>1, <3>2, IndexDistinct
  <2>5. CASE rpc[r] = "batch_read"
    <3>1. fast_mod(NextId(r)) = fast_mod(id[s])
      BY <2>5 DEF Reading, CellOf
    <3>2. NextId(r) \in Int /\ NextId(r) < id[s] /\ id[s] < NextId(r) + N
      BY <2>1, <2>3, <2>5 DEF NextId
    <3> QED
      BY <2>1, <3>1, <3>2, IndexDistinct
  <2> QED
    BY <2>4, <2>5 DEF Reading
<1> QED
  BY <1>1, Inductive, PTL

\* The message at a receiver's position is in its cell.
LEMMA CellsHoldTheLog == IInv => ReadsTheLog
<1> SUFFICES ASSUME IInv, NEW r \in Receivers
             PROVE  /\ rpc[r] = "read" =>
                         /\ cursor[r] - 1 \in 1 .. Len(log)
                         /\ value[previous_cell_index[r]] = log[cursor[r] - 1]
                    /\ rpc[r] = "batch_read" =>
                         /\ NextId(r) \in 1 .. Len(log)
                         /\ value[fast_mod(NextId(r))] = log[NextId(r)]
  BY DEF ReadsTheLog
<1>1. /\ cursor[r] \in Nat /\ cursor[r] >= 1 /\ num_read[r] \in Nat
      /\ Len(log) \in Nat /\ N \in Nat /\ id \in [Senders -> Nat]
  BY RingAssumption DEF IInv, TypeOK
<1>2. ASSUME NEW k \in 1 .. Len(log), k > Len(log) - N, Connected,
             \A s \in Senders : InFlight(s) => id[s] > k
      PROVE  value[fast_mod(k)] = log[k]
  BY <1>1, <1>2 DEF IInv, ContentInv
<1>3. CASE rpc[r] = "read"
  <2>1. Holding(r) /\ Connected
    BY <1>3 DEF Holding, Connected
  <2>2. num_read[r] = 0 /\ cursor[r] > 1
        /\ previous_cell_index[r] = fast_mod(cursor[r] - 1)
    BY <1>3 DEF IInv, HandleInv
  <2>3. LastId(r) = cursor[r] - 1
    BY <1>1, <2>2 DEF LastId
  <2>4. /\ cursor[r] - 1 \in 1 .. Len(log) /\ cursor[r] - 1 > Len(log) - N
        /\ \A s \in Senders : InFlight(s) => id[s] > cursor[r] - 1
    BY <1>1, <2>1, <2>2, <2>3 DEF IInv, WindowInv
  <2> QED
    BY <1>2, <1>3, <2>1, <2>2, <2>4
<1>4. CASE rpc[r] = "batch_read"
  <2>1. Holding(r) /\ Connected
    BY <1>4 DEF Holding, Connected
  <2>2. /\ NextId(r) <= Len(log) /\ cursor[r] - 1 > Len(log) - N
        /\ \A s \in Senders : InFlight(s) => id[s] > NextId(r)
    BY <1>4, <2>1 DEF IInv, WindowInv
  <2>3. NextId(r) \in 1 .. Len(log) /\ NextId(r) > Len(log) - N
    BY <1>1, <2>2 DEF NextId
  <2> QED
    BY <1>2, <1>4, <2>1, <2>2, <2>3
<1> QED
  BY <1>3, <1>4

(***************************************************************************)
(* A receiver obtains the messages in the order of their claims, each one  *)
(* once and none from another lap of the ring.                             *)
(***************************************************************************)
THEOREM BroadcastCorrect == Spec => []ReadsTheLog
  BY CellsHoldTheLog, Inductive, PTL

(***************************************************************************)
(* Senders that overtook each other never write the same cell, as long as  *)
(* a receiver is left.                                                     *)
(***************************************************************************)
THEOREM WritersExclusive == Spec => []ExclusiveWrite
<1>1. IInv => ExclusiveWrite
  <2> SUFFICES ASSUME IInv, Connected, NEW s \in Senders, NEW t \in Senders,
                      s # t, InFlight(s), InFlight(t)
               PROVE  CellOf(s) # CellOf(t)
    BY DEF ExclusiveWrite
  <2>1. /\ id[s] \in Int /\ id[s] > Len(log) - N /\ id[s] <= Len(log)
        /\ id[t] \in Int /\ id[t] > Len(log) - N /\ id[t] <= Len(log)
    BY InFlightWindow DEF IInv
  <2>2. id[s] # id[t] /\ Len(log) \in Int
    BY DEF IInv, ClaimInv, TypeOK
  <2> QED
    BY <2>1, <2>2, WindowDistinct DEF CellOf
<1> QED
  BY <1>1, Inductive, PTL

(***************************************************************************)
(* No message is overwritten before every receiver has moved past it.      *)
(***************************************************************************)
THEOREM NothingLost == Spec => []NoOverwriteUnread
<1>1. IInv => NoOverwriteUnread
  <2> SUFFICES ASSUME IInv, NEW s \in Senders, NEW r \in Receivers,
                      InFlight(s), Holding(r)
               PROVE  cursor[r] - 1 > id[s] - N
    BY DEF NoOverwriteUnread
  <2>1. /\ cursor[r] \in Int /\ id[s] \in Int /\ Len(log) \in Int
        /\ N \in Int
    BY RingAssumption DEF IInv, TypeOK
  <2>2. cursor[r] - 1 > Len(log) - N /\ id[s] <= Len(log)
    BY DEF IInv, WindowInv, ClaimInv
  <2> QED
    BY <2>1, <2>2
<1> QED
  BY <1>1, Inductive, PTL

\* The steps of a sender neither mislay the token nor overlook a receiver.
LEMMA SenderNotLost ==
  TypeOK /\ CountersExact /\ TokenNotLost /\ SenderNext => TokenNotLost'
<1> SUFFICES ASSUME TypeOK, CountersExact, TokenNotLost, SenderNext,
                    NEW s \in Senders, SendCall(s) \/ SendStep(s),
                    write_head' = TAKEN, LiveReceivers # {}
             PROVE  \E t \in Senders : HoldsToken(t)'
  <2>1. SenderNext => LiveReceivers' = LiveReceivers
    BY SenderFrame DEF recvvars, LiveReceivers, Live
  <2> QED
    BY <2>1 DEF SenderNext, TokenNotLost
<1> USE DEF TypeOK, HoldsToken, cells
<1>1. CASE Take(s)
  BY <1>1 DEF Take
<1>2. CASE Unwind(s) \/ Restore(s)
  BY <1>2 DEF Unwind, Restore, TAKEN, MAX
<1>3. ASSUME SendCall(s) \/ LocalStep(s) \/ Write(s) \/ Publish(s)
      PROVE  \E t \in Senders : HoldsToken(t)'
  <2>1. write_head = TAKEN
    BY <1>3 DEF SendCall, LocalStep, CheckDeadline, CheckConnected, TakeFails,
       TakeTimeout, CheckCell, AwaitCell, CellTimeout, CheckReceivers,
       PollDisconnected, Write, Publish
  <2>2. PICK t \in Senders : HoldsToken(t)
    BY <2>1 DEF TokenNotLost
  <2>3. num_receivers # 0
    <3>1. LiveReceivers \in SUBSET Receivers
      BY DEF LiveReceivers
    <3> QED
      BY <3>1, CountHandles DEF CountersExact
  <2>4. CASE t # s
    <3>1. pc'[t] = pc[t]
      <4>1. CASE SendCall(s) \/ LocalStep(s)
        BY <2>4, <4>1, OutsideStepForm DEF OutsideStep
      <4>2. CASE Write(s) \/ Publish(s)
        BY <2>4, <4>2 DEF Write, Publish, Goto, Return
      <4> QED
        BY <1>3, <4>1, <4>2
    <3> QED
      BY <2>2, <3>1
  <2>5. CASE t = s
    BY <1>3, <2>2, <2>3, <2>5 DEF SendCall, LocalStep, CheckDeadline,
       CheckConnected, TakeFails, TakeTimeout, CheckCell, AwaitCell,
       CellTimeout, CheckReceivers, PollDisconnected, Write, Publish, Goto,
       Returned
  <2> QED
    BY <2>4, <2>5
<1> QED
  BY <1>1, <1>2, <1>3 DEF SendStep, LocalStep

(***************************************************************************)
(* The write token is not lost while a receiver is left: every call that   *)
(* takes it puts a head back, except one that returns Disconnected.        *)
(***************************************************************************)
THEOREM TokenKept == Spec => []TokenNotLost
<1>1. Init => TokenNotLost
  BY DEF Init, TokenNotLost, TAKEN, MAX
<1>2. IInv /\ TokenNotLost /\ [Next]_vars => TokenNotLost'
  <2>1. CASE SenderNext
    BY <2>1, SenderNotLost DEF IInv
  <2>2. IInv /\ TokenNotLost /\ ReceiverNext => TokenNotLost'
    BY ReceiverFrame, ReceiverCount DEF IInv, TokenNotLost, HoldsToken, sendvars
  <2>3. CASE UNCHANGED vars
    BY <2>3 DEF vars, sendvars, recvvars, TokenNotLost, HoldsToken,
       LiveReceivers, Live
  <2> QED
    BY <2>1, <2>2, <2>3, NextSplit
<1> QED
  BY <1>1, <1>2, Inductive, PTL DEF Spec
=============================================================================
