------------------------- MODULE NexusQEventsProofs -------------------------
(***************************************************************************)
(* What listening, notifying and dropping a listener do to the listeners   *)
(* of an event, whoever they are; used for threads and for tasks.          *)
(***************************************************************************)
EXTENDS NexusQEvents, NexusQProofs

\* The listeners in a queue, and that none is in it twice.
Members(q)  == {q[i] : i \in DOMAIN q}
Distinct(q) == \A i, j \in DOMAIN q : q[i] = q[j] => i = j

\* The listeners of e, notified or not.
Registered(e) == Members(queue[e]) \cup notified[e]

\* Nobody listens twice to an event, or is both notified and not.
EventsOK == /\ EventsTypeOK
            /\ \A e \in Events : /\ Distinct(queue[e])
                                 /\ Members(queue[e]) \cap notified[e] = {}

-----------------------------------------------------------------------------
(* Queues.                                                                  *)

\* A new listener goes to the end of the queue.
LEMMA AppendQueue ==
  ASSUME NEW S, NEW q \in Seq(S), NEW t \in S, t \notin Members(q), Distinct(q)
  PROVE  /\ Append(q, t) \in Seq(S)
         /\ Members(Append(q, t)) = Members(q) \cup {t}
         /\ Distinct(Append(q, t))
<1>1. /\ Len(q) \in Nat /\ DOMAIN q = 1 .. Len(q)
      /\ Append(q, t) \in Seq(S) /\ Len(Append(q, t)) = Len(q) + 1
      /\ DOMAIN Append(q, t) = 1 .. Len(q) + 1
      /\ \A i \in 1 .. Len(q) : Append(q, t)[i] = q[i]
      /\ Append(q, t)[Len(q) + 1] = t
  OBVIOUS
<1>2. Members(Append(q, t)) = Members(q) \cup {t}
  BY <1>1 DEF Members
<1>3. Distinct(Append(q, t))
  BY <1>1 DEF Members, Distinct
<1> QED
  BY <1>1, <1>2, <1>3

\* notify(1) takes the head of the queue.
LEMMA TailQueue ==
  ASSUME NEW S, NEW q \in Seq(S), q # <<>>, Distinct(q)
  PROVE  /\ Tail(q) \in Seq(S)
         /\ Head(q) \in S /\ Head(q) \in Members(q)
         /\ Members(Tail(q)) = Members(q) \ {Head(q)}
         /\ Distinct(Tail(q))
<1>1. /\ Len(q) \in Nat /\ Len(q) >= 1 /\ DOMAIN q = 1 .. Len(q)
      /\ Tail(q) \in Seq(S) /\ DOMAIN Tail(q) = 1 .. Len(q) - 1
      /\ \A i \in 1 .. Len(q) - 1 : Tail(q)[i] = q[i + 1]
      /\ Head(q) = q[1] /\ Head(q) \in S
  OBVIOUS
<1>2. Members(Tail(q)) = Members(q) \ {Head(q)}
  <2>1. ASSUME NEW x \in Members(Tail(q)) PROVE x \in Members(q) \ {Head(q)}
    BY <1>1, <2>1 DEF Members, Distinct
  <2>2. ASSUME NEW x \in Members(q), x # Head(q) PROVE x \in Members(Tail(q))
    <3>1. PICK i \in 1 .. Len(q) : q[i] = x
      BY <1>1, <2>2 DEF Members
    <3>2. i # 1 /\ i - 1 \in 1 .. Len(q) - 1 /\ Tail(q)[i - 1] = x
      BY <1>1, <2>2, <3>1
    <3> QED
      BY <1>1, <3>2 DEF Members
  <2> QED
    BY <2>1, <2>2
<1>3. Distinct(Tail(q))
  BY <1>1 DEF Distinct
<1>4. Head(q) \in Members(q)
  <2>1. 1 \in DOMAIN q /\ q[1] = Head(q)
    BY <1>1
  <2> QED
    BY <2>1 DEF Members
<1> QED
  BY <1>1, <1>2, <1>3, <1>4

\* A listener that is dropped leaves the others in order.
LEMMA WithoutQueue ==
  ASSUME NEW S, NEW q \in Seq(S), NEW t, Distinct(q)
  PROVE  /\ Without(q, t) \in Seq(S)
         /\ Members(Without(q, t)) = Members(q) \ {t}
         /\ Distinct(Without(q, t))
<1>1. Len(q) \in Nat /\ DOMAIN q = 1 .. Len(q) /\ \A i \in DOMAIN q : q[i] \in S
  OBVIOUS
<1>2. CASE \E i \in DOMAIN q : q[i] = t
  <2> DEFINE at == CHOOSE i \in DOMAIN q : q[i] = t
             w  == [j \in 1 .. Len(q) - 1 |-> q[IF j < at THEN j ELSE j + 1]]
  <2>1. at \in 1 .. Len(q) /\ q[at] = t
    BY <1>1, <1>2
  <2>2. Without(q, t) = w
    BY <1>2 DEF Without
  <2> HIDE DEF at
  <2>3. /\ Len(q) - 1 \in Nat /\ DOMAIN w = 1 .. Len(q) - 1
        /\ \A j \in 1 .. Len(q) - 1 : /\ j < at => w[j] = q[j]
                                      /\ ~(j < at) => w[j] = q[j + 1]
    BY <1>1, <2>1
  <2>4. w \in Seq(S)
    BY <1>1, <2>1, <2>3
  <2> HIDE DEF w
  <2>5. \A x \in Members(w) : x \in Members(q) /\ x # t
    BY <1>1, <2>1, <2>3 DEF Members, Distinct
  <2>6. ASSUME NEW x \in Members(q), x # t PROVE x \in Members(w)
    <3>1. PICK i \in 1 .. Len(q) : q[i] = x
      BY <1>1, <2>6 DEF Members
    <3>2. CASE i < at
      BY <1>1, <2>1, <2>3, <3>1, <3>2 DEF Members
    <3>3. CASE ~(i < at)
      <4>1. i - 1 \in 1 .. Len(q) - 1 /\ ~(i - 1 < at) /\ w[i - 1] = x
        BY <1>1, <2>1, <2>3, <2>6, <3>1, <3>3
      <4> QED
        BY <2>3, <4>1 DEF Members
    <3> QED
      BY <3>2, <3>3
  <2>7. Distinct(w)
    BY <1>1, <2>1, <2>3 DEF Distinct
  <2> QED
    BY <2>2, <2>4, <2>5, <2>6, <2>7
<1>3. CASE ~\E i \in DOMAIN q : q[i] = t
  BY <1>3 DEF Without, Members
<1> QED
  BY <1>2, <1>3

\* Nobody is in an empty queue.
LEMMA EmptyQueue ==
  ASSUME NEW S
  PROVE  /\ <<>> \in Seq(S) /\ Members(<<>>) = {} /\ Distinct(<<>>)
         /\ \A q \in Seq(S) : q # <<>> <=> Members(q) # {}
<1>1. <<>> \in Seq(S) /\ DOMAIN <<>> = {}
  OBVIOUS
<1>2. ASSUME NEW q \in Seq(S), q # <<>> PROVE Members(q) # {}
  <2>1. 1 \in DOMAIN q
    BY <1>2
  <2> QED
    BY <2>1 DEF Members
<1>3. Members(<<>>) = {} /\ Distinct(<<>>)
  BY <1>1 DEF Members, Distinct
<1> QED
  BY <1>1, <1>2, <1>3

-----------------------------------------------------------------------------
(* Events.                                                                  *)

\* Cells are events, the write head is one, and none is NONE.
LEMMA EventSet ==
  /\ HEAD \in Events /\ HEAD \notin Cells /\ NONE \notin Events
  /\ \A i \in Int : fast_mod(i) \in Events
  BY IndexType, RingAssumption DEF HEAD, NONE, Events, Cells

\* t listens to e.
LEMMA ListenForm ==
  ASSUME EventsOK, NEW t \in Threads, NEW e \in Events, t \notin Registered(e),
         queue' = [queue EXCEPT ![e] = Append(@, t)],
         UNCHANGED <<notified, pend>>
  PROVE  /\ EventsOK'
         /\ Registered(e)' = Registered(e) \cup {t}
         /\ \A f \in Events \ {e} : Registered(f)' = Registered(f)
<1>1. queue[e] \in Seq(Threads) /\ Distinct(queue[e])
      /\ t \notin Members(queue[e]) /\ queue \in [Events -> Seq(Threads)]
  BY DEF EventsOK, EventsTypeOK, Registered
<1>2. /\ queue'[e] \in Seq(Threads)
      /\ Members(queue'[e]) = Members(queue[e]) \cup {t}
      /\ Distinct(queue'[e])
  BY <1>1, AppendQueue
<1>3. \A f \in Events \ {e} : queue'[f] = queue[f]
  BY <1>1
<1>4. queue' \in [Events -> Seq(Threads)]
  BY <1>1, <1>2
<1> QED
  BY <1>2, <1>3, <1>4 DEF EventsOK, EventsTypeOK, Registered

\* t drops its listener of e: whoever was notified still is, except t, and a
\* notification is not lost while somebody listens.
LEMMA UnlistenForm ==
  ASSUME EventsOK, NEW t \in Threads, NEW e \in Events, Unlisten(t, e),
         UNCHANGED pend
  PROVE  /\ EventsOK'
         /\ Registered(e)' = Registered(e) \ {t}
         /\ notified[e] \ {t} \subseteq notified'[e]
         /\ notified[e] # {} /\ Registered(e)' # {} => notified'[e] # {}
         /\ \A f \in Events \ {e} : /\ Registered(f)' = Registered(f)
                                    /\ notified'[f] = notified[f]
<1>1. /\ queue \in [Events -> Seq(Threads)]
      /\ notified \in [Events -> SUBSET Threads]
      /\ queue[e] \in Seq(Threads) /\ Distinct(queue[e])
      /\ Members(queue[e]) \cap notified[e] = {}
  BY DEF EventsOK, EventsTypeOK
<1>2. CASE notified[e] = {t} /\ queue[e] # <<>>
  <2>1. /\ Tail(queue[e]) \in Seq(Threads)
        /\ Head(queue[e]) \in Threads /\ Head(queue[e]) \in Members(queue[e])
        /\ Members(Tail(queue[e])) = Members(queue[e]) \ {Head(queue[e])}
        /\ Distinct(Tail(queue[e]))
    BY <1>1, <1>2, TailQueue
  <2>2. /\ notified' = [notified EXCEPT ![e] = {Head(queue[e])}]
        /\ queue' = [queue EXCEPT ![e] = Tail(queue[e])]
    BY <1>2 DEF Unlisten
  <2> QED
    BY <1>1, <1>2, <2>1, <2>2 DEF EventsOK, EventsTypeOK, Registered
<1>3. CASE ~(notified[e] = {t} /\ queue[e] # <<>>)
  <2>1. /\ Without(queue[e], t) \in Seq(Threads)
        /\ Members(Without(queue[e], t)) = Members(queue[e]) \ {t}
        /\ Distinct(Without(queue[e], t))
    BY <1>1, WithoutQueue
  <2>2. /\ notified' = [notified EXCEPT ![e] = notified[e] \ {t}]
        /\ queue' = [queue EXCEPT ![e] = Without(queue[e], t)]
    BY <1>3 DEF Unlisten
  <2>3. /\ notified'[e] = notified[e] \ {t}
        /\ Registered(e)' = Registered(e) \ {t}
    BY <1>1, <2>1, <2>2 DEF Registered
  <2>4. ASSUME notified[e] # {}, notified'[e] = {}
        PROVE  Registered(e)' = {}
    <3>1. notified[e] = {t}
      BY <2>3, <2>4
    <3>2. Members(queue[e]) = {}
      BY <1>3, <3>1, EmptyQueue DEF Members
    <3> QED
      BY <2>3, <3>1, <3>2 DEF Registered
  <2>5. EventsOK' /\ \A f \in Events \ {e} : /\ Registered(f)' = Registered(f)
                                              /\ notified'[f] = notified[f]
    BY <1>1, <2>1, <2>2 DEF EventsOK, EventsTypeOK, Registered
  <2> QED
    BY <2>3, <2>4, <2>5
<1> QED
  BY <1>2, <1>3

\* t sends its notification: nobody stops listening, on a cell everybody is
\* notified, on the head somebody if anybody listens.
LEMMA NotifyForm ==
  ASSUME EventsOK, NEW t \in Threads, SendNotification(t)
  PROVE  /\ EventsOK'
         /\ \A f \in Events : /\ Registered(f)' = Registered(f)
                              /\ notified[f] \subseteq notified'[f]
         /\ pend[t] \in Events /\ pend' = [pend EXCEPT ![t] = NONE]
         /\ pend[t] # HEAD => notified'[pend[t]] = Registered(pend[t])
         /\ pend[t] = HEAD /\ Registered(HEAD) # {} => notified'[HEAD] # {}
<1> PICK e : e = pend[t]
  OBVIOUS
<1>0. /\ e \in Events /\ pend' = [pend EXCEPT ![t] = NONE]
      /\ pend' \in [Threads -> Events \cup {NONE}]
  BY DEF EventsOK, EventsTypeOK, SendNotification
<1>1. /\ queue \in [Events -> Seq(Threads)]
      /\ notified \in [Events -> SUBSET Threads]
      /\ queue[e] \in Seq(Threads) /\ Distinct(queue[e])
      /\ Members(queue[e]) \cap notified[e] = {}
  BY <1>0 DEF EventsOK, EventsTypeOK
<1>2. CASE e = HEAD /\ notified[e] = {} /\ queue[e] # <<>>
  <2>1. /\ Tail(queue[e]) \in Seq(Threads)
        /\ Head(queue[e]) \in Threads /\ Head(queue[e]) \in Members(queue[e])
        /\ Members(Tail(queue[e])) = Members(queue[e]) \ {Head(queue[e])}
        /\ Distinct(Tail(queue[e]))
    BY <1>1, <1>2, TailQueue
  <2>2. /\ notified' = [notified EXCEPT ![e] = {Head(queue[e])}]
        /\ queue' = [queue EXCEPT ![e] = Tail(queue[e])]
    BY <1>2 DEF SendNotification, NotifyOne
  <2> QED
    BY <1>0, <1>1, <1>2, <2>1, <2>2 DEF EventsOK, EventsTypeOK, Registered
<1>3. CASE e = HEAD /\ ~(notified[e] = {} /\ queue[e] # <<>>)
  <2>1. UNCHANGED <<queue, notified>>
    BY <1>3 DEF SendNotification, NotifyOne
  <2>2. Registered(HEAD) # {} => notified[HEAD] # {}
    BY <1>1, <1>3, EmptyQueue DEF Registered
  <2> QED
    BY <1>0, <1>3, <2>1, <2>2 DEF EventsOK, EventsTypeOK, Registered
<1>4. CASE e # HEAD
  <2>1. /\ notified' = [notified EXCEPT ![e] =
                          notified[e] \cup Members(queue[e])]
        /\ queue' = [queue EXCEPT ![e] = <<>>]
    BY <1>4 DEF SendNotification, NotifyAll, Members
  <2>2. Members(queue[e]) \subseteq Threads
    BY <1>1 DEF Members
  <2> QED
    BY <1>0, <1>1, <1>4, <2>1, <2>2, EmptyQueue
       DEF EventsOK, EventsTypeOK, Registered
<1> QED
  BY <1>2, <1>3, <1>4

-----------------------------------------------------------------------------
(* Which threads wait, and for what.                                        *)

\* A step leaves the wait of t alone: it does not concern t, or t is a handle
\* that is made, cloned or counted and in no call.
SameWait(t) ==
  /\ t \in Senders => pc'[t] = pc[t] /\ op'[t] = op[t] /\ id'[t] = id[t]
  /\ t \in Receivers =>
       \/ /\ rpc'[t] = rpc[t] /\ rop'[t] = rop[t]
          /\ cursor'[t] = cursor[t] /\ num_read'[t] = num_read[t]
       \/ {rpc[t], rpc'[t]} \subseteq {"ready", "absent", "cloning", "cloned"}

\* A step of a sender concerns no other thread.
LEMMA SenderTouches ==
  ASSUME TypeOK, NEW s \in Senders, SendCall(s) \/ SendStep(s)
  PROVE  \A t \in Threads \ {s} : SameWait(t)
<1>1. UNCHANGED recvvars
  BY SenderFrame DEF SenderNext
<1>2. /\ pc \in [Senders -> SendPCs] /\ id \in [Senders -> Nat]
      /\ op \in [Senders -> AllSendOps \cup {"none"}]
  BY DEF TypeOK
<1>3. \A t \in Senders \ {s} :
        pc'[t] = pc[t] /\ op'[t] = op[t] /\ id'[t] = id[t]
  BY <1>2 DEF SendCall, SendStep, CheckDeadline, CheckConnected, Take,
     TakeFails, TakeTimeout, CheckCell, AwaitCell, CellTimeout,
     CheckReceivers, PollDisconnected, Unwind, Restore, Write, Publish, Goto,
     Return
<1> QED
  BY <1>1, <1>3 DEF SameWait, recvvars

\* A step of a receiver concerns no other thread that waits.
LEMMA ReceiverTouches ==
  ASSUME TypeOK, CloneInv, NEW r \in Receivers,
         RecvCall(r) \/ RecvStep(r) \/ Drop(r)
  PROVE  \A t \in Threads \ {r} : SameWait(t)
<1>1. UNCHANGED sendvars
  BY ReceiverFrame DEF ReceiverNext
<1>2. /\ cursor \in [Receivers -> Nat \ {0}] /\ rpc \in [Receivers -> RecvPCs]
      /\ rop \in [Receivers -> AllRecvOps \cup {"none"}]
      /\ num_read \in [Receivers -> 0 .. N-1]
  BY DEF TypeOK
<1>3. ASSUME NEW t \in Receivers \ {r}
      PROVE  SameWait(t)
  <2>1. CASE CloneCount(r)
    <3>1. clone_of[r] \in Receivers /\ rpc[clone_of[r]] = "cloning"
      BY <2>1 DEF CloneCount, CloneInv
    <3> QED
      BY <1>1, <1>2, <2>1, <3>1 DEF CloneCount, SameWait, sendvars
  <2>2. CASE ~CloneCount(r)
    <3>1. /\ rpc'[t] = rpc[t] /\ rop'[t] = rop[t]
          /\ cursor'[t] = cursor[t] /\ num_read'[t] = num_read[t]
      BY <1>2, <2>2 DEF RecvStep, RecvCall, Accept, NotPublished, RecvTimeout,
         BatchRead, MoveTo, MoveFrom, Read, Drop, DropCell, GotoR, EndReceive
    <3> QED
      BY <1>1, <3>1 DEF SameWait, sendvars
  <2> QED
    BY <2>1, <2>2
<1> QED
  BY <1>1, <1>3, ThreadsAssumption DEF SameWait, sendvars, Threads

\* Making a clone concerns nobody who waits.
LEMMA CloneTouches ==
  ASSUME TypeOK, NEW r \in Receivers, NEW q \in Receivers, Clone(r, q)
  PROVE  \A t \in Threads : SameWait(t)
<1>1. UNCHANGED sendvars
  BY DEF Clone
<1>2. /\ cursor \in [Receivers -> Nat \ {0}] /\ rpc \in [Receivers -> RecvPCs]
  BY DEF TypeOK
<1> QED
  BY <1>1, <1>2 DEF Clone, SameWait, sendvars
=============================================================================
