------------------------- MODULE NexusQBlockProofs -------------------------
(***************************************************************************)
(* The channel with sleeping threads implements the channel of NexusQ, so  *)
(* whatever holds of NexusQ holds with BlockStrategy and HybridWait, too.  *)
(* Listeners are exactly the threads that wait, and no wake-up is lost on  *)
(* a cell, nor on the head if senders only use send.                       *)
(***************************************************************************)
EXTENDS NexusQBlock, NexusQEventsProofs, NexusQRefinementProofs

\* A step with sleeping threads is a step of NexusQ or none at all.
LEMMA BStep == [BNext]_bvars => [Next]_vars
<1>1. ASSUME NEW t \in Threads, WaitStep(t) PROVE UNCHANGED vars
  BY <1>1 DEF WaitStep, Retest, Listen, Wake, Notify
<1>2. ASSUME NEW s \in Senders, BSendCall(s) \/ BSendStep(s)
      PROVE  [Next]_vars
  <2>1. CASE WaitStep(s)
    BY <1>1, <2>1 DEF Threads
  <2>2. CASE BLocal(s) \/ BTryTake(s) \/ BTake(s) \/ BTakeFails(s)
    BY <2>2 DEF BLocal, BTryTake, BTake, BTakeFails, Next, SendStep
  <2>3. CASE \/ BSendCall(s) \/ BAwaitCell(s) \/ BSendTimeout(s) \/ BRestore(s)
             \/ BPublish(s)
    BY <2>3 DEF BSendCall, BAwaitCell, BSendTimeout, BRestore, BPublish, Next,
                SendStep
  <2> QED
    BY <1>2, <2>1, <2>2, <2>3 DEF BSendStep
<1>3. ASSUME NEW r \in Receivers, BRecvCall(r) \/ BRecvStep(r) \/ BDrop(r)
      PROVE  [Next]_vars
  <2>1. CASE WaitStep(r)
    BY <1>1, <2>1 DEF Threads
  <2>2. CASE BAccept(r) \/ BNotPublished(r) \/ BRecvTimeout(r)
    BY <2>2 DEF BAccept, BNotPublished, BRecvTimeout, Next, RecvStep
  <2>3. CASE BRecvCall(r) \/ BReceive(r) \/ BRelease(r) \/ BDrop(r)
    BY <2>3 DEF BRecvCall, BReceive, BRelease, BDrop, Next, RecvStep
  <2> QED
    BY <1>3, <2>1, <2>2, <2>3 DEF BRecvStep
<1>4. ASSUME NEW r \in Receivers, NEW q \in Receivers, BClone(r, q)
      PROVE  [Next]_vars
  BY <1>4 DEF BClone, Next
<1>5. UNCHANGED bvars => UNCHANGED vars
  BY DEF bvars
<1> QED
  BY <1>2, <1>3, <1>4, <1>5 DEF BNext

(***************************************************************************)
(* Waiting on events, in every strategy, only delays the steps of NexusQ:  *)
(* listening, sleeping and notifying touch no cell, counter or token.      *)
(***************************************************************************)
THEOREM BlockImplements == BSpec => Spec
<1>1. BInit => Init
  BY DEF BInit
<1> QED
  BY <1>1, BStep, PTL DEF BSpec, Spec

(***************************************************************************)
(* With threads that sleep and are woken, receivers still obtain the       *)
(* messages in order, and no cell is read while it is written.             *)
(***************************************************************************)
THEOREM BlockSafe == BSpec => [](ReadsTheLog /\ NoReadWriteRace)
  BY BlockImplements, BroadcastCorrect, RaceFree, PTL

(***************************************************************************)
(* What callers of send and recv see is the abstract broadcast channel,    *)
(* however the threads sleep and are woken.                                *)
(***************************************************************************)
THEOREM BlockImplementsChannel == BSpec => ImplementsChannel
  BY BlockImplements, ChannelImplemented, PTL

-----------------------------------------------------------------------------
(* Who listens.                                                             *)

\* A thread listens to the event it waits for from listen() until it is woken,
\* gets through or gives up; a thread in no wait loop is in its first phase.
ListenInv ==
  /\ \A e \in Events, t \in Threads :
       t \in Registered(e) <=> /\ phase[t] \in {"armed", "parked"}
                               /\ EventOf(t) = e
  /\ \A t \in Threads : ~Looping(t) => phase[t] = Entry

BlockInv == /\ phase \in [Threads -> Phases]
            /\ EventsOK
            /\ ListenInv

\* A thread whose wait is left alone waits as before, for the same event.
LEMMA SameWaitForm ==
  ASSUME NEW t \in Threads, SameWait(t)
  PROVE  /\ Looping(t)' <=> Looping(t)
         /\ Looping(t) => EventOf(t)' = EventOf(t)
  BY ThreadsAssumption DEF SameWait, Threads, Looping, Waiting, EventOf, AtCell,
     CellOf

\* try_send does not wait for the token.
TryNeverWaits == \A s \in Senders : pc[s] = "await_token" => op[s] # "try_send"

\* What a step of thread a can do to listeners and events: nothing, except to
\* announce a notification; ...
Idle(a) == /\ ~Looping(a)
           /\ UNCHANGED <<queue, notified, phase>>
           /\ UNCHANGED pend \/ \E e \in Events : Owes(a, e)

\* ... leave the wait loop; ...
Left(a) == /\ Looping(a)
           /\ Unlisten(a, EventOf(a))
           /\ SetPhase(a, Entry)
           /\ UNCHANGED pend
           /\ EventOf(a) = HEAD =>
                \/ write_head' = TAKEN
                \/ op[a] \in {"try_send_before", "poll_ready"}

\* ... stay in it after a test that failed; or one of the steps of the wait.
Stayed(a) == /\ Looping(a) /\ Looping(a)' /\ EventOf(a)' = EventOf(a)
             /\ ~Ready(a)'
             /\ EventOf(a) = HEAD => write_head' = TAKEN
             /\ Stay(a)

Waited(a) == UNCHANGED vars /\ (Listen(a) \/ Wake(a) \/ Notify(a))

\* A thread that waits in a loop is a looping one, and its event exists.
LEMMA EventOfType ==
  ASSUME TypeOK, NEW t \in Threads
  PROVE  /\ EventOf(t) \in Events
         /\ t \in Receivers => EventOf(t) # HEAD
         /\ t \in Senders => (EventOf(t) # HEAD <=> AtCell(t))
<1>1. \A i \in Nat : fast_mod(i) \in Events /\ fast_mod(i) # HEAD
  BY EventSet, IndexType
<1>2. /\ t \in Senders => id[t] \in Nat
      /\ t \in Receivers => cursor[t] \in Nat
  BY DEF TypeOK
<1> QED
  BY <1>1, <1>2, EventSet, ThreadsAssumption DEF EventOf, CellOf, Threads

\* A sender's step is one of the four kinds.
LEMMA SenderKind ==
  ASSUME IInv, BlockInv, TryNeverWaits, NEW s \in Senders,
         BSendCall(s) \/ BSendStep(s)
  PROVE  Idle(s) \/ Left(s) \/ Stayed(s) \/ Waited(s)
<1>0. /\ s \in Threads /\ s \notin Receivers
      /\ pc \in [Senders -> SendPCs] /\ id \in [Senders -> Nat]
      /\ op \in [Senders -> AllSendOps \cup {"none"}]
  BY ThreadsAssumption DEF Threads, IInv, TypeOK
<1>1. CASE BSendCall(s)
  BY <1>0, <1>1 DEF BSendCall, SendCall, Quiet, Silent, eventvars, Idle,
     Looping, Waiting, Returned
<1>2. CASE BLocal(s)
  BY <1>0, <1>2 DEF BLocal, CheckDeadline, CheckConnected, CheckCell,
     CheckReceivers, Unwind, Write, Quiet, Silent, eventvars, Idle, Looping,
     Waiting
<1>3. CASE BTryTake(s)
  BY <1>0, <1>3 DEF BTryTake, Take, TakeFails, TryNeverWaits, Quiet, Silent,
     eventvars, Idle, Looping, Waiting
<1>4. CASE BTake(s)
  BY <1>0, <1>4 DEF BTake, Take, Leave, Left, Looping, Waiting
<1>5. CASE BTakeFails(s)
  <2>1. /\ Looping(s) /\ Looping(s)' /\ EventOf(s) = HEAD /\ EventOf(s)' = HEAD
        /\ write_head' = TAKEN
    BY <1>0, <1>5 DEF BTakeFails, TakeFails, Goto, Looping, Waiting, EventOf,
       AtCell
  <2>2. ~Ready(s)'
    BY <1>0, <1>5, <2>1 DEF BTakeFails, TakeFails, Goto, Ready, AtCell
  <2> QED
    BY <1>5, <2>1, <2>2 DEF BTakeFails, Stayed
<1>6. CASE BAwaitCell(s)
  <2>1. Looping(s) /\ EventOf(s) # HEAD
    BY <1>0, <1>6, EventOfType DEF BAwaitCell, AwaitCell, Looping, Waiting,
       AtCell, IInv
  <2> QED
    BY <1>6, <2>1 DEF BAwaitCell, Leave, Left
<1>7. CASE BSendTimeout(s)
  <2>1. /\ Looping(s)
        /\ EventOf(s) = HEAD => op[s] \in {"try_send_before", "poll_ready"}
    BY <1>0, <1>7, EventOfType DEF BSendTimeout, TakeTimeout, CellTimeout,
       Looping, Waiting, AtCell, IInv
  <2> QED
    BY <1>7, <2>1 DEF BSendTimeout, GiveUp, Left
<1>8. CASE BRestore(s) \/ BPublish(s)
  <2>1. ~Looping(s)
    BY <1>0, <1>8 DEF BRestore, BPublish, Restore, Publish, Looping, Waiting
  <2>2. CellOf(s) \in Events /\ HEAD \in Events
    BY <1>0, EventSet DEF CellOf
  <2> QED
    BY <1>8, <2>1, <2>2 DEF BRestore, BPublish, Owes, Idle
<1>9. CASE WaitStep(s)
  <2>1. CASE Retest(s)
    <3>1. Looping(s)' /\ EventOf(s)' = EventOf(s) /\ ~Ready(s)' /\ Looping(s)
      BY <2>1 DEF Retest, vars, sendvars, recvvars, cells, Looping, Waiting,
         EventOf, Ready, AtCell, CellOf, CellFree, Published, NextId
    <3>2. EventOf(s) = HEAD => write_head' = TAKEN
      BY <1>0, <2>1, EventOfType DEF Retest, vars, Ready, IInv
    <3> QED
      BY <2>1, <3>1, <3>2 DEF Retest, Stayed
  <2> QED
    BY <1>9, <2>1 DEF WaitStep, Waited, Listen, Wake, Notify
<1> QED
  BY <1>1, <1>2, <1>3, <1>4, <1>5, <1>6, <1>7, <1>8, <1>9 DEF BSendStep

\* And a receiver's.
LEMMA ReceiverKind ==
  ASSUME IInv, BlockInv, NEW r \in Receivers,
         BRecvCall(r) \/ BRecvStep(r) \/ BDrop(r)
  PROVE  Idle(r) \/ Left(r) \/ Stayed(r) \/ Waited(r)
<1>0. /\ r \in Threads /\ r \notin Senders /\ EventOf(r) # HEAD
      /\ rpc \in [Receivers -> RecvPCs]
      /\ rop \in [Receivers -> AllRecvOps \cup {"none"}]
      /\ previous_cell_index \in [Receivers -> Cells]
  BY ThreadsAssumption, EventOfType DEF Threads, IInv, TypeOK
<1>1. CASE BRecvCall(r) \/ BDrop(r)
  BY <1>0, <1>1 DEF BRecvCall, RecvCall, BDrop, Drop, Quiet, Silent, eventvars,
     Idle, Looping, Waiting
<1>2. CASE BReceive(r)
  BY <1>0, <1>2 DEF BReceive, BatchRead, MoveTo, Read, CloneCount, Quiet,
     Silent, eventvars, Idle, Looping, Waiting
<1>3. CASE BRelease(r)
  <2>1. ~Looping(r) /\ previous_cell_index[r] \in Events
    BY <1>0, <1>3 DEF BRelease, MoveFrom, DropCell, Looping, Waiting, Events
  <2> QED
    BY <1>3, <2>1 DEF BRelease, OwesIfLast, Owes, Silent, eventvars, Idle
<1>4. CASE BAccept(r)
  <2>1. CASE Looping(r)
    BY <1>0, <1>4, <2>1 DEF BAccept, Leave, Left
  <2>2. CASE ~Looping(r)
    BY <1>4, <2>2 DEF BAccept, Quiet, Silent, eventvars, Idle
  <2> QED
    BY <2>1, <2>2
<1>5. CASE BNotPublished(r)
  <2>1. CASE Looping(r)
    <3>1. /\ rpc'[r] = "await" /\ ~Published(r)
          /\ UNCHANGED <<cursor, num_read, cells>>
      BY <1>0, <1>5, <2>1 DEF BNotPublished, NotPublished, GotoR, Looping,
         Waiting
    <3>2. Looping(r)' /\ EventOf(r)' = EventOf(r) /\ ~Ready(r)'
      BY <1>0, <3>1 DEF Looping, Waiting, EventOf, Ready, Published, NextId,
         cells
    <3> QED
      BY <1>0, <1>5, <2>1, <3>2 DEF BNotPublished, Stayed
  <2>2. CASE ~Looping(r)
    BY <1>5, <2>2 DEF BNotPublished, Quiet, Silent, eventvars, Idle
  <2> QED
    BY <2>1, <2>2
<1>6. CASE BRecvTimeout(r)
  BY <1>0, <1>6 DEF BRecvTimeout, RecvTimeout, GiveUp, Left, Looping, Waiting
<1>7. CASE WaitStep(r)
  <2>1. CASE Retest(r)
    <3>1. Looping(r)' /\ EventOf(r)' = EventOf(r) /\ ~Ready(r)' /\ Looping(r)
      BY <2>1 DEF Retest, vars, sendvars, recvvars, cells, Looping, Waiting,
         EventOf, Ready, AtCell, CellOf, CellFree, Published, NextId
    <3> QED
      BY <1>0, <2>1, <3>1 DEF Retest, Stayed
  <2> QED
    BY <1>7, <2>1 DEF WaitStep, Waited, Listen, Wake, Notify
<1> QED
  BY <1>1, <1>2, <1>3, <1>4, <1>5, <1>6, <1>7 DEF BRecvStep

\* Every step is of one of these kinds, for one thread, and concerns no other.
LEMMA StepKind ==
  ASSUME IInv, BlockInv, TryNeverWaits, BNext
  PROVE  \E a \in Threads : /\ \A t \in Threads \ {a} : SameWait(t)
                            /\ Idle(a) \/ Left(a) \/ Stayed(a) \/ Waited(a)
<1>0. TypeOK /\ CloneInv
  BY DEF IInv
<1>a. ASSUME NEW a \in Threads, UNCHANGED vars
      PROVE  \A t \in Threads \ {a} : SameWait(t)
  BY <1>a DEF vars, sendvars, recvvars, SameWait
<1>1. ASSUME NEW s \in Senders, BSendCall(s) \/ BSendStep(s)
      PROVE  \A t \in Threads \ {s} : SameWait(t)
  <2>1. SendCall(s) \/ SendStep(s) \/ UNCHANGED vars
    BY <1>1 DEF BSendCall, BSendStep, BLocal, BTryTake, BTake, BTakeFails,
       BAwaitCell, BSendTimeout, BRestore, BPublish, WaitStep, Retest, Listen,
       Wake, Notify, SendStep
  <2> QED
    BY <1>0, <1>a, <2>1, SenderTouches DEF Threads
<1>2. ASSUME NEW r \in Receivers, BRecvCall(r) \/ BRecvStep(r) \/ BDrop(r)
      PROVE  \A t \in Threads \ {r} : SameWait(t)
  <2>1. RecvCall(r) \/ RecvStep(r) \/ Drop(r) \/ UNCHANGED vars
    BY <1>2 DEF BRecvCall, BRecvStep, BDrop, BAccept, BNotPublished,
       BRecvTimeout, BReceive, BRelease, WaitStep, Retest, Listen, Wake, Notify,
       RecvStep
  <2> QED
    BY <1>0, <1>a, <2>1, ReceiverTouches DEF Threads
<1>3. ASSUME NEW r \in Receivers, NEW q \in Receivers, BClone(r, q)
      PROVE  Idle(r) /\ \A t \in Threads : SameWait(t)
  BY <1>0, <1>3, CloneTouches, ThreadsAssumption DEF BClone, Clone, Quiet,
     Silent, eventvars, Idle, Looping, Waiting
<1> QED
  BY <1>1, <1>2, <1>3, SenderKind, ReceiverKind DEF BNext, Threads

\* The threads that did not take the step listen as before.
LEMMA OthersListen ==
  ASSUME BlockInv, NEW t \in Threads, SameWait(t), phase'[t] = phase[t],
         \A e \in Events : t \in Registered(e)' <=> t \in Registered(e)
  PROVE  /\ \A e \in Events : t \in Registered(e)' <=>
                                /\ phase'[t] \in {"armed", "parked"}
                                /\ EventOf(t)' = e
         /\ ~Looping(t)' => phase'[t] = Entry
<1>1. phase[t] \in {"armed", "parked"} => Looping(t)
  BY DEF BlockInv, ListenInv, Entry
<1> QED
  BY <1>1, SameWaitForm DEF BlockInv, ListenInv

\* Steps of every kind keep listeners and events in agreement.
LEMMA BlockInvStep ==
  ASSUME TypeOK, BlockInv, NEW a \in Threads,
         \A t \in Threads \ {a} : SameWait(t),
         Idle(a) \/ Left(a) \/ Stayed(a) \/ Waited(a)
  PROVE  BlockInv'
<1>0. /\ phase \in [Threads -> Phases] /\ EventsOK /\ EventOf(a) \in Events
      /\ Entry \in Phases /\ Entry \notin {"armed", "parked"}
  BY EventOfType DEF BlockInv, Entry, Phases
<1>1. SUFFICES
        /\ phase' \in [Threads -> Phases] /\ EventsOK'
        /\ \A t \in Threads \ {a} :
             /\ phase'[t] = phase[t]
             /\ \A e \in Events : t \in Registered(e)' <=> t \in Registered(e)
        /\ \A e \in Events : a \in Registered(e)' <=>
                               /\ phase'[a] \in {"armed", "parked"}
                               /\ EventOf(a)' = e
        /\ ~Looping(a)' => phase'[a] = Entry
  <2>1. ASSUME NEW t \in Threads \ {a}, phase'[t] = phase[t],
               \A e \in Events : t \in Registered(e)' <=> t \in Registered(e)
        PROVE  /\ \A e \in Events : t \in Registered(e)' <=>
                                      /\ phase'[t] \in {"armed", "parked"}
                                      /\ EventOf(t)' = e
               /\ ~Looping(t)' => phase'[t] = Entry
    BY <2>1, OthersListen
  <2> QED
    BY <1>1, <2>1 DEF BlockInv, ListenInv
<1>2. \A e \in Events : a \in Registered(e) <=>
                          phase[a] \in {"armed", "parked"} /\ EventOf(a) = e
  BY DEF BlockInv, ListenInv
<1>3. CASE Idle(a)
  <2>1. phase[a] = Entry /\ phase' = phase
    BY <1>3 DEF Idle, BlockInv, ListenInv
  <2>2. queue' = queue /\ notified' = notified
    BY <1>3 DEF Idle
  <2>3. \A e \in Events : Registered(e)' = Registered(e)
    BY <2>2 DEF Registered
  <2>4. pend' \in [Threads -> Events \cup {NONE}]
    BY <1>0, <1>3 DEF Idle, Owes, EventsOK, EventsTypeOK
  <2>5. EventsOK'
    BY <1>0, <2>2, <2>4 DEF EventsOK, EventsTypeOK
  <2> QED
    BY <1>0, <1>2, <2>1, <2>3, <2>5
<1>4. CASE Left(a)
  <2>1. PICK e \in Events : e = EventOf(a)
    BY <1>0
  <2>2. /\ EventsOK' /\ Registered(e)' = Registered(e) \ {a}
        /\ \A f \in Events \ {e} : Registered(f)' = Registered(f)
    BY <1>0, <1>4, <2>1, UnlistenForm DEF Left
  <2>3. phase' = [phase EXCEPT ![a] = Entry]
    BY <1>4 DEF Left, SetPhase
  <2> QED
    BY <1>0, <1>2, <2>1, <2>2, <2>3
<1>5. CASE Stayed(a)
  <2>1. /\ Looping(a)' /\ EventOf(a)' = EventOf(a)
        /\ UNCHANGED <<queue, notified, pend>>
    BY <1>5 DEF Stayed, Stay, eventvars
  <2>2. /\ phase' \in [Threads -> Phases]
        /\ \A t \in Threads \ {a} : phase'[t] = phase[t]
        /\     phase'[a] \in {"armed", "parked"}
           <=> phase[a] \in {"armed", "parked"}
    BY <1>0, <1>5 DEF Stayed, Stay, SetPhase, Phases
  <2>3. EventsOK' /\ \A e \in Events : Registered(e)' = Registered(e)
    BY <1>0, <2>1 DEF EventsOK, EventsTypeOK, Registered
  <2> QED
    BY <1>2, <2>1, <2>2, <2>3
<1>6. CASE Waited(a)
  <2>0. EventOf(a)' = EventOf(a) /\ (Looping(a)' <=> Looping(a))
    BY <1>6 DEF Waited, vars, sendvars, recvvars, Looping, Waiting, EventOf,
       AtCell, CellOf
  <2>a. PICK e \in Events : e = EventOf(a)
    BY <1>0
  <2>1. CASE Listen(a)
    <3>1. a \notin Registered(e)
      BY <1>2, <2>1 DEF Listen
    <3>2. /\ queue' = [queue EXCEPT ![e] = Append(@, a)]
          /\ UNCHANGED <<notified, pend>>
          /\ phase' = [phase EXCEPT ![a] = "armed"] /\ Looping(a)
      BY <2>1, <2>a DEF Listen, SetPhase
    <3>3. /\ EventsOK' /\ Registered(e)' = Registered(e) \cup {a}
          /\ \A f \in Events \ {e} : Registered(f)' = Registered(f)
      BY <1>0, <3>1, <3>2, ListenForm
    <3>4. phase' \in [Threads -> Phases]
      BY <1>0, <3>2 DEF Phases
    <3> QED
      BY <1>0, <1>2, <2>0, <2>a, <3>2, <3>3, <3>4
  <2>2. CASE Wake(a)
    <3>1. /\ notified' = [notified EXCEPT ![e] = @ \ {a}] /\ a \in notified[e]
          /\ phase' = [phase EXCEPT ![a] = "woken"] /\ phase[a] = "parked"
          /\ UNCHANGED <<queue, pend>>
      BY <2>2, <2>a DEF Wake, SetPhase
    <3>2. Looping(a)
      BY <3>1 DEF BlockInv, ListenInv, Entry
    <3>3. EventsOK'
      BY <1>0, <3>1 DEF EventsOK, EventsTypeOK
    <3>4. \A f \in Events : Registered(f)' =
            IF f = e THEN Registered(f) \ {a} ELSE Registered(f)
      BY <1>0, <3>1 DEF EventsOK, EventsTypeOK, Registered
    <3>5. phase' \in [Threads -> Phases]
      BY <1>0, <3>1 DEF Phases
    <3> QED
      BY <1>0, <1>2, <2>0, <2>a, <3>1, <3>2, <3>3, <3>4, <3>5
  <2>3. CASE Notify(a)
    <3>1. phase' = phase /\ SendNotification(a)
      BY <2>3 DEF Notify
    <3>2. EventsOK' /\ \A f \in Events : Registered(f)' = Registered(f)
      BY <1>0, <3>1, NotifyForm
    <3>3. ~Looping(a) => phase[a] = Entry
      BY DEF BlockInv, ListenInv
    <3> QED
      BY <1>0, <1>2, <2>0, <3>1, <3>2, <3>3
  <2> QED
    BY <1>6, <2>1, <2>2, <2>3 DEF Waited
<1> QED
  BY <1>3, <1>4, <1>5, <1>6

\* BlockInv reads only variables of the specification.
LEMMA BlockInvStutter == BlockInv /\ UNCHANGED bvars => BlockInv'
  BY DEF BlockInv, EventsOK, EventsTypeOK, ListenInv, Registered, Members,
     Distinct, Looping, Waiting, EventOf, AtCell, CellOf, bvars, vars, sendvars,
     recvvars, eventvars

\* try_send never waits for the token.
LEMMA TryInductive == Spec => []TryNeverWaits
<1>1. Init => TryNeverWaits
  BY DEF Init, TryNeverWaits
<1>2. IInv /\ TryNeverWaits /\ [Next]_vars => TryNeverWaits'
  <2> SUFFICES ASSUME IInv, TryNeverWaits, [Next]_vars PROVE TryNeverWaits'
    OBVIOUS
  <2>0. /\ pc \in [Senders -> SendPCs]
        /\ op \in [Senders -> AllSendOps \cup {"none"}]
    BY DEF IInv, TypeOK
  <2>1. ASSUME NEW s \in Senders, SendCall(s) PROVE TryNeverWaits'
    <3>1. PICK o \in SendOps : /\ pc' = [pc EXCEPT ![s] = EntryOf[o]]
                               /\ op' = [op EXCEPT ![s] = o]
      BY <2>1 DEF SendCall
    <3>2. EntryOf[o] \in {"take", "check_connected", "check_deadline"}
      BY OpsAssumption DEF EntryOf, AllSendOps
    <3> QED
      BY <2>0, <3>1, <3>2 DEF TryNeverWaits
  <2>2. ASSUME NEW s \in Senders, SendStep(s) PROVE TryNeverWaits'
    BY <2>0, <2>2 DEF TryNeverWaits, SendStep, CheckDeadline, CheckConnected,
       Take, TakeFails, TakeTimeout, CheckCell, AwaitCell, CellTimeout,
       CheckReceivers, PollDisconnected, Unwind, Restore, Write, Publish, Goto,
       Return
  <2>3. CASE ReceiverNext \/ UNCHANGED vars
    BY <2>3, ReceiverFrame DEF vars, sendvars, TryNeverWaits
  <2> QED
    BY <2>1, <2>2, <2>3, NextSplit DEF SenderNext
<1> QED
  BY <1>1, <1>2, Inductive, PTL DEF Spec

(***************************************************************************)
(* Listeners and events agree in every reachable state, for BlockStrategy  *)
(* and for HybridWait.                                                     *)
(***************************************************************************)
THEOREM BlockInductive == BSpec => [](IInv /\ TryNeverWaits /\ BlockInv)
<1>1. BInit => BlockInv
  <2> SUFFICES ASSUME BInit PROVE BlockInv
    OBVIOUS
  <2>1. /\ queue = [e \in Events |-> <<>>] /\ notified = [e \in Events |-> {}]
        /\ pend = [t \in Threads |-> NONE] /\ phase = [t \in Threads |-> Entry]
    BY DEF BInit, EventsInit
  <2>2. \A e \in Events : Registered(e) = {}
    BY <2>1, EmptyQueue DEF Registered
  <2>3. EventsOK
    BY <2>1, EmptyQueue DEF EventsOK, EventsTypeOK
  <2> QED
    BY <2>1, <2>2, <2>3 DEF BlockInv, ListenInv, Entry, Phases
<1>2. IInv /\ TryNeverWaits /\ BlockInv /\ [BNext]_bvars => BlockInv'
  BY StepKind, BlockInvStep, BlockInvStutter DEF IInv
<1> QED
  BY <1>1, <1>2, BlockImplements, Inductive, TryInductive, PTL DEF BSpec

(***************************************************************************)
(* Every variable of the channel with sleeping threads keeps its type.     *)
(***************************************************************************)
THEOREM BlockTypeCorrect == BSpec => []BTypeOK
<1>1. IInv /\ BlockInv => BTypeOK
  BY DEF IInv, BlockInv, EventsOK, BTypeOK
<1> QED
  BY <1>1, BlockInductive, PTL

(***************************************************************************)
(* The events know exactly the threads that listen, whatever was notified, *)
(* woken, timed out or tested in vain.                                     *)
(***************************************************************************)
THEOREM ListenersCorrect == BSpec => []ListenersExact
<1>1. IInv /\ BlockInv => ListenersExact
  <2> SUFFICES ASSUME BlockInv, NEW e \in Events, NEW t \in Threads
               PROVE  Cardinality({i \in DOMAIN queue[e] : queue[e][i] = t})
                        + Cardinality(notified[e] \cap {t})
                      = IF /\ phase[t] \in {"armed", "parked"}
                           /\ EventOf(t) = e THEN 1 ELSE 0
    BY DEF ListenersExact
  <2> DEFINE At == {i \in DOMAIN queue[e] : queue[e][i] = t}
  <2>1. /\ Distinct(queue[e]) /\ Members(queue[e]) \cap notified[e] = {}
        /\ t \in Registered(e) <=> /\ phase[t] \in {"armed", "parked"}
                                   /\ EventOf(t) = e
    BY DEF BlockInv, EventsOK, ListenInv
  <2>2. CASE t \in Members(queue[e])
    <3>1. PICK i \in DOMAIN queue[e] : queue[e][i] = t
      BY <2>2 DEF Members
    <3>2. At = {i}
      BY <2>1, <3>1 DEF Distinct
    <3>3. notified[e] \cap {t} = {} /\ t \in Registered(e)
      BY <2>1, <2>2 DEF Registered
    <3>4. Cardinality({i}) = 1 /\ Cardinality({}) = 0
      BY FS_Singleton, FS_EmptySet
    <3> QED
      BY <2>1, <3>2, <3>3, <3>4
  <2>3. CASE t \notin Members(queue[e])
    <3>1. At = {}
      BY <2>3 DEF Members
    <3>2. CASE t \in notified[e]
      <4>1. notified[e] \cap {t} = {t} /\ t \in Registered(e)
        BY <3>2 DEF Registered
      <4>2. Cardinality({t}) = 1 /\ Cardinality({}) = 0
        BY FS_Singleton, FS_EmptySet
      <4> QED
        BY <2>1, <3>1, <4>1, <4>2
    <3>3. CASE t \notin notified[e]
      <4>1. notified[e] \cap {t} = {} /\ t \notin Registered(e)
        BY <2>3, <3>3 DEF Registered
      <4>2. Cardinality({}) = 0
        BY FS_EmptySet
      <4> QED
        BY <2>1, <3>1, <4>1, <4>2
    <3> QED
      BY <3>2, <3>3
  <2> QED
    BY <2>2, <2>3
<1> QED
  BY <1>1, BlockInductive, PTL

-----------------------------------------------------------------------------
(* No wake-up is lost on a cell.                                            *)

\* A counter reaches zero only by the step of a receiver that goes on to
\* notify the cell.
LEMMA ReleaseIsOwed ==
  ASSUME IInv, BlockInv, BNext, NEW c \in Cells,
         read_counter[c] # 0, read_counter'[c] = 0
  PROVE  \E u \in Threads : pend'[u] = c
<1>0. /\ read_counter \in [Cells -> Nat]
      /\ previous_cell_index \in [Receivers -> Cells]
      /\ pend \in [Threads -> Events \cup {NONE}]
  BY DEF IInv, TypeOK, BlockInv, EventsOK, EventsTypeOK
<1>1. ASSUME NEW s \in Senders, BSendCall(s) \/ BSendStep(s) PROVE FALSE
  <2>1. SendCall(s) \/ SendStep(s) \/ UNCHANGED vars
    BY <1>1 DEF BSendCall, BSendStep, BLocal, BTryTake, BTake, BTakeFails,
       BAwaitCell, BSendTimeout, BRestore, BPublish, WaitStep, Retest, Listen,
       Wake, Notify, SendStep
  <2> QED
    BY <2>1, SenderFrame DEF SenderNext, vars, cells
<1>2. ASSUME NEW r \in Receivers, BRecvCall(r) \/ BRecvStep(r) \/ BDrop(r)
      PROVE  BRelease(r)
  <2>1. CASE MoveTo(r)
    BY <1>0, <2>1 DEF MoveTo
  <2>2. CASE \/ RecvCall(r) \/ Drop(r) \/ Accept(r) \/ NotPublished(r)
             \/ RecvTimeout(r) \/ BatchRead(r) \/ Read(r) \/ CloneCount(r)
             \/ UNCHANGED vars
    BY <2>2 DEF RecvCall, Drop, Accept, NotPublished, RecvTimeout, BatchRead,
       Read, CloneCount, vars, cells
  <2> QED
    BY <1>2, <2>1, <2>2 DEF BRecvCall, BDrop, BRecvStep, BAccept,
       BNotPublished, BRecvTimeout, BReceive, WaitStep, Retest, Listen, Wake,
       Notify
<1>3. ASSUME NEW r \in Receivers, BRelease(r) PROVE pend'[r] = c
  <2>1. /\ read_counter' =
             [read_counter EXCEPT ![previous_cell_index[r]] = @ - 1]
        /\ OwesIfLast(r)
    BY <1>3 DEF BRelease, MoveFrom, DropCell
  <2>2. previous_cell_index[r] = c /\ read_counter[c] = 1
    BY <1>0, <2>1
  <2> QED
    BY <1>0, <2>1, <2>2 DEF OwesIfLast, Owes, Threads
<1>4. ASSUME NEW r \in Receivers, NEW q \in Receivers, BClone(r, q)
      PROVE  FALSE
  BY <1>0, <1>4 DEF BClone, Clone
<1> QED
  BY <1>1, <1>2, <1>3, <1>4 DEF BNext, Threads

\* A cell is given a new id only by the step of a sender that goes on to
\* notify it.
LEMMA PublishIsOwed ==
  ASSUME IInv, BlockInv, BNext, NEW c \in Cells,
         current_id'[c] # current_id[c]
  PROVE  \E u \in Threads : pend'[u] = c
<1>0. /\ current_id \in [Cells -> Nat \cup {MAX}]
      /\ pend \in [Threads -> Events \cup {NONE}]
  BY DEF IInv, TypeOK, BlockInv, EventsOK, EventsTypeOK
<1>1. ASSUME NEW s \in Senders, BSendCall(s) \/ BSendStep(s)
      PROVE  BPublish(s)
  <2>1. CASE Restore(s) \/ Write(s)
    BY <2>1 DEF Restore, Write, cells
  <2>2. CASE OutsideStep(s) \/ UNCHANGED vars
    BY <2>2, OutsideStepForm DEF IInv, vars, cells
  <2> QED
    BY <1>1, <2>1, <2>2 DEF BSendCall, BSendStep, BLocal, BTryTake, BTake,
       BTakeFails, BAwaitCell, BSendTimeout, BRestore, WaitStep, Retest, Listen,
       Wake, Notify, OutsideStep, LocalStep
<1>2. ASSUME NEW s \in Senders, BPublish(s) PROVE pend'[s] = c
  <2>1. CellOf(s) = c
    BY <1>0, <1>2 DEF BPublish, Publish
  <2> QED
    BY <1>0, <1>2, <2>1 DEF BPublish, Owes, Threads
<1>3. ASSUME ReceiverNext \/ UNCHANGED vars PROVE FALSE
  BY <1>3, ReceiverFrame DEF vars, cells
<1>4. ASSUME NEW r \in Receivers, BRecvCall(r) \/ BRecvStep(r) \/ BDrop(r)
      PROVE  ReceiverNext \/ UNCHANGED vars
  BY <1>4 DEF BRecvCall, BRecvStep, BDrop, BAccept, BNotPublished,
     BRecvTimeout, BReceive, BRelease, WaitStep, Retest, Listen, Wake, Notify,
     ReceiverNext, RecvStep
<1>5. ASSUME NEW r \in Receivers, NEW q \in Receivers, BClone(r, q)
      PROVE  ReceiverNext
  BY <1>5 DEF BClone, ReceiverNext
<1> QED
  BY <1>1, <1>2, <1>3, <1>4, <1>5 DEF BNext, Threads

\* So a thread that waits for a cell finds its condition made true only by a
\* step that goes on to notify the event of that cell.
LEMMA ReadyIsOwed ==
  ASSUME IInv, BlockInv, BNext, NEW t \in Threads, SameWait(t), Looping(t),
         EventOf(t) # HEAD, ~Ready(t), Ready(t)'
  PROVE  \E u \in Threads : pend'[u] = EventOf(t)
<1>1. CASE t \in Senders
  <2>1. /\ AtCell(t) /\ AtCell(t)' /\ EventOf(t) = CellOf(t)
        /\ CellOf(t)' = CellOf(t)
    BY <1>1, EventOfType DEF IInv, AtCell, SameWait, EventOf, CellOf
  <2>2. CellOf(t) \in Cells
    BY <1>1, IndexType DEF CellOf, IInv, TypeOK
  <2>3. read_counter[CellOf(t)] # 0 /\ read_counter'[CellOf(t)] = 0
    BY <1>1, <2>1 DEF Ready, CellFree
  <2> QED
    BY <2>1, <2>2, <2>3, ReleaseIsOwed
<1>2. CASE t \in Receivers
  <2>1. t \notin Senders /\ rpc[t] \in {"check", "await"} /\ num_read[t] = 0
        /\ cursor[t] \in Nat
    BY <1>2, ThreadsAssumption DEF Looping, Waiting, IInv, TypeOK, HandleInv
  <2>2. cursor'[t] = cursor[t] /\ num_read'[t] = num_read[t]
    BY <1>2, <2>1 DEF SameWait
  <2>3. NextId(t) = cursor[t] /\ NextId(t)' = cursor[t]
    BY <2>1, <2>2 DEF NextId
  <2>4. EventOf(t) = fast_mod(cursor[t]) /\ fast_mod(cursor[t]) \in Cells
    BY <2>1, IndexType DEF EventOf
  <2>5. current_id'[fast_mod(cursor[t])] # current_id[fast_mod(cursor[t])]
    BY <2>1, <2>2, <2>3 DEF Ready, Published
  <2> QED
    BY <2>4, <2>5, PublishIsOwed
<1> QED
  BY <1>1, <1>2 DEF Threads

\* A notification that is due is sent and not forgotten.
LEMMA PendingKept ==
  ASSUME BlockInv, NEW a \in Threads,
         Idle(a) \/ Left(a) \/ Stayed(a) \/ Waited(a),
         NEW u \in Threads, pend[u] # NONE
  PROVE  pend'[u] = pend[u] \/ (u = a /\ Notify(a))
<1>1. pend \in [Threads -> Events \cup {NONE}]
  BY DEF BlockInv, EventsOK, EventsTypeOK
<1> QED
  BY <1>1 DEF Idle, Owes, Left, Stayed, Stay, eventvars, Waited, Listen, Wake,
     Notify, SendNotification

\* A thread falls asleep only after a test that failed, and is then on its own
\* until it is notified.
LEMMA AsleepStep ==
  ASSUME TypeOK, BlockInv, NEW a \in Threads,
         \A t \in Threads \ {a} : SameWait(t),
         Idle(a) \/ Left(a) \/ Stayed(a) \/ Waited(a),
         NEW t \in Threads, Asleep(t)', Ready(t)'
  PROVE  /\ Asleep(t) /\ EventOf(t)' = EventOf(t) /\ Looping(t)
         /\ SameWait(t)
         /\ t \in Registered(EventOf(t))
<1>0. /\ phase \in [Threads -> Phases] /\ EventsOK /\ EventOf(a) \in Events
      /\ EventOf(t) \in Events
      /\ \A u \in Threads : phase[u] = "parked" => Looping(u)
  BY EventOfType DEF BlockInv, ListenInv, Entry
<1>1. CASE t # a
  <2>1. SameWait(t)
    BY <1>1
  <2>2. phase'[t] = phase[t]
    BY <1>0, <1>1 DEF Idle, Left, Stayed, Stay, Waited, Listen, Wake, Notify,
       SetPhase
  <2>3. phase[t] = "parked" /\ Looping(t) /\ EventOf(t)' = EventOf(t)
    BY <1>0, <2>1, <2>2, SameWaitForm DEF Asleep
  <2>4. PICK e \in Events : e = EventOf(t)
    BY <1>0
  <2>5. notified[e] \ {a} \subseteq notified'[e]
    <3>1. CASE Left(a)
      <4>1. PICK f \in Events : f = EventOf(a)
        BY <1>0
      <4>2. /\ notified[f] \ {a} \subseteq notified'[f]
            /\ \A g \in Events \ {f} : notified'[g] = notified[g]
        BY <1>0, <3>1, <4>1, UnlistenForm DEF Left
      <4> QED
        BY <4>2
    <3>2. CASE Notify(a)
      BY <1>0, <3>2, NotifyForm DEF Notify
    <3>3. CASE Idle(a) \/ Stayed(a) \/ Listen(a)
      BY <3>3 DEF Idle, Stayed, Stay, eventvars, Listen
    <3>4. CASE Wake(a)
      BY <1>0, <3>4 DEF Wake, EventsOK, EventsTypeOK
    <3> QED
      BY <3>1, <3>2, <3>3, <3>4 DEF Waited
  <2>6. Asleep(t)
    BY <1>1, <2>3, <2>4, <2>5 DEF Asleep
  <2> QED
    BY <1>0, <2>1, <2>3, <2>6 DEF BlockInv, ListenInv
<1>2. CASE t = a
  <2>1. CASE Idle(a)
    BY <1>2, <2>1 DEF Idle, BlockInv, ListenInv, Asleep, Entry
  <2>2. CASE Left(a)
    BY <1>0, <1>2, <2>2 DEF Left, SetPhase, Asleep, Entry
  <2>3. CASE Stayed(a)
    BY <1>2, <2>3 DEF Stayed
  <2>4. CASE Listen(a) \/ Wake(a)
    BY <1>0, <1>2, <2>4 DEF Listen, Wake, SetPhase, Asleep
  <2>5. CASE Notify(a)
    <3>1. UNCHANGED <<vars, phase>> /\ SendNotification(a)
      BY <2>5 DEF Notify
    <3>2. EventOf(a)' = EventOf(a) /\ SameWait(a)
      BY <3>1 DEF vars, sendvars, recvvars, EventOf, AtCell, CellOf, SameWait
    <3>3. \A f \in Events : notified[f] \subseteq notified'[f]
      BY <1>0, <3>1, NotifyForm
    <3>4. Asleep(a) /\ Looping(a)
      BY <1>0, <1>2, <3>1, <3>2, <3>3 DEF Asleep
    <3> QED
      BY <1>0, <1>2, <3>2, <3>4 DEF Asleep, BlockInv, ListenInv
  <2> QED
    BY <2>1, <2>2, <2>3, <2>4, <2>5 DEF Waited
<1> QED
  BY <1>1, <1>2

(***************************************************************************)
(* No wake-up is lost on a cell, by any strategy and in any mix of calls.  *)
(***************************************************************************)
THEOREM CellWakeupCorrect == BSpec => []CellWakeup
<1>1. BInit => CellWakeup
  BY DEF BInit, CellWakeup, Asleep, Entry
<1>2. ASSUME IInv, TryNeverWaits, BlockInv, CellWakeup, BNext
      PROVE  CellWakeup'
  <2> SUFFICES ASSUME NEW t \in Threads,
                      Asleep(t)', EventOf(t)' # HEAD, Ready(t)'
               PROVE  \E u \in Threads : pend'[u] = EventOf(t)'
    BY DEF CellWakeup
  <2>1. PICK a \in Threads :
          /\ \A u \in Threads \ {a} : SameWait(u)
          /\ Idle(a) \/ Left(a) \/ Stayed(a) \/ Waited(a)
    BY <1>2, StepKind
  <2>2. /\ Asleep(t) /\ EventOf(t)' = EventOf(t) /\ Looping(t) /\ SameWait(t)
        /\ t \in Registered(EventOf(t))
    BY <1>2, <2>1, AsleepStep DEF IInv
  <2>3. CASE ~Ready(t)
    BY <1>2, <2>2, <2>3, ReadyIsOwed
  <2>4. CASE Ready(t)
    <3>1. PICK u \in Threads : pend[u] = EventOf(t)
      BY <1>2, <2>2, <2>4 DEF CellWakeup
    <3>2. pend[u] # NONE
      BY <1>2, <3>1, EventOfType, EventSet DEF IInv
    <3>3. CASE pend'[u] = pend[u]
      BY <2>2, <3>1, <3>3
    <3>4. CASE u = a /\ Notify(a)
      <4>1. PICK e \in Events : e = EventOf(t)
        BY <1>2, EventOfType DEF IInv
      <4>2. notified'[e] = Registered(e)
        BY <1>2, <2>2, <3>1, <3>4, <4>1, NotifyForm DEF Notify, BlockInv
      <4> QED
        BY <2>2, <4>1, <4>2 DEF Asleep
    <3> QED
      BY <1>2, <2>1, <3>2, <3>3, <3>4, PendingKept
  <2> QED
    BY <2>3, <2>4
<1>3. CellWakeup /\ UNCHANGED bvars => CellWakeup'
  BY DEF CellWakeup, Asleep, EventOf, AtCell, CellOf, Ready, CellFree,
     Published, NextId, bvars, vars, cells, sendvars, recvvars, eventvars
<1> QED
  BY <1>1, <1>2, <1>3, BlockInductive, PTL DEF BSpec

-----------------------------------------------------------------------------
(* No wake-up is lost on the write head, with send alone.                   *)

\* Senders that only use send neither give up nor put an id back.
SendOnly == \A s \in Senders : op[s] \in {"send", "none"} /\ pc[s] # "unwind"

\* They never do.
LEMMA SendOnlyInductive ==
  ASSUME SendOps \subseteq {"send"}
  PROVE  Spec => []SendOnly
<1>1. Init => SendOnly
  BY DEF Init, SendOnly
<1>2. IInv /\ SendOnly /\ [Next]_vars => SendOnly'
  <2> SUFFICES ASSUME IInv, SendOnly, [Next]_vars PROVE SendOnly'
    OBVIOUS
  <2>0. /\ pc \in [Senders -> SendPCs]
        /\ op \in [Senders -> AllSendOps \cup {"none"}]
    BY DEF IInv, TypeOK
  <2>1. ASSUME NEW s \in Senders, SendCall(s) PROVE SendOnly'
    <3>1. PICK o \in SendOps : /\ pc' = [pc EXCEPT ![s] = EntryOf[o]]
                               /\ op' = [op EXCEPT ![s] = o]
      BY <2>1 DEF SendCall
    <3>2. o = "send"
      OBVIOUS
    <3>3. EntryOf[o] = "take"
      BY <3>2 DEF EntryOf
    <3> QED
      BY <2>0, <3>1, <3>2, <3>3 DEF SendOnly
  <2>2. ASSUME NEW s \in Senders, SendStep(s) PROVE SendOnly'
    BY <2>0, <2>2 DEF SendOnly, SendStep, CheckDeadline, CheckConnected,
       Take, TakeFails, TakeTimeout, CheckCell, AwaitCell, CellTimeout,
       CheckReceivers, PollDisconnected, Unwind, Restore, Write, Publish, Goto,
       Return
  <2>3. CASE ReceiverNext \/ UNCHANGED vars
    BY <2>3, ReceiverFrame DEF vars, sendvars, SendOnly
  <2> QED
    BY <2>1, <2>2, <2>3, NextSplit DEF SenderNext
<1> QED
  BY <1>1, <1>2, Inductive, PTL DEF Spec

\* The head is put back only by a step that goes on to notify a sender.
LEMMA RestoreIsOwed ==
  ASSUME IInv, BlockInv, SendOnly, BNext,
         write_head = TAKEN, write_head' # TAKEN
  PROVE  \E u \in Senders : pend'[u] = HEAD
<1>0. pend \in [Threads -> Events \cup {NONE}]
  BY DEF BlockInv, EventsOK, EventsTypeOK
<1>1. ASSUME NEW s \in Senders, BSendCall(s) \/ BSendStep(s)
      PROVE  BRestore(s)
  <2>1. CASE \/ SendCall(s) \/ LocalStep(s) \/ Write(s) \/ Publish(s)
             \/ Take(s) \/ UNCHANGED vars
    BY <2>1 DEF SendCall, LocalStep, CheckDeadline, CheckConnected, TakeFails,
       TakeTimeout, CheckCell, AwaitCell, CellTimeout, CheckReceivers,
       PollDisconnected, Write, Publish, Take, vars
  <2>2. ~Unwind(s)
    BY DEF SendOnly, Unwind
  <2> QED
    BY <1>1, <2>1, <2>2 DEF BSendCall, BSendStep, BLocal, BTryTake, BTake,
       BTakeFails, BAwaitCell, BSendTimeout, BPublish, WaitStep, Retest, Listen,
       Wake, Notify, LocalStep
<1>2. ASSUME NEW s \in Senders, BRestore(s) PROVE pend'[s] = HEAD
  BY <1>0, <1>2 DEF BRestore, Owes, Threads
<1>3. ASSUME ReceiverNext \/ UNCHANGED vars PROVE FALSE
  BY <1>3, ReceiverFrame DEF vars
<1>4. ASSUME NEW r \in Receivers, BRecvCall(r) \/ BRecvStep(r) \/ BDrop(r)
      PROVE  ReceiverNext \/ UNCHANGED vars
  BY <1>4 DEF BRecvCall, BRecvStep, BDrop, BAccept, BNotPublished,
     BRecvTimeout, BReceive, BRelease, WaitStep, Retest, Listen, Wake, Notify,
     ReceiverNext, RecvStep
<1>5. ASSUME NEW r \in Receivers, NEW q \in Receivers, BClone(r, q)
      PROVE  ReceiverNext
  BY <1>5 DEF BClone, ReceiverNext
<1> QED
  BY <1>1, <1>2, <1>3, <1>4, <1>5 DEF BNext

\* Who looks after a sender that sleeps beside a free token.
Looks(u) == Looping(u) /\ EventOf(u) = HEAD /\ phase[u] # "parked"
Cares(u) == pend[u] = HEAD \/ u \in notified[HEAD] \/ Looks(u)

\* Who looks after the others goes on doing so until the token is taken, or
\* hands it on to another sender.
LEMMA CareIsKept ==
  ASSUME IInv, BlockInv, SendOnly, NEW a \in Threads,
         \A t \in Threads \ {a} : SameWait(t),
         Idle(a) \/ Left(a) \/ Stayed(a) \/ Waited(a),
         write_head # TAKEN, write_head' # TAKEN,
         Registered(HEAD) # {},
         NEW u \in Senders, Cares(u)
  PROVE  \E w \in Senders : Cares(w)'
<1>0. /\ phase \in [Threads -> Phases] /\ EventsOK /\ TypeOK
      /\ EventOf(a) \in Events /\ u \in Threads /\ HEAD \in Events
      /\ HEAD # NONE
      /\ \A e \in Events, t \in Threads :
           t \in Registered(e) =>
             phase[t] \in {"armed", "parked"} /\ EventOf(t) = e
      /\ \A t \in Threads : ~Looping(t) => phase[t] = Entry
  BY EventOfType, EventSet DEF BlockInv, IInv, ListenInv, Threads
<1>1. CASE Notify(a)
  <2>1. /\ UNCHANGED <<vars, phase>> /\ SendNotification(a)
    BY <1>1 DEF Notify
  <2>2. /\ \A f \in Events : Registered(f)' = Registered(f)
        /\ notified[HEAD] \subseteq notified'[HEAD]
        /\ pend' = [pend EXCEPT ![a] = NONE]
        /\ pend[a] = HEAD => notified'[HEAD] # {}
        /\ EventsOK'
    BY <1>0, <2>1, NotifyForm
  <2>3. CASE u = a /\ pend[a] = HEAD
    <3>1. PICK w : w \in notified'[HEAD]
      BY <2>2, <2>3
    <3>2. w \in Threads /\ w \in Registered(HEAD)
      BY <1>0, <2>2, <3>1 DEF Registered, EventsOK, EventsTypeOK
    <3>3. w \in Senders
      BY <1>0, <3>2, EventOfType DEF Threads
    <3> QED
      BY <3>1, <3>3 DEF Cares
  <2>4. CASE u # a /\ pend[u] = HEAD
    <3>1. pend'[u] = HEAD
      BY <1>0, <2>2, <2>4 DEF EventsOK, EventsTypeOK
    <3> QED
      BY <3>1 DEF Cares
  <2>5. CASE u \in notified[HEAD]
    BY <2>2, <2>5 DEF Cares
  <2>6. CASE Looks(u)
    BY <2>1, <2>6 DEF Cares, Looks, vars, sendvars, recvvars, Looping, Waiting,
       EventOf, AtCell, CellOf
  <2> QED
    BY <2>3, <2>4, <2>5, <2>6 DEF Cares
<1>2. CASE ~Notify(a)
  <2>1. CASE pend[u] = HEAD
    <3>1. pend'[u] = HEAD
      BY <1>0, <1>2, <2>1, PendingKept
    <3> QED
      BY <3>1 DEF Cares
  <2>2. CASE u \in notified[HEAD]
    <3>1. CASE Wake(a)
      <4>1. CASE u = a
        <5>1. /\ UNCHANGED vars /\ phase' = [phase EXCEPT ![a] = "woken"]
              /\ phase[a] = "parked"
          BY <3>1 DEF Wake, SetPhase
        <5>2. u \in Registered(HEAD)
          BY <2>2 DEF Registered
        <5>3. Looping(u) /\ EventOf(u) = HEAD
          BY <1>0, <4>1, <5>1, <5>2 DEF Entry
        <5>4. Looping(u)' /\ EventOf(u)' = HEAD
          BY <5>1, <5>3 DEF vars, sendvars, recvvars, Looping, Waiting,
             EventOf, AtCell, CellOf
        <5>5. phase'[u] # "parked"
          BY <1>0, <4>1, <5>1
        <5> QED
          BY <5>4, <5>5 DEF Cares, Looks
      <4>2. CASE u # a
        <5>1. u \in notified'[HEAD]
          BY <1>0, <2>2, <3>1, <4>2 DEF Wake, EventsOK, EventsTypeOK
        <5> QED
          BY <5>1 DEF Cares
      <4> QED
        BY <4>1, <4>2
    <3>2. CASE Left(a)
      <4>1. EventOf(a) # HEAD
        <5>1. CASE a \in Senders
          BY <3>2, <5>1 DEF Left, SendOnly
        <5>2. CASE a \in Receivers
          BY <1>0, <5>2, EventOfType
        <5> QED
          BY <5>1, <5>2 DEF Threads
      <4>2. PICK f \in Events : f = EventOf(a)
        BY <1>0
      <4>3. \A g \in Events \ {f} : notified'[g] = notified[g]
        BY <1>0, <3>2, <4>2, UnlistenForm DEF Left
      <4> QED
        BY <1>0, <2>2, <4>1, <4>2, <4>3 DEF Cares
    <3>3. CASE Idle(a) \/ Stayed(a) \/ Listen(a)
      BY <2>2, <3>3 DEF Idle, Stayed, Stay, eventvars, Listen, Cares
    <3> QED
      BY <1>2, <3>1, <3>2, <3>3 DEF Waited
  <2>3. CASE Looks(u)
    <3>1. CASE u # a
      <4>1. SameWait(u)
        BY <1>0, <3>1
      <4>2. phase'[u] = phase[u]
        BY <1>0, <3>1 DEF Idle, Left, Stayed, Stay, Waited, Listen, Wake,
           Notify, SetPhase
      <4> QED
        BY <1>0, <2>3, <4>1, <4>2, SameWaitForm DEF Looks, Cares
    <3>2. CASE u = a
      <4>1. ~Idle(a) /\ ~Wake(a)
        BY <2>3, <3>2 DEF Idle, Wake, Looks
      <4>2. CASE Left(a)
        BY <2>3, <3>2, <4>2 DEF Left, Looks, SendOnly
      <4>3. CASE Stayed(a)
        BY <2>3, <3>2, <4>3 DEF Stayed, Looks
      <4>4. CASE Listen(a)
        <5>1. /\ UNCHANGED vars /\ phase' = [phase EXCEPT ![a] = "armed"]
          BY <4>4 DEF Listen, SetPhase
        <5>2. Looping(u)' /\ EventOf(u)' = HEAD
          BY <2>3, <5>1 DEF Looks, vars, sendvars, recvvars, Looping, Waiting,
             EventOf, AtCell, CellOf
        <5> QED
          BY <1>0, <3>2, <5>1, <5>2 DEF Cares, Looks
      <4> QED
        BY <1>2, <4>1, <4>2, <4>3, <4>4 DEF Waited
    <3> QED
      BY <3>1, <3>2
  <2> QED
    BY <2>1, <2>2, <2>3 DEF Cares
<1> QED
  BY <1>1, <1>2

(***************************************************************************)
(* As long as the senders only use send, no wake-up is lost on the write   *)
(* head although notify_one wakes a single sender: each one that is woken  *)
(* takes the token and passes it on.  (try_send and try_send_before put    *)
(* the token back without a notification; with them it fails.)             *)
(***************************************************************************)
THEOREM HeadWakeupCorrect ==
  ASSUME SendOps \subseteq {"send"}
  PROVE  BSpec => []HeadWakeup
<1>1. BInit => HeadWakeup
  BY DEF BInit, HeadWakeup, Asleep, Entry, Threads
<1>2. ASSUME IInv, TryNeverWaits, BlockInv, SendOnly, HeadWakeup, BNext
      PROVE  HeadWakeup'
  <2> SUFFICES ASSUME NEW t \in Senders,
                      Asleep(t)', EventOf(t)' = HEAD, Ready(t)'
               PROVE  \E u \in Senders : Cares(u)'
    BY DEF HeadWakeup, Cares, Looks
  <2>1. PICK a \in Threads :
          /\ \A u \in Threads \ {a} : SameWait(u)
          /\ Idle(a) \/ Left(a) \/ Stayed(a) \/ Waited(a)
    BY <1>2, StepKind
  <2>2. /\ Asleep(t) /\ EventOf(t) = HEAD /\ SameWait(t)
        /\ t \in Registered(HEAD)
    BY <1>2, <2>1, AsleepStep DEF IInv, Threads
  <2>3. ~AtCell(t) /\ ~AtCell(t)'
    BY <1>2, <2>2, EventOfType DEF IInv, Threads, SameWait, AtCell
  <2>4. write_head' # TAKEN
    BY <2>3 DEF Ready
  <2>5. CASE write_head = TAKEN
    BY <1>2, <2>4, <2>5, RestoreIsOwed DEF Cares
  <2>6. CASE write_head # TAKEN
    <3>1. PICK u \in Senders : Cares(u)
      BY <1>2, <2>2, <2>3, <2>6 DEF HeadWakeup, Ready, Cares, Looks
    <3> QED
      BY <1>2, <2>1, <2>2, <2>4, <2>6, <3>1, CareIsKept
  <2> QED
    BY <2>5, <2>6
<1>3. HeadWakeup /\ UNCHANGED bvars => HeadWakeup'
  BY DEF HeadWakeup, Asleep, EventOf, AtCell, CellOf, Ready, CellFree,
     Published, NextId, Looping, Waiting, bvars, vars, cells, sendvars,
     recvvars, eventvars
<1>4. Spec => []SendOnly
  BY SendOnlyInductive
<1> QED
  BY <1>1, <1>2, <1>3, <1>4, BlockImplements, BlockInductive, PTL DEF BSpec
=============================================================================
