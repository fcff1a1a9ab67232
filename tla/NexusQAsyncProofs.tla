------------------------- MODULE NexusQAsyncProofs -------------------------
(***************************************************************************)
(* Polling, cancelling and dropping tasks only delays or ends the steps of *)
(* NexusQ, as long as no Sink is polled again after it was Ready.  On the  *)
(* same proviso no wake-up of a task is lost on a cell, and none on the    *)
(* head if senders use send and poll_ready and no Sink is cancelled.       *)
(***************************************************************************)
EXTENDS NexusQAsync, NexusQEventsProofs, NexusQRefinementProofs

\* A step of a poll that is no access of NexusQ leaves the channel alone.
LEMMA PollStepFrame ==
  ASSUME NEW t \in Threads, PollStep(t)
  PROVE  UNCHANGED vars
  BY DEF PollStep, Retest, Listen, PollEvent, Poll, Notify

\* A step with tasks is a step of NexusQ or none at all.
LEMMA AStep ==
  ASSUME "repoll" \notin TaskOps
  PROVE  [ANext]_avars => [Next]_vars
<1>1. ASSUME NEW s \in Senders, ASendStep(s) PROVE [Next]_vars
  <2>1. CASE PollStep(s)
    BY <2>1, PollStepFrame DEF Threads
  <2>2. CASE ALocal(s)
    BY <2>2 DEF ALocal, Next, SendStep
  <2>3. CASE ATest(s)
    BY <2>3 DEF ATest, Next, SendStep
  <2>4. CASE ARestore(s) \/ APublish(s) \/ APollDisconnected(s)
    BY <2>4 DEF ARestore, APublish, APollDisconnected, Next, SendStep
  <2> QED
    BY <1>1, <2>1, <2>2, <2>3, <2>4 DEF ASendStep
<1>2. ASSUME NEW s \in Senders,
             ASendCall(s) \/ CancelSend(s) \/ DropSender(s) \/ PollAgain(s)
      PROVE  [Next]_vars
  BY <1>2 DEF ASendCall, CancelSend, DropSender, PollAgain, Next, SendStep
<1>3. ASSUME NEW r \in Receivers, ARecvStep(r) PROVE [Next]_vars
  <2>1. CASE PollStep(r)
    BY <2>1, PollStepFrame DEF Threads
  <2>2. CASE AReceive(r) \/ ARelease(r)
    BY <2>2 DEF AReceive, ARelease, Next, RecvStep
  <2>3. CASE ARecvTest(r) \/ DropEvent(r)
    BY <2>3 DEF ARecvTest, DropEvent, Next, RecvStep
  <2> QED
    BY <1>3, <2>1, <2>2, <2>3 DEF ARecvStep
<1>4. ASSUME NEW r \in Receivers, ARecvCall(r) \/ CancelRecv(r) \/ ADrop(r)
      PROVE  [Next]_vars
  BY <1>4 DEF ARecvCall, CancelRecv, ADrop, Next, RecvStep
<1>5. ASSUME NEW r \in Receivers, NEW q \in Receivers, AClone(r, q)
      PROVE  [Next]_vars
  BY <1>5 DEF AClone, Next
<1>6. UNCHANGED avars => UNCHANGED vars
  BY DEF avars
<1> QED
  BY <1>1, <1>2, <1>3, <1>4, <1>5, <1>6 DEF ANext

(***************************************************************************)
(* Sinks and Streams implement the channel of NexusQ, wherever futures are *)
(* dropped and handles go, unless poll_ready is called again after it was  *)
(* Ready.                                                                  *)
(***************************************************************************)
THEOREM AsyncImplements ==
  ASSUME "repoll" \notin TaskOps
  PROVE  ASpec => Spec
<1>1. AInit => Init
  BY DEF AInit
<1>2. [ANext]_avars => [Next]_vars
  BY AStep
<1> QED
  BY <1>1, <1>2, PTL DEF ASpec, Spec

(***************************************************************************)
(* So Streams obtain the messages in order, no cell is read while it is    *)
(* written, and no two Sinks write the same cell.                          *)
(***************************************************************************)
THEOREM AsyncSafe ==
  ASSUME "repoll" \notin TaskOps
  PROVE  ASpec => [](ReadsTheLog /\ NoReadWriteRace /\ ExclusiveWrite)
<1>1. ASpec => Spec
  BY AsyncImplements
<1> QED
  BY <1>1, BroadcastCorrect, RaceFree, WritersExclusive, PTL

(***************************************************************************)
(* What callers of Sinks and Streams see is the abstract broadcast         *)
(* channel, on the same proviso.                                           *)
(***************************************************************************)
THEOREM AsyncImplementsChannel ==
  ASSUME "repoll" \notin TaskOps
  PROVE  ASpec => ImplementsChannel
<1>1. ASpec => Spec
  BY AsyncImplements
<1> QED
  BY <1>1, ChannelImplemented, PTL

-----------------------------------------------------------------------------
(* Listeners and polls.                                                     *)

\* The events know the listeners that are in the handles, and no others.
GuardExact ==
  \A e \in Events, t \in Threads : t \in Registered(e) <=> guard[t] = e

\* A poll that has failed its first test belongs to a task that waits; from
\* get_or_insert on there is a listener.
PollOK(t) ==
  t \notin gone /\ phase[t] # "test" =>
    /\ IsTask(t) /\ Waiting(t)
    /\ phase[t] \in {"armed", "event", "pending"} => guard[t] # NONE

PollInv == /\ phase \in [Threads -> Phases]
           /\ guard \in [Threads -> Events \cup {NONE}]
           /\ gone \subseteq Senders
           /\ EventsOK
           /\ GuardExact
           /\ \A t \in Threads : PollOK(t)

\* The listener of t was notified, or somebody is about to notify its event.
Called(t) == \/ t \in notified[guard[t]]
             \/ \E u \in Threads : pend[u] = guard[t]

\* What a step of thread a can do to the listeners: nothing, except to announce
\* a notification; make one; find it notified; or notify others.
Leaves(a)    == /\ UNCHANGED <<queue, notified, guard>>
                /\ UNCHANGED pend \/ \E e \in Events : Owes(a, e)
Registers(a) == /\ guard[a] = NONE
                /\ queue' = [queue EXCEPT ![EventOf(a)] = Append(@, a)]
                /\ guard' = [guard EXCEPT ![a] = EventOf(a)]
                /\ UNCHANGED <<notified, pend>>
Spends(a)    == /\ guard[a] \in Events /\ a \in notified[guard[a]]
                /\ notified' = [notified EXCEPT ![guard[a]] = @ \ {a}]
                /\ guard' = [guard EXCEPT ![a] = NONE]
                /\ UNCHANGED <<queue, pend>>
Notifies(a)  == SendNotification(a) /\ UNCHANGED guard

Effect(a) == \/ Leaves(a) \/ DropGuard(a) \/ Registers(a) \/ Spends(a)
             \/ Notifies(a)

\* Every event a thread can wait for exists.
LEMMA EventOfType ==
  ASSUME TypeOK, NEW t \in Threads
  PROVE  /\ EventOf(t) \in Events
         /\ t \in Receivers => EventOf(t) \in Cells
         /\ t \in Senders => (EventOf(t) # HEAD <=> AtCell(t))
<1>1. \A i \in Nat : fast_mod(i) \in Cells /\ fast_mod(i) # HEAD
  BY EventSet, IndexType
<1>2. /\ t \in Senders => id[t] \in Nat
      /\ t \in Receivers => cursor[t] \in Nat
  BY DEF TypeOK
<1> QED
  BY <1>1, <1>2, EventSet, ThreadsAssumption DEF EventOf, CellOf, Threads,
     Events

\* Listeners and handles stay in agreement, other threads keep theirs, and a
\* call on the event of a cell is not lost.
LEMMA EffectForm ==
  ASSUME TypeOK, PollInv, NEW a \in Threads, Effect(a)
  PROVE  /\ EventsOK' /\ GuardExact'
         /\ guard' \in [Threads -> Events \cup {NONE}]
         /\ \A t \in Threads \ {a} : guard'[t] = guard[t]
         /\ \A t \in Threads :
              guard'[t] = guard[t] /\ guard[t] \in Cells /\ Called(t)
                => Called(t)'
<1>0. /\ EventsOK /\ GuardExact /\ EventOf(a) \in Events
      /\ guard \in [Threads -> Events \cup {NONE}]
      /\ pend \in [Threads -> Events \cup {NONE}]
      /\ queue \in [Events -> Seq(Threads)]
      /\ notified \in [Events -> SUBSET Threads]
      /\ NONE \notin Events /\ HEAD \notin Cells /\ Cells \subseteq Events
  BY EventOfType, EventSet DEF PollInv, EventsOK, EventsTypeOK, Events
<1>1. CASE Leaves(a)
  <2>1. /\ queue' = queue /\ notified' = notified /\ guard' = guard
        /\ pend' \in [Threads -> Events \cup {NONE}]
        /\ \A u \in Threads : pend[u] # NONE => pend'[u] = pend[u]
    BY <1>0, <1>1 DEF Leaves, Owes
  <2>2. EventsOK' /\ GuardExact'
    BY <1>0, <2>1 DEF EventsOK, EventsTypeOK, GuardExact, Registered
  <2>3. ASSUME NEW t \in Threads, guard[t] \in Cells, Called(t)
        PROVE  Called(t)'
    BY <1>0, <2>1, <2>3 DEF Called
  <2> QED
    BY <1>0, <2>1, <2>2, <2>3
<1>2. CASE DropGuard(a)
  <2>0. pend' = pend /\ guard' = [guard EXCEPT ![a] = NONE]
    BY <1>2 DEF DropGuard
  <2>1. CASE guard[a] = NONE
    <3>1. queue' = queue /\ notified' = notified /\ guard' = guard
      BY <1>0, <1>2, <2>0, <2>1 DEF DropGuard
    <3>2. EventsOK' /\ GuardExact'
      BY <1>0, <2>0, <3>1 DEF EventsOK, EventsTypeOK, GuardExact, Registered
    <3> QED
      BY <1>0, <2>0, <3>1, <3>2 DEF Called
  <2>2. CASE guard[a] # NONE
    <3>1. PICK e \in Events : e = guard[a]
      BY <1>0, <2>2
    <3>2. /\ EventsOK' /\ Registered(e)' = Registered(e) \ {a}
          /\ notified[e] \ {a} \subseteq notified'[e]
          /\ \A f \in Events \ {e} : /\ Registered(f)' = Registered(f)
                                     /\ notified'[f] = notified[f]
      BY <1>0, <1>2, <2>0, <2>2, <3>1, UnlistenForm DEF DropGuard
    <3>3. GuardExact'
      BY <1>0, <2>0, <3>1, <3>2 DEF GuardExact
    <3>4. ASSUME NEW t \in Threads, guard'[t] = guard[t], guard[t] \in Cells,
                 Called(t)
          PROVE  Called(t)'
      <4>1. t # a
        BY <1>0, <2>0, <3>4
      <4> QED
        BY <1>0, <2>0, <3>2, <3>4, <4>1 DEF Called
    <3> QED
      BY <1>0, <2>0, <3>2, <3>3, <3>4
  <2> QED
    BY <2>1, <2>2
<1>3. CASE Registers(a)
  <2>1. PICK e \in Events : e = EventOf(a)
    BY <1>0
  <2>2. a \notin Registered(e)
    BY <1>0, <1>3, <2>1 DEF Registers, GuardExact
  <2>3. /\ EventsOK' /\ Registered(e)' = Registered(e) \cup {a}
        /\ \A f \in Events \ {e} : Registered(f)' = Registered(f)
    BY <1>0, <1>3, <2>1, <2>2, ListenForm DEF Registers
  <2>4. guard' = [guard EXCEPT ![a] = e] /\ guard[a] = NONE
        /\ notified' = notified /\ pend' = pend
    BY <1>3, <2>1 DEF Registers
  <2>5. GuardExact'
    BY <1>0, <2>3, <2>4 DEF GuardExact
  <2>6. ASSUME NEW t \in Threads, guard'[t] = guard[t], Called(t)
        PROVE  Called(t)'
    BY <2>4, <2>6 DEF Called
  <2>7. /\ guard' \in [Threads -> Events \cup {NONE}]
        /\ \A t \in Threads \ {a} : guard'[t] = guard[t]
    BY <1>0, <2>4
  <2> QED
    BY <2>3, <2>5, <2>6, <2>7
<1>4. CASE Spends(a)
  <2>1. PICK e \in Events : e = guard[a]
    BY <1>4 DEF Spends
  <2>2. /\ notified' = [notified EXCEPT ![e] = @ \ {a}] /\ a \in notified[e]
        /\ guard' = [guard EXCEPT ![a] = NONE]
        /\ queue' = queue /\ pend' = pend
    BY <1>4, <2>1 DEF Spends
  <2>3. EventsOK'
    BY <1>0, <2>2 DEF EventsOK, EventsTypeOK
  <2>4. /\ Registered(e)' = Registered(e) \ {a}
        /\ \A f \in Events \ {e} : Registered(f)' = Registered(f)
    BY <1>0, <2>2 DEF EventsOK, EventsTypeOK, Registered
  <2>a. /\ guard'[a] = NONE /\ e # NONE
        /\ \A t \in Threads \ {a} : guard'[t] = guard[t]
    BY <1>0, <2>2
  <2>5. GuardExact'
    BY <1>0, <2>1, <2>4, <2>a DEF GuardExact
  <2>6. ASSUME NEW t \in Threads, guard'[t] = guard[t], guard[t] \in Cells,
               Called(t)
        PROVE  Called(t)'
    <3>1. t # a
      BY <1>0, <2>2, <2>6
    <3> QED
      BY <1>0, <2>2, <2>6, <3>1 DEF Called
  <2> QED
    BY <1>0, <2>2, <2>3, <2>5, <2>6
<1>5. CASE Notifies(a)
  <2>1. /\ EventsOK'
        /\ \A f \in Events : /\ Registered(f)' = Registered(f)
                             /\ notified[f] \subseteq notified'[f]
        /\ pend[a] \in Events /\ pend' = [pend EXCEPT ![a] = NONE]
        /\ pend[a] # HEAD => notified'[pend[a]] = Registered(pend[a])
    BY <1>0, <1>5, NotifyForm DEF Notifies
  <2>2. guard' = guard
    BY <1>5 DEF Notifies
  <2>3. GuardExact'
    BY <1>0, <2>1, <2>2 DEF GuardExact
  <2>4. ASSUME NEW t \in Threads, guard[t] \in Cells, Called(t)
        PROVE  Called(t)'
    <3>1. CASE t \in notified[guard[t]]
      BY <1>0, <2>1, <2>2, <2>4, <3>1 DEF Called
    <3>2. CASE pend[a] = guard[t]
      <4>1. t \in Registered(guard[t])
        BY <1>0, <2>4 DEF GuardExact
      <4> QED
        BY <1>0, <2>1, <2>2, <2>4, <3>2, <4>1 DEF Called
    <3>3. ASSUME NEW u \in Threads \ {a}, pend[u] = guard[t]
          PROVE  Called(t)'
      BY <1>0, <2>1, <2>2, <3>3 DEF Called
    <3> QED
      BY <2>4, <3>1, <3>2, <3>3 DEF Called
  <2> QED
    BY <1>0, <2>1, <2>2, <2>3, <2>4
<1> QED
  BY <1>1, <1>2, <1>3, <1>4, <1>5 DEF Effect

\* Only thread a changes its phase or goes.
Alone(a) == /\ phase' \in [Threads -> Phases]
            /\ gone \subseteq gone' /\ gone' \subseteq Senders
            /\ \A t \in Threads \ {a} : /\ phase'[t] = phase[t]
                                        /\ t \in gone' <=> t \in gone

\* A step outside of the polls is no step of a task that waits.
LEMMA RestForm ==
  ASSUME PollInv, NEW a \in Threads \ gone, ~(IsTask(a) /\ Waiting(a)),
         UNCHANGED <<queue, notified, taskvars>>,
         UNCHANGED pend \/ \E e \in Events : Owes(a, e)
  PROVE  Effect(a) /\ Alone(a) /\ PollOK(a)' /\ phase'[a] = "test"
<1>1. phase[a] = "test"
  BY DEF PollInv, PollOK
<1> QED
  BY <1>1 DEF PollInv, PollOK, taskvars, Effect, Leaves, Alone

\* A test of a task: it succeeds and drops the listener, or fails and waits.
LEMMA TestForm ==
  ASSUME PollInv, NEW a \in Threads \ gone, IsTask(a), Test(a),
         ~Ready(a) => IsTask(a)' /\ Waiting(a)'
  PROVE  Effect(a) /\ Alone(a) /\ PollOK(a)'
<1>0. /\ phase \in [Threads -> Phases] /\ gone \subseteq Senders
      /\ PollOK(a) /\ NONE \notin Events
      /\ guard \in [Threads -> Events \cup {NONE}]
  BY EventSet DEF PollInv
<1>1. CASE Ready(a)
  <2>1. Succeed(a)
    BY <1>1 DEF Test
  <2> QED
    BY <1>0, <2>1 DEF Succeed, SetPhase, Effect, Alone, PollOK, Phases
<1>2. CASE ~Ready(a)
  <2>1. Fail(a)
    BY <1>2 DEF Test
  <2>2. /\ phase[a] \in {"test", "armed", "woken"}
        /\ phase' = [phase EXCEPT ![a] = AfterFailure[phase[a]]]
        /\ UNCHANGED <<queue, notified, pend, guard, gone>>
    BY <2>1 DEF Fail, SetPhase, AfterFailure, eventvars
  <2>3. /\ AfterFailure[phase[a]] \in {"listen", "event"}
        /\ AfterFailure[phase[a]] = "event" => phase[a] = "armed"
    BY <2>2 DEF AfterFailure
  <2> QED
    BY <1>0, <1>2, <2>2, <2>3 DEF Effect, Leaves, Alone, PollOK, Phases
<1> QED
  BY <1>1, <1>2

\* The other steps of a poll, and its notification.
LEMMA PollStepForm ==
  ASSUME TypeOK, PollInv, NEW a \in Threads \ gone, PollStep(a)
  PROVE  Effect(a) /\ Alone(a) /\ PollOK(a)' /\ UNCHANGED <<vars, gone>>
<1>0. /\ phase \in [Threads -> Phases] /\ gone \subseteq Senders
      /\ PollOK(a) /\ NONE \notin Events /\ EventOf(a) \in Events
      /\ guard \in [Threads -> Events \cup {NONE}]
  BY EventSet, EventOfType DEF PollInv
<1>1. UNCHANGED vars
  BY PollStepFrame
<1>2. /\ IsTask(a)' <=> IsTask(a)
      /\ Waiting(a)' <=> Waiting(a)
  BY <1>1 DEF IsTask, Waiting, vars, sendvars, recvvars
<1>3. CASE Retest(a)
  <2>1. Test(a) /\ IsTask(a) /\ Waiting(a) /\ UNCHANGED gone
    BY <1>3 DEF Retest, Test, Fail
  <2> QED
    BY <1>1, <1>2, <2>1, TestForm
<1>4. CASE Listen(a)
  <2>1. /\ phase' = [phase EXCEPT ![a] = "armed"]
        /\ phase[a] = "listen" /\ gone' = gone
    BY <1>4 DEF Listen, SetPhase
  <2>2. CASE guard[a] = NONE
    <3>1. Registers(a)
      BY <1>4, <2>2 DEF Listen, Registers
    <3>2. guard'[a] = EventOf(a)
      BY <1>0, <3>1 DEF Registers
    <3> QED
      BY <1>0, <1>1, <1>2, <2>1, <3>1, <3>2 DEF Effect, Alone, PollOK, Phases
  <2>3. CASE guard[a] # NONE
    BY <1>0, <1>1, <1>2, <1>4, <2>1, <2>3 DEF Listen, Effect, Leaves, Alone,
       PollOK, Phases
  <2> QED
    BY <2>2, <2>3
<1>5. CASE PollEvent(a)
  <2>1. CASE a \in notified[guard[a]]
    <3>1. /\ Spends(a) /\ phase' = [phase EXCEPT ![a] = "woken"]
          /\ phase[a] = "event" /\ gone' = gone
      BY <1>0, <1>5, <2>1 DEF PollEvent, Spends, SetPhase, PollOK
    <3> QED
      BY <1>0, <1>1, <1>2, <3>1 DEF Effect, Alone, PollOK, Phases
  <2>2. CASE a \notin notified[guard[a]]
    <3>1. /\ phase' = [phase EXCEPT ![a] = "pending"] /\ phase[a] = "event"
          /\ UNCHANGED <<queue, notified, pend, guard, gone>>
      BY <1>5, <2>2 DEF PollEvent, SetPhase
    <3> QED
      BY <1>0, <1>1, <1>2, <3>1 DEF Effect, Leaves, Alone, PollOK, Phases
  <2> QED
    BY <2>1, <2>2
<1>6. CASE Poll(a)
  <2>1. /\ phase' = [phase EXCEPT ![a] = "test"]
        /\ UNCHANGED <<queue, notified, pend, guard, gone>>
    BY <1>6 DEF Poll, SetPhase, eventvars
  <2> QED
    BY <1>0, <1>1, <2>1 DEF Effect, Leaves, Alone, PollOK, Phases
<1>7. CASE Notify(a)
  <2>1. SendNotification(a) /\ UNCHANGED <<phase, guard, gone>>
    BY <1>7 DEF Notify, taskvars
  <2> QED
    BY <1>0, <1>1, <1>2, <2>1 DEF Effect, Notifies, Alone, PollOK
<1> QED
  BY <1>3, <1>4, <1>5, <1>6, <1>7 DEF PollStep

\* The steps of one thread, without a second poll of a Sink that is Ready.
ASender(s)   == ASendCall(s) \/ ASendStep(s) \/ CancelSend(s) \/ DropSender(s)
AReceiver(r) == ARecvCall(r) \/ ARecvStep(r) \/ CancelRecv(r) \/ ADrop(r)

\* Every step is one of them or makes a clone.
LEMMA ANextSplit ==
  ASSUME "repoll" \notin TaskOps
  PROVE  ANext <=> \/ \E s \in Senders : ASender(s)
                   \/ \E r \in Receivers : AReceiver(r)
                   \/ \E r, q \in Receivers : AClone(r, q)
  BY DEF ANext, ASender, AReceiver, PollAgain

\* A step of a sender moves its poll and its listener in agreement.
LEMMA SenderPolls ==
  ASSUME TypeOK, PollInv, NEW s \in Senders, ASender(s)
  PROVE  Effect(s) /\ Alone(s) /\ PollOK(s)'
<1>0. /\ s \in Threads \ gone /\ s \notin Receivers
      /\ pc \in [Senders -> SendPCs] /\ id \in [Senders -> Nat]
      /\ op \in [Senders -> AllSendOps \cup {"none"}]
      /\ phase \in [Threads -> Phases] /\ gone \subseteq Senders
      /\ guard \in [Threads -> Events \cup {NONE}]
  BY ThreadsAssumption DEF Threads, TypeOK, PollInv, ASender, ASendCall,
     ASendStep, CancelSend, DropSender
<1>1. CASE ASendCall(s)
  <2>1. ~Waiting(s) /\ Rest(s)
    BY <1>0, <1>1 DEF ASendCall, SendCall, Returned, Waiting
  <2> QED
    BY <1>0, <2>1, RestForm DEF Rest, Silent, eventvars
<1>2. CASE ALocal(s)
  <2>1. ~(IsTask(s) /\ Waiting(s)) /\ Rest(s)
    BY <1>0, <1>2 DEF ALocal, CheckDeadline, CheckConnected, CheckReceivers,
       CellTimeout, Unwind, Write, Waiting, IsTask
  <2> QED
    BY <1>0, <2>1, RestForm DEF Rest, Silent, eventvars
<1>3. CASE ATest(s)
  <2>1. CASE ~IsTask(s)
    <3>1. Rest(s)
      BY <1>3, <2>1 DEF ATest, Test
    <3> QED
      BY <1>0, <2>1, <3>1, RestForm DEF Rest, Silent, eventvars
  <2>2. CASE IsTask(s)
    <3>1. ~Ready(s) => IsTask(s)' /\ Waiting(s)'
      BY <1>0, <1>3, <2>2 DEF ATest, Take, TakeFails, CheckCell, AwaitCell,
         Goto, Ready, AtCell, IsTask, Waiting
    <3> QED
      BY <1>0, <1>3, <2>2, <3>1, TestForm DEF ATest
  <2> QED
    BY <2>1, <2>2
<1>4. CASE ARestore(s) \/ APublish(s)
  <2>1. ~Waiting(s) /\ UNCHANGED taskvars
    BY <1>0, <1>4 DEF ARestore, APublish, Restore, Publish, Waiting
  <2>2. /\ UNCHANGED <<queue, notified>>
        /\ \E e \in Events : Owes(s, e)
    BY <1>0, <1>4, EventSet DEF ARestore, APublish, CellOf, Owes
  <2> QED
    BY <1>0, <2>1, <2>2, RestForm
<1>5. CASE APollDisconnected(s) \/ CancelSend(s)
  <2>1. /\ phase' = [phase EXCEPT ![s] = "test"]
        /\ UNCHANGED <<queue, notified, pend, guard, gone>>
    BY <1>5 DEF APollDisconnected, CancelSend, SetPhase, eventvars
  <2> QED
    BY <1>0, <2>1 DEF Effect, Leaves, Alone, PollOK, Phases
<1>6. CASE DropSender(s)
  <2>1. DropGuard(s) /\ phase' = phase /\ gone' = gone \cup {s}
    BY <1>6 DEF DropSender
  <2> QED
    BY <1>0, <2>1 DEF Effect, Alone, PollOK
<1>7. CASE PollStep(s)
  BY <1>0, <1>7, PollStepForm
<1> QED
  BY <1>1, <1>2, <1>3, <1>4, <1>5, <1>6, <1>7 DEF ASender, ASendStep

\* And a step of a receiver.
LEMMA ReceiverPolls ==
  ASSUME TypeOK, PollInv, NEW r \in Receivers, AReceiver(r)
  PROVE  Effect(r) /\ Alone(r) /\ PollOK(r)'
<1>0. /\ r \in Threads \ gone /\ r \notin Senders
      /\ rpc \in [Receivers -> RecvPCs]
      /\ rop \in [Receivers -> AllRecvOps \cup {"none"}]
      /\ previous_cell_index \in [Receivers -> Cells]
      /\ phase \in [Threads -> Phases] /\ gone \subseteq Senders
      /\ guard \in [Threads -> Events \cup {NONE}]
  BY ThreadsAssumption DEF Threads, TypeOK, PollInv
<1>1. CASE ARecvCall(r) \/ AReceive(r) \/ ADrop(r)
  <2>1. ~(IsTask(r) /\ Waiting(r)) /\ Rest(r)
    BY <1>0, <1>1 DEF ARecvCall, RecvCall, AReceive, BatchRead, MoveTo, Read,
       CloneCount, ADrop, Drop, Waiting
  <2> QED
    BY <1>0, <2>1, RestForm DEF Rest, Silent, eventvars
<1>2. CASE ARecvTest(r)
  <2>1. CASE ~IsTask(r)
    <3>1. Rest(r)
      BY <1>2, <2>1 DEF ARecvTest, Test
    <3> QED
      BY <1>0, <2>1, <3>1, RestForm DEF Rest, Silent, eventvars
  <2>2. CASE IsTask(r)
    <3>1. ~Ready(r) => IsTask(r)' /\ Waiting(r)'
      BY <1>0, <1>2, <2>2 DEF ARecvTest, Accept, NotPublished, GotoR, Ready,
         IsTask, Waiting
    <3> QED
      BY <1>0, <1>2, <2>2, <3>1, TestForm DEF ARecvTest
  <2> QED
    BY <2>1, <2>2
<1>3. CASE ARelease(r)
  <2>1. ~Waiting(r) /\ UNCHANGED taskvars
    BY <1>0, <1>3 DEF ARelease, MoveFrom, DropCell, Waiting
  <2>2. /\ UNCHANGED <<queue, notified>>
        /\ UNCHANGED pend \/ \E e \in Events : Owes(r, e)
    BY <1>0, <1>3 DEF ARelease, OwesIfLast, Owes, Silent, eventvars, Events
  <2> QED
    BY <1>0, <2>1, <2>2, RestForm
<1>4. CASE DropEvent(r)
  <2>1. /\ DropGuard(r) /\ UNCHANGED <<phase, gone>>
        /\ rpc[r] = "absent"
    BY <1>4 DEF DropEvent
  <2>2. phase[r] = "test"
    BY <1>0, <2>1 DEF PollInv, PollOK, Waiting
  <2> QED
    BY <1>0, <2>1, <2>2 DEF Effect, Alone, PollOK
<1>5. CASE CancelRecv(r)
  <2>1. /\ phase' = [phase EXCEPT ![r] = "test"]
        /\ UNCHANGED <<queue, notified, pend, guard, gone>>
    BY <1>5 DEF CancelRecv, SetPhase, eventvars
  <2> QED
    BY <1>0, <2>1 DEF Effect, Leaves, Alone, PollOK, Phases
<1>6. CASE PollStep(r)
  BY <1>0, <1>6, PollStepForm
<1> QED
  BY <1>1, <1>2, <1>3, <1>4, <1>5, <1>6 DEF AReceiver, ARecvStep

\* A thread whose wait is left alone stays the task it was.
LEMMA SameTask ==
  ASSUME TypeOK, NEW t \in Threads, SameWait(t)
  PROVE  /\ Waiting(t)' <=> Waiting(t)
         /\ Waiting(t) => (IsTask(t)' <=> IsTask(t))
         /\ t \in Senders => (IsTask(t)' <=> IsTask(t))
  BY ThreadsAssumption DEF SameWait, Threads, Waiting, IsTask

\* Every step is one of a single thread, as far as polls are concerned.
LEMMA AStepForm ==
  ASSUME "repoll" \notin TaskOps, IInv, PollInv, ANext
  PROVE  \E a \in Threads : /\ Effect(a) /\ Alone(a) /\ PollOK(a)'
                            /\ \A t \in Threads \ {a} : SameWait(t)
<1>0. TypeOK /\ CloneInv
  BY DEF IInv
<1>a. ASSUME NEW a \in Threads, UNCHANGED vars
      PROVE  \A t \in Threads \ {a} : SameWait(t)
  BY <1>a DEF vars, sendvars, recvvars, SameWait
<1>1. ASSUME NEW s \in Senders, ASender(s)
      PROVE  \A t \in Threads \ {s} : SameWait(t)
  <2>1. SendCall(s) \/ SendStep(s) \/ UNCHANGED vars
    BY <1>1, PollStepFrame DEF ASender, ASendCall, ASendStep, ALocal, ATest,
       ARestore, APublish, APollDisconnected, CancelSend, DropSender, SendStep,
       Threads
  <2> QED
    BY <1>0, <1>a, <2>1, SenderTouches DEF Threads
<1>2. ASSUME NEW r \in Receivers, AReceiver(r)
      PROVE  \A t \in Threads \ {r} : SameWait(t)
  <2>1. RecvCall(r) \/ RecvStep(r) \/ Drop(r) \/ UNCHANGED vars
    BY <1>2, PollStepFrame DEF AReceiver, ARecvCall, ARecvStep, AReceive,
       ARecvTest, ARelease, DropEvent, CancelRecv, ADrop, RecvStep, Threads
  <2> QED
    BY <1>0, <1>a, <2>1, ReceiverTouches DEF Threads
<1>3. ASSUME NEW r \in Receivers, NEW q \in Receivers, AClone(r, q)
      PROVE  /\ Effect(r) /\ Alone(r) /\ PollOK(r)'
             /\ \A t \in Threads : SameWait(t)
  <2>1. Clone(r, q) /\ Rest(r) /\ r \in Threads \ gone /\ ~Waiting(r)
    BY <1>3, ThreadsAssumption DEF AClone, Clone, Threads, PollInv, Waiting
  <2> QED
    BY <1>0, <2>1, RestForm, CloneTouches DEF Rest, Silent, eventvars
<1> QED
  BY <1>0, <1>1, <1>2, <1>3, ANextSplit, SenderPolls, ReceiverPolls DEF Threads

\* So listeners and polls stay in agreement.
LEMMA PollInvStep ==
  ASSUME "repoll" \notin TaskOps, IInv, PollInv, ANext
  PROVE  PollInv'
<1>0. TypeOK
  BY DEF IInv
<1>1. PICK a \in Threads : /\ Effect(a) /\ Alone(a) /\ PollOK(a)'
                           /\ \A t \in Threads \ {a} : SameWait(t)
  BY AStepForm
<1>2. /\ EventsOK' /\ GuardExact'
      /\ guard' \in [Threads -> Events \cup {NONE}]
      /\ \A t \in Threads \ {a} : guard'[t] = guard[t]
  BY <1>0, <1>1, EffectForm
<1>3. ASSUME NEW t \in Threads \ {a} PROVE PollOK(t)'
  <2>1. /\ phase'[t] = phase[t] /\ guard'[t] = guard[t] /\ PollOK(t)
        /\ t \in gone' <=> t \in gone
    BY <1>1, <1>2 DEF Alone, PollInv
  <2> QED
    BY <1>0, <1>1, <2>1, SameTask DEF PollOK
<1> QED
  BY <1>1, <1>2, <1>3 DEF PollInv, Alone
\* PollInv holds at first and reads only variables of the specification.
LEMMA PollInvInit == AInit => PollInv
<1> SUFFICES ASSUME AInit PROVE PollInv
  OBVIOUS
<1>1. /\ queue = [e \in Events |-> <<>>] /\ notified = [e \in Events |-> {}]
      /\ pend = [t \in Threads |-> NONE] /\ guard = [t \in Threads |-> NONE]
      /\ phase = [t \in Threads |-> "test"] /\ gone = {}
  BY DEF AInit, EventsInit
<1>2. \A e \in Events : Registered(e) = {}
  BY <1>1, EmptyQueue DEF Registered
<1>3. EventsOK
  BY <1>1, EmptyQueue DEF EventsOK, EventsTypeOK
<1>4. GuardExact
  BY <1>1, <1>2, EventSet DEF GuardExact
<1> QED
  BY <1>1, <1>3, <1>4 DEF PollInv, PollOK, Phases

\* PollInv is a state predicate of the variables of the specification.
LEMMA PollInvStutter == PollInv /\ UNCHANGED avars => PollInv'
  BY DEF PollInv, EventsOK, EventsTypeOK, GuardExact, Registered, Members,
     Distinct, PollOK, IsTask, Waiting, avars, vars, sendvars, recvvars,
     eventvars, taskvars

(***************************************************************************)
(* In every reachable state the events know exactly the listeners that are *)
(* kept in handles, wherever futures and handles were dropped, and a task  *)
(* that is Pending has one.                                                *)
(***************************************************************************)
THEOREM AsyncInductive ==
  ASSUME "repoll" \notin TaskOps
  PROVE  ASpec => [](IInv /\ PollInv)
<1>1. IInv /\ PollInv /\ [ANext]_avars => PollInv'
  BY PollInvStep, PollInvStutter
<1>2. ASpec => []IInv
  BY AsyncImplements, Inductive, PTL
<1> QED
  BY <1>1, <1>2, PollInvInit, PTL DEF ASpec

(***************************************************************************)
(* Every variable of the channel with tasks keeps its type.                *)
(***************************************************************************)
THEOREM AsyncTypeCorrect ==
  ASSUME "repoll" \notin TaskOps
  PROVE  ASpec => []ATypeOK
<1>1. IInv /\ PollInv => ATypeOK
  BY DEF IInv, PollInv, EventsOK, ATypeOK
<1> QED
  BY <1>1, AsyncInductive, PTL

-----------------------------------------------------------------------------
(* No wake-up of a task is lost on a cell.                                  *)

\* A counter reaches zero only by a step of a receiver that goes on to notify
\* the cell.
LEMMA ReleaseIsOwed ==
  ASSUME "repoll" \notin TaskOps, IInv, PollInv, ANext, NEW c \in Cells,
         read_counter[c] # 0, read_counter'[c] = 0
  PROVE  \E u \in Threads : pend'[u] = c
<1>0. /\ read_counter \in [Cells -> Nat]
      /\ previous_cell_index \in [Receivers -> Cells]
      /\ pend \in [Threads -> Events \cup {NONE}]
  BY DEF IInv, TypeOK, PollInv, EventsOK, EventsTypeOK
<1>1. ASSUME NEW s \in Senders, ASender(s) PROVE FALSE
  <2>1. SendCall(s) \/ SendStep(s) \/ UNCHANGED vars
    BY <1>1, PollStepFrame DEF ASender, ASendCall, ASendStep, ALocal, ATest,
       ARestore, APublish, APollDisconnected, CancelSend, DropSender, SendStep,
       Threads
  <2> QED
    BY <2>1, SenderFrame DEF SenderNext, vars, cells
<1>2. ASSUME NEW r \in Receivers, AReceiver(r) PROVE ARelease(r)
  <2>1. CASE MoveTo(r)
    BY <1>0, <2>1 DEF MoveTo
  <2>2. CASE \/ RecvCall(r) \/ Drop(r) \/ Accept(r) \/ NotPublished(r)
             \/ RecvTimeout(r) \/ BatchRead(r) \/ Read(r) \/ CloneCount(r)
             \/ UNCHANGED vars
    BY <2>2 DEF RecvCall, Drop, Accept, NotPublished, RecvTimeout, BatchRead,
       Read, CloneCount, vars, cells
  <2> QED
    BY <1>2, <2>1, <2>2, PollStepFrame DEF AReceiver, ARecvCall, ARecvStep,
       AReceive, ARecvTest, DropEvent, CancelRecv, ADrop, Threads
<1>3. ASSUME NEW r \in Receivers, ARelease(r) PROVE pend'[r] = c
  <2>1. /\ read_counter' =
             [read_counter EXCEPT ![previous_cell_index[r]] = @ - 1]
        /\ OwesIfLast(r)
    BY <1>3 DEF ARelease, MoveFrom, DropCell
  <2>2. previous_cell_index[r] = c /\ read_counter[c] = 1
    BY <1>0, <2>1
  <2> QED
    BY <1>0, <2>1, <2>2 DEF OwesIfLast, Owes, Threads
<1>4. ASSUME NEW r \in Receivers, NEW q \in Receivers, AClone(r, q)
      PROVE  FALSE
  BY <1>0, <1>4 DEF AClone, Clone
<1> QED
  BY <1>1, <1>2, <1>3, <1>4, ANextSplit DEF Threads

\* A cell is given a new id only by a step of a sender that goes on to notify
\* it.
LEMMA PublishIsOwed ==
  ASSUME "repoll" \notin TaskOps, IInv, PollInv, ANext, NEW c \in Cells,
         current_id'[c] # current_id[c]
  PROVE  \E u \in Threads : pend'[u] = c
<1>0. /\ current_id \in [Cells -> Nat \cup {MAX}]
      /\ pend \in [Threads -> Events \cup {NONE}]
  BY DEF IInv, TypeOK, PollInv, EventsOK, EventsTypeOK
<1>1. ASSUME NEW s \in Senders, ASender(s) PROVE APublish(s)
  <2>1. CASE Restore(s) \/ Write(s)
    BY <2>1 DEF Restore, Write, cells
  <2>2. CASE OutsideStep(s) \/ UNCHANGED vars
    BY <2>2, OutsideStepForm DEF IInv, vars, cells
  <2> QED
    BY <1>1, <2>1, <2>2, PollStepFrame DEF ASender, ASendCall, ASendStep,
       ALocal, ATest, ARestore, APollDisconnected, CancelSend, DropSender,
       OutsideStep, LocalStep, Threads
<1>2. ASSUME NEW s \in Senders, APublish(s) PROVE pend'[s] = c
  <2>1. CellOf(s) = c
    BY <1>0, <1>2 DEF APublish, Publish
  <2> QED
    BY <1>0, <1>2, <2>1 DEF APublish, Owes, Threads
<1>3. ASSUME ReceiverNext \/ UNCHANGED vars PROVE FALSE
  BY <1>3, ReceiverFrame DEF vars, cells
<1>4. ASSUME NEW r \in Receivers, AReceiver(r)
      PROVE  ReceiverNext \/ UNCHANGED vars
  BY <1>4, PollStepFrame DEF AReceiver, ARecvCall, ARecvStep, AReceive,
     ARecvTest, ARelease, DropEvent, CancelRecv, ADrop, ReceiverNext, RecvStep,
     Threads
<1>5. ASSUME NEW r \in Receivers, NEW q \in Receivers, AClone(r, q)
      PROVE  ReceiverNext
  BY <1>5 DEF AClone, ReceiverNext
<1> QED
  BY <1>1, <1>2, <1>3, <1>4, <1>5, ANextSplit DEF Threads
\* A Sink that waits for its cell has no listener but one of that cell: taking
\* the token has dropped any other.  Unless it is about to test again, it is
\* called once the cell is free.
SinkOK(s) ==
  s \notin gone /\ IsTask(s) /\ AtCell(s) /\ guard[s] # NONE =>
    /\ guard[s] = CellOf(s)
    /\ CellFree(s) /\ phase[s] # "armed" => Called(s)

\* A Sink at its cell got there by a test that failed, or goes on polling.
LEMMA SinkActs ==
  ASSUME TypeOK, PollInv, NEW s \in Senders, ASender(s),
         s \notin gone', IsTask(s)', AtCell(s)', guard'[s] # NONE
  PROVE  /\ s \notin gone /\ IsTask(s) /\ AtCell(s) /\ id'[s] = id[s]
         /\ \/ guard'[s] = CellOf(s) /\ phase'[s] = "armed"
            \/ /\ guard'[s] = guard[s]
               /\ \/ ~CellFree(s)'
                  \/ /\ UNCHANGED vars
                     /\ phase[s] = "armed" => phase'[s] = "armed"
<1>0. /\ s \in Threads \ gone /\ s \notin Receivers
      /\ pc \in [Senders -> SendPCs] /\ id \in [Senders -> Nat]
      /\ op \in [Senders -> AllSendOps \cup {"none"}]
      /\ phase \in [Threads -> Phases]
      /\ guard \in [Threads -> Events \cup {NONE}]
  BY ThreadsAssumption DEF Threads, TypeOK, PollInv, ASender, ASendCall,
     ASendStep, CancelSend, DropSender
<1>1. CASE ASendCall(s)
  <2>1. PICK o \in SendOps : pc' = [pc EXCEPT ![s] = EntryOf[o]]
    BY <1>1 DEF ASendCall, SendCall
  <2>2. EntryOf[o] \in {"take", "check_connected", "check_deadline"}
    BY OpsAssumption DEF EntryOf, AllSendOps
  <2> QED
    BY <1>0, <2>1, <2>2 DEF AtCell
<1>2. CASE ALocal(s)
  BY <1>0, <1>2 DEF ALocal, CheckDeadline, CheckConnected, CheckReceivers,
     TakeTimeout, CellTimeout, Unwind, Write, Goto, Return, AtCell, Returned
<1>3. CASE ATest(s)
  <2>1. UNCHANGED op
    <3>1. op'[s] = "poll_ready"
      BY <1>0 DEF IsTask
    <3> QED
      BY <1>0, <1>3, <3>1 DEF ATest, Take, TakeFails, CheckCell, AwaitCell,
         Goto, Return
  <2>2. IsTask(s)
    BY <1>0, <2>1 DEF IsTask
  <2>3. ~Ready(s)
    BY <1>0, <1>3, <2>2 DEF ATest, Test, Succeed, DropGuard
  <2>4. CheckCell(s) /\ Fail(s)
    BY <1>0, <1>3, <2>2, <2>3 DEF ATest, Test, Take, TakeFails, AwaitCell,
       Goto, Return, Ready, AtCell
  <2>5. AtCell(s) /\ UNCHANGED <<id, read_counter, guard>>
    BY <1>0, <2>4 DEF CheckCell, AtCell, Goto, Fail, cells
  <2>6. ~CellFree(s)'
    BY <1>0, <2>3, <2>5 DEF Ready, CellFree, CellOf
  <2> QED
    BY <1>0, <2>2, <2>5, <2>6
<1>4. CASE ARestore(s) \/ APublish(s)
  BY <1>0, <1>4 DEF ARestore, APublish, Restore, Publish, Return, AtCell
<1>5. CASE APollDisconnected(s) \/ CancelSend(s)
  BY <1>0, <1>5 DEF APollDisconnected, PollDisconnected, CancelSend,
     TakeTimeout, Return, AtCell
<1>6. CASE DropSender(s)
  BY <1>6 DEF DropSender
<1>7. CASE PollStep(s)
  <2>0. UNCHANGED <<vars, gone>>
    BY <1>0, <1>7, PollStepForm
  <2>1. /\ IsTask(s) /\ AtCell(s) /\ id' = id /\ EventOf(s) = CellOf(s)
        /\ CellFree(s)' <=> CellFree(s)
    BY <2>0 DEF IsTask, AtCell, CellFree, CellOf, EventOf, vars, sendvars,
       recvvars, cells
  <2>2. CASE Retest(s)
    BY <1>0, <2>1, <2>2 DEF Retest, Fail, Ready
  <2>3. CASE Listen(s)
    <3>1. phase'[s] = "armed"
      BY <1>0, <2>3 DEF Listen, SetPhase
    <3>2. guard'[s] = guard[s] \/ guard'[s] = CellOf(s)
      BY <1>0, <2>1, <2>3 DEF Listen
    <3> QED
      BY <1>0, <2>0, <2>1, <3>1, <3>2
  <2>4. CASE PollEvent(s) \/ Poll(s) \/ Notify(s)
    <3>1. guard'[s] = guard[s]
      BY <1>0, <2>4 DEF PollEvent, Poll, Notify, taskvars
    <3>2. phase[s] = "armed" => phase'[s] = "armed"
      BY <2>4 DEF PollEvent, Poll, Notify, taskvars
    <3> QED
      BY <1>0, <2>0, <2>1, <3>1, <3>2
  <2> QED
    BY <1>7, <2>2, <2>3, <2>4 DEF PollStep
<1> QED
  BY <1>1, <1>2, <1>3, <1>4, <1>5, <1>6, <1>7 DEF ASender, ASendStep

\* A sender that did not take the step has not moved.
LEMMA SinkStays ==
  ASSUME "repoll" \notin TaskOps, IInv, PollInv, ANext,
         NEW s \in Senders, ~ASender(s)
  PROVE  /\ pc'[s] = pc[s] /\ op'[s] = op[s] /\ id'[s] = id[s]
         /\ phase'[s] = phase[s] /\ guard'[s] = guard[s]
         /\ s \in gone' <=> s \in gone
<1>0. TypeOK /\ CloneInv /\ s \in Threads /\ s \notin Receivers
  BY ThreadsAssumption DEF IInv, Threads
<1>1. ASSUME NEW u \in Senders \ {s}, ASender(u)
      PROVE  SameWait(s) /\ Effect(u) /\ Alone(u)
  <2>1. SendCall(u) \/ SendStep(u) \/ UNCHANGED vars
    BY <1>1, PollStepFrame DEF ASender, ASendCall, ASendStep, ALocal, ATest,
       ARestore, APublish, APollDisconnected, CancelSend, DropSender, SendStep,
       Threads
  <2>2. SameWait(s)
    BY <1>0, <2>1, SenderTouches DEF vars, sendvars, recvvars, SameWait
  <2> QED
    BY <1>0, <1>1, <2>2, SenderPolls
<1>2. ASSUME NEW r \in Receivers, AReceiver(r)
      PROVE  SameWait(s) /\ Effect(r) /\ Alone(r)
  <2>1. RecvCall(r) \/ RecvStep(r) \/ Drop(r) \/ UNCHANGED vars
    BY <1>2, PollStepFrame DEF AReceiver, ARecvCall, ARecvStep, AReceive,
       ARecvTest, ARelease, DropEvent, CancelRecv, ADrop, RecvStep, Threads
  <2>2. SameWait(s)
    BY <1>0, <2>1, ReceiverTouches DEF vars, sendvars, recvvars, SameWait
  <2> QED
    BY <1>0, <1>2, <2>2, ReceiverPolls
<1>3. ASSUME NEW r \in Receivers, NEW q \in Receivers, AClone(r, q)
      PROVE  SameWait(s) /\ UNCHANGED taskvars
  BY <1>0, <1>3, CloneTouches DEF AClone, Rest
<1>4. ASSUME NEW a \in Threads \ {s}, Effect(a), Alone(a)
      PROVE  /\ phase'[s] = phase[s] /\ guard'[s] = guard[s]
             /\ s \in gone' <=> s \in gone
  BY <1>0, <1>4, EffectForm DEF Alone
<1> QED
  BY <1>0, <1>1, <1>2, <1>3, <1>4, ANextSplit DEF SameWait, Threads, taskvars

\* A Sink whose cell is released is called.
LEMMA SinkStep ==
  ASSUME "repoll" \notin TaskOps, IInv, PollInv, ANext,
         NEW s \in Senders, SinkOK(s)
  PROVE  SinkOK(s)'
<1> SUFFICES ASSUME s \notin gone', IsTask(s)', AtCell(s)', guard'[s] # NONE
             PROVE  /\ guard'[s] = CellOf(s)'
                    /\ CellFree(s)' /\ phase'[s] # "armed" => Called(s)'
  BY DEF SinkOK
<1>a. TypeOK /\ s \in Threads /\ id[s] \in Int
  BY DEF IInv, Threads, TypeOK
<1>0. TypeOK /\ s \in Threads /\ CellOf(s) \in Cells
  BY <1>a, IndexType DEF CellOf
<1>1. /\ s \notin gone /\ IsTask(s) /\ AtCell(s) /\ id'[s] = id[s]
      /\ \/ guard'[s] = CellOf(s) /\ phase'[s] = "armed"
         \/ /\ guard'[s] = guard[s]
            /\ \/ ~CellFree(s)'
               \/ phase[s] = "armed" => phase'[s] = "armed"
  <2>1. CASE ASender(s)
    BY <1>0, <2>1, SinkActs
  <2>2. CASE ~ASender(s)
    BY <1>0, <2>2, SinkStays DEF IsTask, AtCell
  <2> QED
    BY <2>1, <2>2
<1>2. CellOf(s)' = CellOf(s)
  BY <1>1 DEF CellOf
<1>3. CASE guard'[s] = guard[s] /\ CellFree(s)' /\ phase'[s] # "armed"
  <2>1. guard[s] = CellOf(s) /\ phase[s] # "armed"
    BY <1>1, <1>3 DEF SinkOK
  <2>2. CASE CellFree(s)
    <3>1. Called(s)
      BY <1>1, <1>3, <2>1, <2>2 DEF SinkOK
    <3> QED
      BY <1>0, <1>2, <1>3, <2>1, <3>1, AStepForm, EffectForm
  <2>3. CASE ~CellFree(s)
    <3>1. \E u \in Threads : pend'[u] = CellOf(s)
      BY <1>0, <1>2, <1>3, <2>3, ReleaseIsOwed DEF CellFree
    <3> QED
      BY <1>2, <1>3, <2>1, <3>1 DEF Called
  <2> QED
    BY <2>2, <2>3
<1>4. guard'[s] = CellOf(s)'
  BY <1>1, <1>2 DEF SinkOK
<1>5. CellFree(s)' /\ phase'[s] # "armed" => guard'[s] = guard[s]
  BY <1>1
<1> QED
  BY <1>3, <1>4, <1>5
\* The message at the cursor of r is in its cell.
Arrived(r) == current_id[fast_mod(cursor[r])] = cursor[r]

\* The listener of a receiver belongs to a cell.  Unless it is for the cell at
\* the cursor and r is about to test, or nothing has arrived there, it is
\* called: a listener that an abandoned poll left behind included.
StreamOK(r) ==
  guard[r] # NONE =>
    /\ guard[r] \in Cells
    /\ Holding(r) /\ (\/ guard[r] # fast_mod(cursor[r])
                      \/ Arrived(r) /\ phase[r] # "armed")
         => Called(r)

\* A receiver that moves on has seen the message at its cursor, and it is
\* still there.
LEMMA MovesOnArrival ==
  ASSUME IInv, NEW r \in Receivers, rpc[r] = "move_from"
  PROVE  Arrived(r)
<1>1. /\ cursor[r] \in Nat \ {0} /\ num_read[r] \in Nat /\ num_read[r] > 0
      /\ Len(log) \in Nat /\ N \in Nat
  BY RingAssumption DEF IInv, TypeOK, HandleInv
<1>2. /\ Holding(r) /\ Connected
      /\ cursor[r] - 1 > Len(log) - N /\ LastId(r) <= Len(log)
      /\ \A s \in Senders : InFlight(s) => id[s] > LastId(r)
  BY DEF IInv, WindowInv, Holding, Connected
<1>3. LastId(r) = cursor[r] + num_read[r] - 1
  BY DEF LastId
<1>4. cursor[r] \in 1 .. Len(log) /\ cursor[r] > Len(log) - N
  BY <1>1, <1>2, <1>3
<1>5. \A s \in Senders : InFlight(s) => id[s] # cursor[r]
  <2>1. \A s \in Senders : id[s] \in Nat
    BY DEF IInv, TypeOK
  <2> QED
    BY <1>1, <1>2, <1>3, <2>1
<1> QED
  BY <1>2, <1>4, <1>5 DEF IInv, ContentInv, Arrived

\* What a step of its own does to the listener of a receiver.
LEMMA StreamActs ==
  ASSUME IInv, PollInv, NEW r \in Receivers, AReceiver(r), guard'[r] # NONE,
         Holding(r)'
  PROVE  /\ Holding(r)
         /\ \/ /\ guard'[r] = fast_mod(cursor[r]) /\ phase'[r] = "armed"
               /\ cursor'[r] = cursor[r]
            \/ /\ guard'[r] = guard[r] /\ cursor'[r] = cursor[r]
               /\ phase[r] = "armed" => phase'[r] = "armed" \/ ~Arrived(r)'
            \/ guard'[r] = guard[r] /\ rpc[r] = "move_from" /\ phase[r] = "test"
<1>0. /\ r \in Threads \ gone /\ r \notin Senders /\ TypeOK
      /\ rpc \in [Receivers -> RecvPCs] /\ cursor[r] \in Nat
      /\ rop \in [Receivers -> AllRecvOps \cup {"none"}]
      /\ phase \in [Threads -> Phases] /\ PollOK(r)
      /\ guard \in [Threads -> Events \cup {NONE}]
  BY ThreadsAssumption DEF Threads, IInv, TypeOK, PollInv
<1>1. CASE ARecvCall(r) \/ AReceive(r) \/ ADrop(r)
  <2>1. UNCHANGED <<cursor, phase, guard>>
    BY <1>1 DEF ARecvCall, RecvCall, AReceive, BatchRead, MoveTo, Read,
       CloneCount, RecvTimeout, ADrop, Drop, Rest, taskvars
  <2>2. Holding(r)
    BY <1>1 DEF ARecvCall, RecvCall, AReceive, BatchRead, MoveTo, Read,
       CloneCount, RecvTimeout, ADrop, Drop, Holding
  <2> QED
    BY <2>1, <2>2
<1>2. CASE ARecvTest(r)
  <2>0. /\ Holding(r) /\ rpc[r] \in {"check", "await"}
        /\ UNCHANGED <<cursor, current_id>>
    BY <1>2 DEF ARecvTest, Accept, NotPublished, Holding, cells
  <2>1. CASE ~IsTask(r)
    BY <1>2, <2>0, <2>1 DEF ARecvTest, Test, Rest, taskvars
  <2>2. CASE IsTask(r)
    <3>1. ~Ready(r) /\ Fail(r)
      BY <1>0, <1>2, <2>2 DEF ARecvTest, Test, Succeed, DropGuard
    <3>2. num_read[r] = 0
      BY <1>0, <2>0, <2>2 DEF IInv, HandleInv, IsTask
    <3>3. NextId(r) = cursor[r]
      BY <1>0, <3>2 DEF NextId
    <3>4. ~Arrived(r)'
      BY <1>0, <2>0, <3>1, <3>3 DEF Ready, Published, Arrived
    <3> QED
      BY <2>0, <3>1, <3>4 DEF Fail
  <2> QED
    BY <2>1, <2>2
<1>3. CASE ARelease(r)
  <2>1. CASE MoveFrom(r)
    <3>1. rpc[r] = "move_from" /\ UNCHANGED guard
      BY <1>3, <2>1 DEF ARelease, MoveFrom, taskvars
    <3>2. phase[r] = "test"
      BY <1>0, <3>1 DEF PollOK, Waiting
    <3> QED
      BY <3>1, <3>2 DEF Holding
  <2>2. CASE DropCell(r)
    BY <1>0, <2>2 DEF DropCell, GotoR, Holding
  <2> QED
    BY <1>3, <2>1, <2>2 DEF ARelease
<1>4. CASE DropEvent(r)
  BY <1>0, <1>4 DEF DropEvent, DropGuard
<1>5. CASE CancelRecv(r)
  BY <1>0, <1>5 DEF CancelRecv, RecvTimeout, Holding
<1>6. CASE PollStep(r)
  <2>0. UNCHANGED vars
    BY <1>0, <1>6, PollStepFrame
  <2>1. /\ Holding(r) /\ cursor' = cursor /\ EventOf(r) = fast_mod(cursor[r])
        /\ Arrived(r)' <=> Arrived(r)
    BY <1>0, <2>0 DEF Holding, EventOf, Arrived, vars, recvvars, cells
  <2>2. CASE Retest(r)
    <3>1. rpc[r] = "await" /\ ~Published(r) /\ UNCHANGED guard
      BY <1>0, <2>2 DEF Retest, Waiting, Ready, Fail
    <3>2. num_read[r] = 0
      BY <3>1 DEF IInv, HandleInv
    <3>3. NextId(r) = cursor[r]
      BY <1>0, <3>2 DEF NextId
    <3>4. ~Arrived(r)'
      BY <2>1, <3>1, <3>3 DEF Published, Arrived
    <3> QED
      BY <2>1, <3>1, <3>4
  <2>3. CASE Listen(r)
    <3>1. phase'[r] = "armed"
      BY <1>0, <2>3 DEF Listen, SetPhase
    <3>2. guard'[r] = guard[r] \/ guard'[r] = fast_mod(cursor[r])
      BY <1>0, <2>1, <2>3 DEF Listen
    <3> QED
      BY <2>1, <3>1, <3>2
  <2>4. CASE PollEvent(r) \/ Poll(r) \/ Notify(r)
    <3>1. guard'[r] = guard[r]
      BY <1>0, <2>4 DEF PollEvent, Poll, Notify, taskvars
    <3>2. phase[r] = "armed" => phase'[r] = "armed"
      BY <2>4 DEF PollEvent, Poll, Notify, taskvars
    <3> QED
      BY <2>1, <3>1, <3>2
  <2> QED
    BY <1>6, <2>2, <2>3, <2>4 DEF PollStep
<1> QED
  BY <1>1, <1>2, <1>3, <1>4, <1>5, <1>6 DEF AReceiver, ARecvStep

\* A receiver with a listener that did not take the step has not moved.
LEMMA StreamStays ==
  ASSUME "repoll" \notin TaskOps, IInv, PollInv, ANext,
         NEW r \in Receivers, ~AReceiver(r), guard'[r] # NONE, Holding(r)'
  PROVE  /\ Holding(r) /\ cursor'[r] = cursor[r]
         /\ guard'[r] = guard[r] /\ phase'[r] = phase[r]
<1>0. /\ TypeOK /\ CloneInv /\ r \in Threads /\ r \notin Senders
      /\ rpc \in [Receivers -> RecvPCs] /\ cursor \in [Receivers -> Nat]
  BY ThreadsAssumption DEF IInv, TypeOK, Threads
<1>1. ASSUME NEW a \in Threads \ {r}, Effect(a), Alone(a)
      PROVE  phase'[r] = phase[r] /\ guard'[r] = guard[r]
  BY <1>0, <1>1, EffectForm DEF Alone
<1>2. ASSUME NEW s \in Senders, ASender(s)
      PROVE  /\ UNCHANGED recvvars
             /\ phase'[r] = phase[r] /\ guard'[r] = guard[r]
  <2>1. SendCall(s) \/ SendStep(s) \/ UNCHANGED vars
    BY <1>2, PollStepFrame DEF ASender, ASendCall, ASendStep, ALocal, ATest,
       ARestore, APublish, APollDisconnected, CancelSend, DropSender, SendStep,
       Threads
  <2> QED
    BY <1>0, <1>1, <1>2, <2>1, SenderPolls, SenderFrame DEF SenderNext, vars,
       Threads
<1>3. ASSUME NEW q \in Receivers \ {r}, AReceiver(q)
      PROVE  /\ Holding(r) /\ cursor'[r] = cursor[r]
             /\ phase'[r] = phase[r] /\ guard'[r] = guard[r]
  <2>1. RecvCall(q) \/ RecvStep(q) \/ Drop(q) \/ UNCHANGED vars
    BY <1>3, PollStepFrame DEF AReceiver, ARecvCall, ARecvStep, AReceive,
       ARecvTest, ARelease, DropEvent, CancelRecv, ADrop, RecvStep, Threads
  <2>2. cursor'[r] = cursor[r]
    BY <1>0, <2>1 DEF RecvStep, RecvCall, Accept, NotPublished, RecvTimeout,
       BatchRead, MoveTo, MoveFrom, Read, Drop, DropCell, CloneCount, vars,
       recvvars
  <2>3. Holding(r)
    <3>1. CASE CloneCount(q)
      BY <1>0, <3>1 DEF CloneCount, CloneInv, Holding
    <3>2. CASE ~CloneCount(q)
      BY <1>0, <2>1, <3>2 DEF RecvStep, RecvCall, Accept, NotPublished,
         RecvTimeout, BatchRead, MoveTo, MoveFrom, Read, Drop, DropCell, GotoR,
         EndReceive, vars, recvvars, Holding
    <3> QED
      BY <3>1, <3>2
  <2> QED
    BY <1>0, <1>1, <1>3, <2>2, <2>3, ReceiverPolls DEF Threads
<1>4. ASSUME NEW p \in Receivers, NEW q \in Receivers, AClone(p, q)
      PROVE  /\ Holding(r) /\ cursor'[r] = cursor[r]
             /\ phase'[r] = phase[r] /\ guard'[r] = guard[r]
  <2>1. Clone(p, q) /\ guard[q] = NONE /\ UNCHANGED taskvars
    BY <1>4 DEF AClone, Rest
  <2>2. r # q
    BY <2>1 DEF taskvars
  <2> QED
    BY <1>0, <2>1, <2>2 DEF Clone, Holding, taskvars
<1> QED
  BY <1>2, <1>3, <1>4, ANextSplit DEF recvvars, Holding

\* A receiver's listener goes on belonging to a cell.
LEMMA StreamGuard ==
  ASSUME "repoll" \notin TaskOps, IInv, PollInv, ANext,
         NEW r \in Receivers, StreamOK(r), guard'[r] # NONE
  PROVE  guard'[r] \in Cells
<1>0. TypeOK /\ r \in Threads /\ EventOf(r) \in Cells
      /\ guard \in [Threads -> Events \cup {NONE}]
  BY EventOfType DEF IInv, Threads, PollInv
<1>1. PICK a \in Threads : Effect(a)
  BY AStepForm
<1>2. CASE guard'[r] = guard[r]
  BY <1>2 DEF StreamOK
<1>3. CASE guard'[r] # guard[r]
  <2>1. r = a
    BY <1>0, <1>1, <1>3, EffectForm
  <2>2. Registers(r)
    BY <1>0, <1>1, <1>3, <2>1 DEF Effect, Leaves, DropGuard, Spends, Notifies
  <2> QED
    BY <1>0, <2>2 DEF Registers
<1> QED
  BY <1>2, <1>3

\* A Stream is called once its message has arrived, or the cursor has gone by
\* the cell of its listener.
LEMMA StreamStep ==
  ASSUME "repoll" \notin TaskOps, IInv, PollInv, ANext,
         NEW r \in Receivers, StreamOK(r)
  PROVE  StreamOK(r)'
<1>1. CASE guard'[r] = NONE
  BY <1>1 DEF StreamOK
<1>2. CASE guard'[r] # NONE
  <2>0. TypeOK /\ r \in Threads /\ guard'[r] \in Cells
    BY <1>2, StreamGuard DEF IInv, Threads
  <2> SUFFICES ASSUME Holding(r)',
                      \/ guard'[r] # fast_mod(cursor'[r])
                      \/ Arrived(r)' /\ phase'[r] # "armed"
               PROVE  Called(r)'
    BY <2>0 DEF StreamOK
  <2>1. /\ Holding(r)
        /\ \/ /\ guard'[r] = fast_mod(cursor[r]) /\ phase'[r] = "armed"
              /\ cursor'[r] = cursor[r]
           \/ /\ guard'[r] = guard[r] /\ cursor'[r] = cursor[r]
              /\ phase[r] = "armed" => phase'[r] = "armed" \/ ~Arrived(r)'
           \/ guard'[r] = guard[r] /\ rpc[r] = "move_from" /\ phase[r] = "test"
    BY <1>2, StreamActs, StreamStays
  <2>2. ASSUME Called(r), guard'[r] = guard[r]
        PROVE  Called(r)'
    BY <2>0, <2>2, AStepForm, EffectForm
  <2>3. CASE guard'[r] = guard[r] /\ guard[r] # fast_mod(cursor[r])
    BY <1>2, <2>1, <2>2, <2>3 DEF StreamOK
  <2>4. CASE guard'[r] = guard[r] /\ rpc[r] = "move_from" /\ phase[r] = "test"
    BY <1>2, <2>1, <2>2, <2>4, MovesOnArrival DEF StreamOK
  <2>5. CASE /\ guard'[r] = guard[r] /\ guard[r] = fast_mod(cursor[r])
             /\ cursor'[r] = cursor[r]
             /\ phase[r] = "armed" => phase'[r] = "armed" \/ ~Arrived(r)'
    <3>1. Arrived(r)' /\ phase[r] # "armed"
      BY <2>5
    <3>2. CASE Arrived(r)
      BY <1>2, <2>1, <2>2, <2>5, <3>1, <3>2 DEF StreamOK
    <3>3. CASE ~Arrived(r)
      <4>1. current_id'[guard[r]] # current_id[guard[r]]
        BY <2>5, <3>1, <3>3 DEF Arrived
      <4>2. \E u \in Threads : pend'[u] = guard[r]
        BY <2>0, <2>5, <4>1, PublishIsOwed
      <4> QED
        BY <2>5, <4>2 DEF Called
    <3> QED
      BY <3>2, <3>3
  <2> QED
    BY <2>1, <2>3, <2>4, <2>5
<1> QED
  BY <1>1, <1>2

\* All tasks are looked after.
CallInv == /\ \A s \in Senders : SinkOK(s)
           /\ \A r \in Receivers : StreamOK(r)

(***************************************************************************)
(* No wake-up of a task is lost on a cell, whichever futures and handles   *)
(* are dropped and whatever other calls the handles make between polls.    *)
(* What it rests on: a listener for another cell than the one waited for   *)
(* has always been notified, because the cursor leaves a cell only once    *)
(* its message has been published.                                         *)
(***************************************************************************)
THEOREM TaskWakeupCorrect ==
  ASSUME "repoll" \notin TaskOps
  PROVE  ASpec => []TaskWakeup
<1>1. AInit => CallInv
  BY DEF AInit, CallInv, SinkOK, StreamOK, Threads
<1>2. IInv /\ PollInv /\ CallInv /\ ANext => CallInv'
  BY SinkStep, StreamStep DEF CallInv
<1>3. CallInv /\ UNCHANGED avars => CallInv'
  BY DEF CallInv, SinkOK, StreamOK, Called, Arrived, Holding, IsTask, AtCell,
     CellOf, CellFree, avars, vars, cells, sendvars, recvvars, eventvars,
     taskvars
<1>4. ASSUME IInv, PollInv, CallInv PROVE TaskWakeup
  <2> SUFFICES ASSUME NEW t \in Threads \ gone, phase[t] = "pending",
                      EventOf(t) # HEAD, Ready(t)
               PROVE  Called(t)
    BY DEF TaskWakeup, Called
  <2>0. IsTask(t) /\ Waiting(t) /\ guard[t] # NONE /\ TypeOK
    BY <1>4 DEF PollInv, PollOK, IInv
  <2>1. CASE t \in Senders
    <3>1. AtCell(t)
      BY <2>0, <2>1, EventOfType
    <3>2. CellFree(t)
      BY <2>1, <3>1 DEF Ready
    <3> QED
      BY <1>4, <2>0, <2>1, <3>1, <3>2 DEF CallInv, SinkOK
  <2>2. CASE t \in Receivers
    <3>0. t \notin Senders
      BY <2>2, ThreadsAssumption
    <3>1. rpc[t] = "await" /\ Published(t)
      BY <2>0, <3>0 DEF Waiting, Ready
    <3>2. num_read[t] = 0 /\ cursor[t] \in Nat
      BY <1>4, <2>0, <2>2, <3>1 DEF IInv, HandleInv, TypeOK
    <3>3. NextId(t) = cursor[t]
      BY <3>2 DEF NextId
    <3>4. Holding(t) /\ Arrived(t)
      BY <3>1, <3>3 DEF Holding, Arrived, Published
    <3> QED
      BY <1>4, <2>0, <2>2, <3>4 DEF CallInv, StreamOK
  <2> QED
    BY <2>1, <2>2 DEF Threads
<1> QED
  BY <1>1, <1>2, <1>3, <1>4, AsyncInductive, PTL DEF ASpec
-----------------------------------------------------------------------------
(* No wake-up of a Sink is lost on the write head.                          *)

\* Senders that use send and poll_ready do not put an id back.
SinkOnly ==
  \A s \in Senders :
    op[s] \in {"send", "poll_ready", "none"} /\ pc[s] # "unwind"

\* They never do.
LEMMA SinkOnlyInductive ==
  ASSUME SendOps \subseteq {"send", "poll_ready"}
  PROVE  Spec => []SinkOnly
<1>1. Init => SinkOnly
  BY DEF Init, SinkOnly
<1>2. IInv /\ SinkOnly /\ [Next]_vars => SinkOnly'
  <2> SUFFICES ASSUME IInv, SinkOnly, [Next]_vars PROVE SinkOnly'
    OBVIOUS
  <2>0. /\ pc \in [Senders -> SendPCs]
        /\ op \in [Senders -> AllSendOps \cup {"none"}]
    BY DEF IInv, TypeOK
  <2>1. ASSUME NEW s \in Senders, SendCall(s) PROVE SinkOnly'
    <3>1. PICK o \in SendOps : /\ pc' = [pc EXCEPT ![s] = EntryOf[o]]
                               /\ op' = [op EXCEPT ![s] = o]
      BY <2>1 DEF SendCall
    <3>2. o \in {"send", "poll_ready"}
      OBVIOUS
    <3>3. EntryOf[o] \in {"take", "check_connected"}
      BY <3>2 DEF EntryOf
    <3> QED
      BY <2>0, <3>1, <3>2, <3>3 DEF SinkOnly
  <2>2. ASSUME NEW s \in Senders, SendStep(s) PROVE SinkOnly'
    BY <2>0, <2>2 DEF SinkOnly, SendStep, CheckDeadline, CheckConnected,
       Take, TakeFails, TakeTimeout, CheckCell, AwaitCell, CellTimeout,
       CheckReceivers, PollDisconnected, Unwind, Restore, Write, Publish, Goto,
       Return
  <2>3. CASE ReceiverNext \/ UNCHANGED vars
    BY <2>3, ReceiverFrame DEF vars, sendvars, SinkOnly
  <2> QED
    BY <2>1, <2>2, <2>3, NextSplit DEF SenderNext
<1> QED
  BY <1>1, <1>2, Inductive, PTL DEF Spec

\* The head is put back only by a step that goes on to notify a sender.
LEMMA RestoreIsOwed ==
  ASSUME "repoll" \notin TaskOps, IInv, PollInv, SinkOnly, ANext,
         write_head = TAKEN, write_head' # TAKEN
  PROVE  \E u \in Senders : pend'[u] = HEAD
<1>0. pend \in [Threads -> Events \cup {NONE}]
  BY DEF PollInv, EventsOK, EventsTypeOK
<1>1. ASSUME NEW s \in Senders, ASender(s) PROVE ARestore(s)
  <2>1. CASE \/ SendCall(s) \/ LocalStep(s) \/ Write(s) \/ Publish(s)
             \/ Take(s) \/ UNCHANGED vars
    BY <2>1 DEF SendCall, LocalStep, CheckDeadline, CheckConnected, TakeFails,
       TakeTimeout, CheckCell, AwaitCell, CellTimeout, CheckReceivers,
       PollDisconnected, Write, Publish, Take, vars
  <2>2. ~Unwind(s)
    BY DEF SinkOnly, Unwind
  <2> QED
    BY <1>1, <2>1, <2>2, PollStepFrame DEF ASender, ASendCall, ASendStep,
       ALocal, ATest, APublish, APollDisconnected, CancelSend, DropSender,
       LocalStep, Threads
<1>2. ASSUME NEW s \in Senders, ARestore(s) PROVE pend'[s] = HEAD
  BY <1>0, <1>2 DEF ARestore, Owes, Threads
<1>3. ASSUME ReceiverNext \/ UNCHANGED vars PROVE FALSE
  BY <1>3, ReceiverFrame DEF vars
<1>4. ASSUME NEW r \in Receivers, AReceiver(r)
      PROVE  ReceiverNext \/ UNCHANGED vars
  BY <1>4, PollStepFrame DEF AReceiver, ARecvCall, ARecvStep, AReceive,
     ARecvTest, ARelease, DropEvent, CancelRecv, ADrop, ReceiverNext, RecvStep,
     Threads
<1>5. ASSUME NEW r \in Receivers, NEW q \in Receivers, AClone(r, q)
      PROVE  ReceiverNext
  BY <1>5 DEF AClone, ReceiverNext
<1> QED
  BY <1>1, <1>2, <1>3, <1>4, <1>5, ANextSplit

\* While a receiver is left, a Sink has a listener only while it waits, and for
\* what it waits for: no future is abandoned.  A handle that is dropped drops
\* its listener.
GuardFits(s) ==
  /\ s \in gone => guard[s] = NONE
  /\ LiveReceivers # {} /\ guard[s] # NONE =>
       IsTask(s) /\ Waiting(s) /\ guard[s] = EventOf(s)

\* A channel that has no receiver gets none.
LEMMA NoneLeft ==
  ASSUME "repoll" \notin TaskOps, IInv, ANext, LiveReceivers = {}
  PROVE  LiveReceivers' = {}
<1>1. [Next]_vars
  BY AStep
<1>2. CASE ReceiverNext
  BY <1>2, ReceiverCount DEF IInv
<1>3. CASE SenderNext \/ UNCHANGED vars
  BY <1>3, SenderFrame DEF vars, recvvars, LiveReceivers, Live
<1> QED
  BY <1>1, <1>2, <1>3, NextSplit

\* num_receivers is not 0 while one is left.
LEMMA CountedLive ==
  ASSUME IInv, num_receivers = 0
  PROVE  LiveReceivers = {}
<1>1. LiveReceivers \in SUBSET Receivers
  BY DEF LiveReceivers
<1> QED
  BY <1>1, CountHandles DEF IInv, CountersExact

\* The listener of a Sink goes with its wait.
LEMMA FitStep ==
  ASSUME TaskOps \subseteq {"drop"}, IInv, PollInv, ANext,
         NEW s \in Senders, GuardFits(s)
  PROVE  GuardFits(s)'
<1>0. /\ "repoll" \notin TaskOps /\ "cancel" \notin TaskOps
      /\ TypeOK /\ s \in Threads /\ s \notin Receivers
      /\ pc \in [Senders -> SendPCs] /\ id \in [Senders -> Nat]
      /\ op \in [Senders -> AllSendOps \cup {"none"}]
      /\ guard \in [Threads -> Events \cup {NONE}]
  BY ThreadsAssumption DEF Threads, IInv, TypeOK, PollInv
<1>1. CASE ~ASender(s)
  <2>1. /\ pc'[s] = pc[s] /\ op'[s] = op[s] /\ id'[s] = id[s]
        /\ guard'[s] = guard[s]
        /\ s \in gone' <=> s \in gone
    BY <1>0, <1>1, SinkStays
  <2>2. /\ IsTask(s)' <=> IsTask(s)
        /\ Waiting(s)' <=> Waiting(s)
        /\ EventOf(s)' = EventOf(s)
    BY <2>1 DEF IsTask, Waiting, EventOf, AtCell, CellOf
  <2> QED
    BY <1>0, <2>1, <2>2, NoneLeft DEF GuardFits
<1>2. CASE ASender(s)
  <2>0. s \notin gone /\ PollOK(s)
    BY <1>0, <1>2 DEF ASender, ASendCall, ASendStep, CancelSend, DropSender,
       PollInv
  <2>1. CASE DropSender(s)
    BY <1>0, <2>1 DEF DropSender, DropGuard, GuardFits
  <2>2. CASE ~DropSender(s)
    <3>1. s \notin gone'
      BY <1>2, <2>0, <2>2 DEF ASender, ASendCall, ASendStep, ALocal, ATest,
         Test, Rest, Succeed, Fail, ARestore, APublish, APollDisconnected,
         CancelSend, PollStep, Retest, Listen, PollEvent, Poll, Notify, taskvars
    <3> SUFFICES ASSUME LiveReceivers' # {}, guard'[s] # NONE
                 PROVE  IsTask(s)' /\ Waiting(s)' /\ guard'[s] = EventOf(s)'
      BY <3>1 DEF GuardFits
    <3>2. LiveReceivers # {}
      BY <1>0, NoneLeft
    <3>3. ~CancelSend(s) /\ ~APollDisconnected(s)
      BY <1>0, <3>2, CountedLive DEF CancelSend, APollDisconnected,
         PollDisconnected
    <3>4. ASSUME ASendCall(s) \/ ALocal(s) \/ ARestore(s) \/ APublish(s)
          PROVE  ~(IsTask(s) /\ Waiting(s)) /\ guard' = guard
      BY <1>0, <3>4 DEF ASendCall, SendCall, Returned, ALocal, CheckDeadline,
         CheckConnected, CheckReceivers, CellTimeout, Unwind, Write, ARestore,
         Restore, APublish, Publish, Waiting, IsTask, Rest, taskvars
    <3>5. ASSUME ATest(s)
          PROVE  ~(IsTask(s) /\ Waiting(s)) /\ guard' = guard
      <4>1. CASE ~IsTask(s)
        BY <3>5, <4>1 DEF ATest, Test, Rest, taskvars
      <4>2. CASE IsTask(s)
        <5>1. ~Ready(s) /\ Fail(s)
          BY <1>0, <3>5, <4>2 DEF ATest, Test, Succeed, DropGuard
        <5>2. TakeFails(s) \/ CheckCell(s)
          BY <1>0, <3>5, <5>1 DEF ATest, Take, AwaitCell, Ready, AtCell
        <5> QED
          BY <1>0, <5>1, <5>2 DEF TakeFails, CheckCell, Waiting, Fail
      <4> QED
        BY <4>1, <4>2
    <3>6. PollStep(s)
      BY <1>2, <2>2, <3>2, <3>3, <3>4, <3>5 DEF ASender, ASendStep, GuardFits
    <3>7. UNCHANGED vars
      BY <1>0, <3>6, PollStepFrame
    <3>8. /\ IsTask(s)' <=> IsTask(s)
          /\ Waiting(s)' <=> Waiting(s)
          /\ EventOf(s)' = EventOf(s)
      BY <3>7 DEF IsTask, Waiting, EventOf, AtCell, CellOf, vars, sendvars,
         recvvars
    <3>9. CASE guard'[s] = guard[s]
      BY <3>2, <3>8, <3>9 DEF GuardFits
    <3>10. CASE guard'[s] # guard[s]
      <4>1. Listen(s) /\ guard'[s] = EventOf(s)
        BY <1>0, <3>6, <3>10 DEF PollStep, Retest, Fail, Listen, PollEvent,
           Poll, Notify, taskvars
      <4> QED
        BY <2>0, <3>8, <4>1 DEF Listen, PollOK
    <3> QED
      BY <3>9, <3>10
  <2> QED
    BY <2>1, <2>2
<1> QED
  BY <1>1, <1>2
\* A poll that found its listener not notified, or is about to look.
Resting(s) == phase[s] \in {"event", "pending"}

\* Who looks after a Sink that rests beside a free token.
Looks(u) == pc[u] \in {"take", "await_token"} /\ ~Resting(u)
Minds(u) == pend[u] = HEAD \/ u \in notified[HEAD] \/ Looks(u)

HeadOK ==
  (/\ LiveReceivers # {} /\ write_head # TAKEN
   /\ \E s \in Senders \ gone : Resting(s) /\ EventOf(s) = HEAD)
    => \E u \in Senders : Minds(u)

\* A Sink that rests beside a free token rested before: it went to rest after
\* a test that failed.
LEMMA RestedBefore ==
  ASSUME "repoll" \notin TaskOps, IInv, PollInv, ANext,
         NEW s \in Senders \ gone', Resting(s)', EventOf(s)' = HEAD,
         write_head' # TAKEN
  PROVE  s \notin gone /\ Resting(s) /\ EventOf(s) = HEAD
<1>0. /\ TypeOK /\ s \in Threads /\ s \notin Receivers
      /\ phase \in [Threads -> Phases]
  BY ThreadsAssumption DEF Threads, IInv, PollInv
<1>1. CASE ~ASender(s)
  BY <1>1, SinkStays DEF Resting, EventOf, AtCell, CellOf
<1>2. CASE ASender(s)
  <2>0. s \in Threads \ gone /\ PollOK(s) /\ ~DropSender(s)
    BY <1>0, <1>2 DEF ASender, ASendCall, ASendStep, CancelSend, DropSender,
       PollInv
  <2>1. ASSUME ASendCall(s) \/ ALocal(s) \/ ARestore(s) \/ APublish(s)
        PROVE  phase'[s] = "test"
    <3>1. ~(IsTask(s) /\ Waiting(s)) /\ phase' = phase
      BY <1>0, <2>1 DEF ASendCall, SendCall, Returned, ALocal, CheckDeadline,
         CheckConnected, CheckReceivers, CellTimeout, Unwind, Write, ARestore,
         Restore, APublish, Publish, Waiting, IsTask, Rest, taskvars
    <3> QED
      BY <2>0, <3>1 DEF PollOK
  <2>2. ASSUME APollDisconnected(s) \/ CancelSend(s)
        PROVE  phase'[s] = "test"
    BY <1>0, <2>2 DEF APollDisconnected, CancelSend, SetPhase
  <2>3. ASSUME ATest(s)
        PROVE  phase'[s] \in {"test", "listen"}
    <3>1. CASE ~IsTask(s)
      BY <2>0, <2>3, <3>1 DEF ATest, Test, Rest, taskvars, PollOK
    <3>2. CASE IsTask(s) /\ Ready(s)
      BY <1>0, <2>3, <3>2 DEF ATest, Test, Succeed, SetPhase
    <3>3. CASE IsTask(s) /\ ~Ready(s)
      <4>1. TakeFails(s) \/ CheckCell(s)
        BY <1>0, <2>3, <3>3 DEF ATest, Take, AwaitCell, Ready, AtCell
      <4>2. phase[s] = "test"
        BY <1>0, <2>0, <4>1 DEF TakeFails, CheckCell, Waiting, PollOK
      <4>3. phase' = [phase EXCEPT ![s] = AfterFailure["test"]]
        BY <2>3, <3>3, <4>2 DEF ATest, Test, Fail, SetPhase
      <4> QED
        BY <1>0, <4>3 DEF AfterFailure
    <3> QED
      BY <3>1, <3>2, <3>3
  <2>4. PollStep(s)
    BY <1>2, <2>0, <2>1, <2>2, <2>3 DEF ASender, ASendStep, Resting
  <2>5. UNCHANGED vars
    BY <1>0, <2>4, PollStepFrame
  <2>6. EventOf(s) = HEAD /\ ~AtCell(s) /\ write_head # TAKEN
    BY <1>0, <2>5, EventOfType DEF EventOf, AtCell, CellOf, vars, sendvars,
       recvvars
  <2>7. ~Retest(s)
    BY <2>6 DEF Retest, Ready
  <2>8. Resting(s)
    BY <1>0, <2>4, <2>7 DEF PollStep, Listen, PollEvent, Poll, Notify,
       SetPhase, taskvars, Resting
  <2> QED
    BY <2>0, <2>6, <2>8
<1> QED
  BY <1>1, <1>2

\* A sender that is about to test finds the token.
LEMMA LooksOn ==
  ASSUME "repoll" \notin TaskOps, IInv, PollInv, SinkOnly, ANext,
         write_head # TAKEN, write_head' # TAKEN, NEW u \in Senders, Looks(u)
  PROVE  Looks(u)'
<1>0. /\ TypeOK /\ u \in Threads /\ u \notin Receivers
      /\ phase \in [Threads -> Phases]
  BY ThreadsAssumption DEF Threads, IInv, PollInv
<1>1. CASE ~ASender(u)
  BY <1>1, SinkStays DEF Looks, Resting
<1>2. CASE ASender(u)
  <2>1. ~ASendCall(u) /\ ~ARestore(u) /\ ~APublish(u)
    BY DEF Looks, ASendCall, SendCall, Returned, ARestore, Restore, APublish,
       Publish
  <2>2. ~ALocal(u)
    BY <1>0 DEF Looks, SinkOnly, IsTask, ALocal, CheckDeadline, CheckConnected,
       CheckReceivers, TakeTimeout, CellTimeout, Unwind, Write
  <2>3. ~ATest(u)
    BY DEF Looks, ATest, Take, TakeFails, CheckCell, AwaitCell
  <2>4. ~APollDisconnected(u) /\ ~CancelSend(u) /\ ~DropSender(u)
    BY DEF Looks, Resting, APollDisconnected, CancelSend, DropSender, Returned
  <2>5. PollStep(u)
    BY <1>2, <2>1, <2>2, <2>3, <2>4 DEF ASender, ASendStep
  <2>6. UNCHANGED vars
    BY <1>0, <2>5, PollStepFrame
  <2>7. ~Retest(u)
    BY <1>0 DEF Retest, Ready, AtCell, Looks
  <2>8. ~Resting(u)'
    BY <1>0, <2>5, <2>7 DEF PollStep, Listen, PollEvent, Poll, Notify,
       SetPhase, taskvars, Resting, Looks
  <2> QED
    BY <2>6, <2>8 DEF Looks, vars, sendvars
<1> QED
  BY <1>1, <1>2

\* A Sink gives up a listener of the head when it is notified, or goes.
LEMMA HeadListener ==
  ASSUME "repoll" \notin TaskOps, IInv, PollInv, SinkOnly, ANext,
         write_head' # TAKEN, LiveReceivers # {},
         NEW u \in Senders, GuardFits(u), guard[u] = HEAD, guard'[u] # HEAD
  PROVE  ASender(u) /\ (u \in gone' \/ Looks(u)')
<1>0. /\ TypeOK /\ u \in Threads /\ u \notin Receivers /\ HEAD # NONE
      /\ guard \in [Threads -> Events \cup {NONE}]
      /\ phase \in [Threads -> Phases]
  BY ThreadsAssumption, EventSet DEF Threads, IInv, PollInv
<1>1. ASender(u)
  BY SinkStays
<1>2. /\ IsTask(u) /\ Waiting(u) /\ EventOf(u) = HEAD
  BY <1>0 DEF GuardFits
<1>3. pc[u] = "await_token"
  BY <1>0, <1>2, EventOfType DEF Waiting, AtCell
<1>4. CASE DropSender(u)
  BY <1>1, <1>4 DEF DropSender
<1>5. CASE ~DropSender(u)
  <2>1. /\ ~ASendCall(u) /\ ~ARestore(u) /\ ~APublish(u) /\ ~CancelSend(u)
        /\ ~ALocal(u) /\ ~APollDisconnected(u)
    BY DEF ASendCall, ARestore, APublish, CancelSend, ALocal, Rest,
       APollDisconnected, taskvars
  <2>2. ~ATest(u)
    BY <1>0, <1>2, <1>3 DEF ATest, Take, TakeFails, CheckCell, AwaitCell
  <2>3. PollStep(u)
    BY <1>1, <1>5, <2>1, <2>2 DEF ASender, ASendStep
  <2>4. UNCHANGED vars
    BY <1>0, <2>3, PollStepFrame
  <2>5. PollEvent(u) /\ phase'[u] = "woken"
    BY <1>0, <2>3 DEF PollStep, Retest, Fail, Listen, PollEvent, Poll, Notify,
       SetPhase, taskvars
  <2> QED
    BY <1>1, <1>3, <2>4, <2>5 DEF Looks, Resting, vars, sendvars
<1> QED
  BY <1>4, <1>5

\* A notification of the head stays until the Sink that received it looks, and
\* goes to another one when its handle is dropped.
LEMMA NotifiedHead ==
  ASSUME "repoll" \notin TaskOps, IInv, PollInv, SinkOnly, ANext,
         write_head' # TAKEN, LiveReceivers # {},
         \A t \in Senders : GuardFits(t), \A r \in Receivers : StreamOK(r),
         NEW s \in Senders, guard[s] = HEAD, guard'[s] = HEAD,
         notified[HEAD] # {}
  PROVE  \E w \in Senders : Minds(w)'
<1>0. /\ TypeOK /\ HEAD \in Events /\ HEAD # NONE /\ HEAD \notin Cells
      /\ guard \in [Threads -> Events \cup {NONE}]
      /\ notified \in [Events -> SUBSET Threads]
      /\ EventsOK /\ s \in Threads
  BY EventSet DEF IInv, PollInv, EventsOK, EventsTypeOK, Threads
<1>1. PICK a \in Threads : Effect(a)
  BY AStepForm
<1>2. /\ EventsOK' /\ GuardExact'
      /\ \A t \in Threads \ {a} : guard'[t] = guard[t]
  BY <1>0, <1>1, EffectForm
<1>3. SUFFICES ASSUME notified'[HEAD] = {}
               PROVE  \E w \in Senders : Minds(w)'
  <2>1. ASSUME NEW w \in notified'[HEAD] PROVE w \in Senders
    <3>1. w \in Threads /\ guard'[w] = HEAD
      BY <1>0, <1>2, <2>1 DEF EventsOK, EventsTypeOK, GuardExact, Registered
    <3>2. w \notin Receivers
      BY <1>0, <3>1, StreamGuard
    <3> QED
      BY <3>1, <3>2 DEF Threads
  <2> QED
    BY <1>3, <2>1 DEF Minds
<1>4. guard[a] = HEAD /\ guard'[a] # HEAD
  <2>1. ~Leaves(a) /\ ~Registers(a)
    BY <1>3 DEF Leaves, Registers
  <2>2. ~Notifies(a)
    BY <1>0, <1>3, NotifyForm DEF Notifies
  <2>3. CASE Spends(a)
    BY <1>0, <1>3, <2>3 DEF Spends
  <2>4. CASE DropGuard(a)
    <3>1. guard'[a] = NONE /\ pend' = pend
      BY <1>0, <2>4 DEF DropGuard
    <3>2. guard[a] # NONE
      BY <1>3, <2>4 DEF DropGuard
    <3>3. PICK e \in Events : e = guard[a]
      BY <1>0, <3>2
    <3>4. e = HEAD
      <4>1. \A f \in Events \ {e} : notified'[f] = notified[f]
        BY <1>0, <2>4, <3>1, <3>2, <3>3, UnlistenForm DEF DropGuard
      <4> QED
        BY <1>0, <1>3, <4>1
    <3> QED
      BY <1>0, <3>1, <3>3, <3>4
  <2> QED
    BY <1>1, <2>1, <2>2, <2>3, <2>4 DEF Effect
<1>5. a \in Senders
  BY <1>0, <1>4 DEF Threads, StreamOK
<1>6. ASender(a) /\ (a \in gone' \/ Looks(a)')
  BY <1>4, <1>5, HeadListener
<1>7. CASE Looks(a)'
  BY <1>5, <1>7 DEF Minds
<1>8. CASE DropGuard(a)
  <2>1. Unlisten(a, HEAD) /\ UNCHANGED pend
    BY <1>0, <1>4, <1>8 DEF DropGuard
  <2>2. s \in Registered(HEAD)'
    BY <1>0, <1>2 DEF GuardExact
  <2>3. notified'[HEAD] # {}
    BY <1>0, <2>1, <2>2, UnlistenForm
  <2> QED
    BY <1>3, <2>3
<1>9. CASE a \in gone'
  <2>1. a \notin gone
    BY <1>0, <1>4, <1>5 DEF GuardFits
  <2>2. DropSender(a)
    BY <1>6, <1>9, <2>1 DEF ASender, ASendCall, ASendStep, ALocal, ATest, Test,
       Rest, Succeed, Fail, ARestore, APublish, APollDisconnected, CancelSend,
       PollStep, Retest, Listen, PollEvent, Poll, Notify, taskvars
  <2> QED
    BY <1>8, <2>2 DEF DropSender
<1> QED
  BY <1>6, <1>7, <1>9

\* Whoever looks after a Sink goes on doing so, or hands over to another one,
\* until the token is taken.
LEMMA MindStep ==
  ASSUME "repoll" \notin TaskOps, IInv, PollInv, SinkOnly, ANext,
         write_head # TAKEN, write_head' # TAKEN, LiveReceivers # {},
         \A t \in Senders : GuardFits(t), \A r \in Receivers : StreamOK(r),
         NEW s \in Senders, guard[s] = HEAD, guard'[s] = HEAD,
         NEW u \in Senders, Minds(u)
  PROVE  \E w \in Senders : Minds(w)'
<1>0. /\ TypeOK /\ HEAD \in Events /\ HEAD # NONE /\ HEAD \notin Cells
      /\ pend \in [Threads -> Events \cup {NONE}]
      /\ EventsOK /\ GuardExact /\ s \in Threads /\ u \in Threads
  BY EventSet DEF IInv, PollInv, EventsOK, EventsTypeOK, Threads
<1>1. CASE Looks(u)
  BY <1>1, LooksOn DEF Minds
<1>2. CASE u \in notified[HEAD]
  BY <1>2, NotifiedHead
<1>3. CASE pend[u] = HEAD
  <2>1. PICK a \in Threads : Effect(a)
    BY AStepForm
  <2>2. CASE u = a /\ Notifies(a)
    <3>1. Registered(HEAD) # {}
      BY <1>0 DEF GuardExact
    <3>2. /\ notified'[HEAD] # {} /\ EventsOK'
      BY <1>0, <1>3, <2>2, <3>1, NotifyForm DEF Notifies
    <3>3. PICK w : w \in notified'[HEAD]
      BY <3>2
    <3>4. w \in Threads /\ guard'[w] = HEAD
      BY <1>0, <2>1, <3>2, <3>3, EffectForm DEF EventsOK, EventsTypeOK,
         GuardExact, Registered
    <3>5. w \notin Receivers
      BY <1>0, <3>4, StreamGuard
    <3> QED
      BY <3>3, <3>4, <3>5 DEF Minds, Threads
  <2>3. CASE ~(u = a /\ Notifies(a))
    <3>1. pend'[u] = HEAD
      BY <1>0, <1>3, <2>1, <2>3 DEF Effect, Leaves, Owes, DropGuard, Registers,
         Spends, Notifies, SendNotification
    <3> QED
      BY <3>1 DEF Minds
  <2> QED
    BY <2>2, <2>3
<1> QED
  BY <1>1, <1>2, <1>3 DEF Minds

\* So a Sink that rests beside a free token is looked after.
LEMMA HeadStep ==
  ASSUME TaskOps \subseteq {"drop"}, IInv, PollInv, SinkOnly, ANext,
         \A t \in Senders : GuardFits(t), \A r \in Receivers : StreamOK(r),
         HeadOK
  PROVE  HeadOK'
<1> SUFFICES ASSUME LiveReceivers' # {}, write_head' # TAKEN,
                    NEW s \in Senders \ gone', Resting(s)', EventOf(s)' = HEAD
             PROVE  \E u \in Senders : Minds(u)'
  BY DEF HeadOK
<1>0. "repoll" \notin TaskOps /\ s \in Threads /\ HEAD # NONE
  BY EventSet DEF Threads
<1>1. /\ s \notin gone /\ Resting(s) /\ EventOf(s) = HEAD
      /\ LiveReceivers # {}
  BY <1>0, RestedBefore, NoneLeft
<1>2. guard[s] = HEAD
  BY <1>0, <1>1 DEF PollInv, PollOK, Resting, GuardFits
<1>3. guard'[s] = HEAD
  <2>1. PollInv' /\ GuardFits(s)'
    BY <1>0, PollInvStep, FitStep
  <2>2. guard'[s] # NONE
    BY <1>0, <2>1 DEF PollInv, PollOK, Resting
  <2> QED
    BY <2>1, <2>2 DEF GuardFits
<1>4. CASE write_head = TAKEN
  BY <1>0, <1>4, RestoreIsOwed DEF Minds
<1>5. CASE write_head # TAKEN
  <2>1. PICK u \in Senders : Minds(u)
    BY <1>1, <1>5 DEF HeadOK
  <2> QED
    BY <1>0, <1>1, <1>2, <1>3, <1>5, <2>1, MindStep
<1> QED
  BY <1>4, <1>5

(***************************************************************************)
(* As long as senders use send and Sinks whose futures are not abandoned,  *)
(* no wake-up of a Sink is lost on the write head, although notify_one     *)
(* wakes a single one: each that is woken takes the token and passes it    *)
(* on, and one whose handle is dropped passes on the notification.         *)
(***************************************************************************)
THEOREM SinkWakeupCorrect ==
  ASSUME SendOps \subseteq {"send", "poll_ready"}, TaskOps \subseteq {"drop"}
  PROVE  ASpec => []SinkWakeup
<1> DEFINE Fits    == \A s \in Senders : GuardFits(s)
           Streams == \A r \in Receivers : StreamOK(r)
           Inv     == Fits /\ Streams /\ HeadOK
<1>0. "repoll" \notin TaskOps
  OBVIOUS
<1>1. AInit => Inv
  <2> SUFFICES ASSUME AInit PROVE Inv
    OBVIOUS
  <2>1. /\ guard = [t \in Threads |-> NONE] /\ gone = {}
        /\ phase = [t \in Threads |-> "test"]
    BY DEF AInit
  <2> QED
    BY <2>1 DEF GuardFits, StreamOK, HeadOK, Resting, Threads
<1>2. IInv /\ PollInv /\ SinkOnly /\ Inv /\ ANext => Inv'
  <2> SUFFICES ASSUME IInv, PollInv, SinkOnly, Inv, ANext PROVE Inv'
    OBVIOUS
  <2>1. Fits'
    BY FitStep
  <2>2. Streams'
    BY <1>0, StreamStep
  <2>3. HeadOK'
    BY HeadStep
  <2> QED
    BY <2>1, <2>2, <2>3
<1>3. Inv /\ UNCHANGED avars => Inv'
  BY DEF GuardFits, StreamOK, HeadOK, Resting, Minds, Looks, Called, Arrived,
     Holding, IsTask, Waiting, EventOf, AtCell, CellOf, LiveReceivers, Live,
     avars, vars, cells, sendvars, recvvars, eventvars, taskvars
<1>4. IInv /\ PollInv /\ Inv => SinkWakeup
  <2> SUFFICES ASSUME IInv, PollInv, Inv, NEW s \in Senders \ gone,
                      phase[s] = "pending", EventOf(s) = HEAD, Ready(s),
                      LiveReceivers # {}
               PROVE  \E u \in Senders : Minds(u)
    BY DEF SinkWakeup, Minds, Looks, Resting
  <2>1. ~AtCell(s)
    BY EventOfType DEF IInv, Threads
  <2>2. write_head # TAKEN
    BY <2>1 DEF Ready
  <2> QED
    BY <2>2 DEF HeadOK, Resting
<1>5. ASpec => []SinkOnly
  BY <1>0, AsyncImplements, SinkOnlyInductive, PTL
<1> QED
  BY <1>0, <1>1, <1>2, <1>3, <1>4, <1>5, AsyncInductive, PTL DEF ASpec
=============================================================================
