---------------------------- MODULE NexusQAsync ----------------------------
(***************************************************************************)
(* NexusQ with tasks: a Sender used as a futures Sink and a Receiver used  *)
(* as a Stream (src/sender.rs, src/receiver.rs and the poll functions of   *)
(* src/wait_strategy).  A poll that cannot go on leaves a listener in the  *)
(* handle and returns Pending; the executor polls again when the listener  *)
(* was notified, and may do so at any other time.                          *)
(*                                                                         *)
(* The futures around the polls belong to the caller, who may drop them or *)
(* the handle, or poll a Sink once more that is already Ready: TaskOps.    *)
(* Calls that block test until they succeed, as BackoffWait does; all      *)
(* strategies share the poll functions of BlockStrategy.                   *)
(***************************************************************************)
EXTENDS NexusQEvents

CONSTANT TaskOps    \* what callers do to tasks: "cancel", "drop", "repoll"

ASSUME TaskOpsAssumption == TaskOps \subseteq {"cancel", "drop", "repoll"}

VARIABLES
  phase,   \* where a task is in its poll; "pending" between two polls
  guard,   \* event of the listener in async_state.event_guard or current_event
  gone     \* senders that were dropped

taskvars == <<phase, guard, gone>>
avars    == <<vars, eventvars, taskvars>>

Phases == {"test", "listen", "armed", "event", "woken", "pending"}

ATypeOK == /\ TypeOK /\ EventsTypeOK
           /\ phase \in [Threads -> Phases]
           /\ guard \in [Threads -> Events \cup {NONE}]
           /\ gone  \subseteq Senders

AInit == /\ Init /\ EventsInit
         /\ phase = [t \in Threads |-> "test"]
         /\ guard = [t \in Threads |-> NONE]
         /\ gone  = {}

-----------------------------------------------------------------------------
(* One poll: test; keep the listener or make one, test again; look whether  *)
(* it was notified; if so test again and start over with a new listener.    *)

\* The call t is in is a Sink send or a Stream receive.
IsTask(t) ==
  IF t \in Senders THEN op[t] = "poll_ready" ELSE rop[t] = "poll_next"

SetPhase(t, to) == phase' = [phase EXCEPT ![t] = to]

\* A step outside of the polls.
Rest(t) == Silent(t) /\ UNCHANGED taskvars

DropGuard(t) == /\ IF guard[t] = NONE THEN UNCHANGED <<queue, notified>>
                                      ELSE Unlisten(t, guard[t])
                /\ guard' = [guard EXCEPT ![t] = NONE]
                /\ UNCHANGED pend

\* The test succeeds: `*event_listener = None`, and the poll is Ready.
Succeed(t) == /\ phase[t] \in {"test", "armed", "woken"}
              /\ DropGuard(t)
              /\ SetPhase(t, "test")
              /\ UNCHANGED gone

AfterFailure == [test |-> "listen", armed |-> "event", woken |-> "listen"]

Fail(t) == /\ phase[t] \in DOMAIN AfterFailure
           /\ SetPhase(t, AfterFailure[phase[t]])
           /\ UNCHANGED <<eventvars, guard, gone>>

\* What a test means for the listener of a task; a thread just tests.
Test(t) == IF ~IsTask(t) THEN Rest(t)
           ELSE IF Ready(t) THEN Succeed(t) ELSE Fail(t)

Retest(t) == /\ IsTask(t) /\ Waiting(t) /\ ~Ready(t)
             /\ Fail(t)
             /\ UNCHANGED vars

\* Mutant of Listen: no second test, after the listener was registered.
ListenMutant(t) ==
  /\ IsTask(t) /\ phase[t] = "listen"
  /\ IF guard[t] = NONE
       THEN /\ queue' = [queue EXCEPT ![EventOf(t)] = Append(@, t)]
            /\ guard' = [guard EXCEPT ![t] = EventOf(t)]
       ELSE UNCHANGED <<queue, guard>>
  /\ SetPhase(t, "event")
  /\ UNCHANGED <<vars, notified, pend, gone>>

\* get_or_insert: a listener that an earlier poll left behind is kept, whatever
\* event it is for.
Listen(t) ==
  /\ IsTask(t) /\ phase[t] = "listen"
  /\ IF guard[t] = NONE
       THEN /\ queue' = [queue EXCEPT ![EventOf(t)] = Append(@, t)]
            /\ guard' = [guard EXCEPT ![t] = EventOf(t)]
       ELSE UNCHANGED <<queue, guard>>
  /\ SetPhase(t, "armed")
  /\ UNCHANGED <<vars, notified, pend, gone>>

\* Mutant of PollEvent: the spent listener is not replaced by a new one.
PollEventMutant(t) ==
  /\ phase[t] = "event"
  /\ IF t \in notified[guard[t]]
       THEN /\ notified' = [notified EXCEPT ![guard[t]] = @ \ {t}]
            /\ SetPhase(t, "woken")
       ELSE SetPhase(t, "pending") /\ UNCHANGED notified
  /\ UNCHANGED <<vars, queue, guard, pend, gone>>

\* poll_event: a notified listener is spent, another one registers the waker.
PollEvent(t) ==
  /\ phase[t] = "event"
  /\ IF t \in notified[guard[t]]
       THEN /\ notified' = [notified EXCEPT ![guard[t]] = @ \ {t}]
            /\ guard' = [guard EXCEPT ![t] = NONE]
            /\ SetPhase(t, "woken")
       ELSE SetPhase(t, "pending") /\ UNCHANGED <<notified, guard>>
  /\ UNCHANGED <<vars, queue, pend, gone>>

\* The next poll; that of a Sink counts the receivers first.
Poll(t) == /\ phase[t] = "pending"
           /\ t \in Senders => num_receivers # 0
           /\ SetPhase(t, "test")
           /\ UNCHANGED <<vars, eventvars, guard, gone>>

Notify(t) == SendNotification(t) /\ UNCHANGED <<vars, taskvars>>

PollStep(t) == Retest(t) \/ Listen(t) \/ PollEvent(t) \/ Poll(t) \/ Notify(t)

-----------------------------------------------------------------------------
(* Senders.                                                                 *)

ASendCall(s) == s \notin gone /\ SendCall(s) /\ Rest(s)

\* The steps that neither poll nor notify; Write begins start_send.
ALocal(s) == /\ \/ CheckDeadline(s) \/ CheckConnected(s) \/ CheckReceivers(s)
                \/ TakeTimeout(s) /\ ~IsTask(s)
                \/ CellTimeout(s) \/ Unwind(s) \/ Write(s)
             /\ Rest(s)

\* Take::poll on the head, then poll_write_safe on the cell.
ATest(s) == /\ Take(s) \/ TakeFails(s) \/ CheckCell(s) \/ AwaitCell(s)
            /\ Test(s)

ARestore(s) == Restore(s) /\ Owes(s, HEAD) /\ UNCHANGED taskvars

\* Mutant of APublish: notify_all is missing.
APublishMutant(s) == Publish(s) /\ Rest(s)

APublish(s) == Publish(s) /\ Owes(s, CellOf(s)) /\ UNCHANGED taskvars

\* The next poll finds no receiver; id and listener stay in the handle.
APollDisconnected(s) == /\ phase[s] = "pending"
                        /\ PollDisconnected(s)
                        /\ SetPhase(s, "test")
                        /\ UNCHANGED <<eventvars, guard, gone>>

ASendStep(s) ==
  /\ s \notin gone
  /\ \/ ALocal(s) \/ ATest(s) \/ ARestore(s) \/ APublish(s)
     \/ APollDisconnected(s) \/ PollStep(s)

\* The future of a Sink send is dropped while it waits for the token; the
\* listener stays.  (Dropped later, the handle has an id and merely waits.)
CancelSend(s) == /\ "cancel" \in TaskOps /\ s \notin gone
                 /\ IsTask(s) /\ phase[s] = "pending"
                 /\ TakeTimeout(s)
                 /\ SetPhase(s, "test")
                 /\ UNCHANGED <<eventvars, guard, gone>>

\* The handle is dropped between two polls, or before start_send: its listener
\* goes with it, the id it had claimed is not given back.
DropSender(s) == /\ "drop" \in TaskOps /\ s \notin gone /\ pend[s] = NONE
                 /\ \/ pc[s] \in Returned
                    \/ IsTask(s) /\ (phase[s] = "pending" \/ pc[s] = "write")
                 /\ DropGuard(s)
                 /\ gone' = gone \cup {s}
                 /\ UNCHANGED <<vars, phase>>

\* poll_ready is called again before start_send: it counts the receivers, finds
\* the id and its cell still free, and stores id + 1 into the head once more.
PollAgain(s) == /\ "repoll" \in TaskOps /\ s \notin gone
                /\ IsTask(s) /\ pc[s] = "write"
                /\ num_receivers # 0 /\ CellFree(s)
                /\ write_head' = id[s] + 1
                /\ Owes(s, HEAD)
                /\ UNCHANGED <<num_receivers, cells, sendvars, recvvars, log,
                               taskvars>>

-----------------------------------------------------------------------------
(* Receivers.                                                               *)

ARecvCall(r) == RecvCall(r) /\ Rest(r)

\* The steps that neither poll nor notify.
AReceive(r) == /\ \/ BatchRead(r) \/ MoveTo(r) \/ Read(r) \/ CloneCount(r)
                  \/ RecvTimeout(r) /\ ~IsTask(r)
               /\ Rest(r)

\* poll_published, and the tests of the other receives.
ARecvTest(r) == (Accept(r) \/ NotPublished(r)) /\ Test(r)

ARelease(r) == /\ MoveFrom(r) \/ DropCell(r)
               /\ OwesIfLast(r)
               /\ UNCHANGED taskvars

\* The fields of a dropped receiver go last, current_event among them.
DropEvent(r) == /\ rpc[r] = "absent" /\ pend[r] = NONE /\ guard[r] # NONE
                /\ DropGuard(r)
                /\ UNCHANGED <<vars, phase, gone>>

ARecvStep(r) ==
  \/ AReceive(r) \/ ARecvTest(r) \/ ARelease(r) \/ DropEvent(r) \/ PollStep(r)

\* The future returned by next() is dropped; the listener stays.
CancelRecv(r) == /\ "cancel" \in TaskOps
                 /\ IsTask(r) /\ phase[r] = "pending"
                 /\ RecvTimeout(r)
                 /\ SetPhase(r, "test")
                 /\ UNCHANGED <<eventvars, guard, gone>>

ADrop(r)     == Drop(r) /\ Rest(r)
AClone(r, q) == Clone(r, q) /\ Rest(r) /\ pend[q] = NONE /\ guard[q] = NONE

-----------------------------------------------------------------------------
ANext ==
  \/ \E s \in Senders : \/ ASendCall(s) \/ ASendStep(s) \/ CancelSend(s)
                        \/ DropSender(s) \/ PollAgain(s)
  \/ \E r \in Receivers : \/ ARecvCall(r) \/ ARecvStep(r) \/ CancelRecv(r)
                          \/ ADrop(r)
  \/ \E r, q \in Receivers : AClone(r, q)

ASpec == AInit /\ [][ANext]_avars

\* A pending task is polled once its listener was notified.
Awake(t) == phase[t] = "pending" => t \in notified[guard[t]]

\* Threads are scheduled and awake tasks are polled.
AFairSpec == /\ ASpec
             /\ \A s \in Senders : WF_avars(ASendStep(s) /\ Awake(s))
             /\ \A r \in Receivers : WF_avars(ARecvStep(r) /\ Awake(r))

\* Besides, every receiver that exists goes on receiving.
ADrainSpec == AFairSpec /\ \A r \in Receivers : WF_avars(ARecvCall(r))

-----------------------------------------------------------------------------
(* Properties.                                                              *)

(***************************************************************************)
(* No wake-up of a task is lost on a cell: a Stream whose message has been *)
(* published, or a Sink whose cell has been released, is never left        *)
(* Pending with a listener nobody has notified or is about to notify.  The *)
(* listener need not belong to the cell the task waits for: get_or_insert  *)
(* keeps the one of a poll that was abandoned before other receives moved  *)
(* the cursor on.                                                          *)
(***************************************************************************)
TaskWakeup ==
  \A t \in Threads \ gone :
    phase[t] = "pending" /\ EventOf(t) # HEAD /\ Ready(t) =>
      \/ t \in notified[guard[t]]
      \/ \E u \in Threads : pend[u] = guard[t]

(***************************************************************************)
(* Nor on the write head, while a receiver is left: a Sink is Pending      *)
(* beside a free token only while another sender is about to notify, was   *)
(* notified, or is in a poll that will take the token.                     *)
(***************************************************************************)
SinkWakeup ==
  \A s \in Senders \ gone :
    phase[s] = "pending" /\ EventOf(s) = HEAD /\ Ready(s) =>
      \/ LiveReceivers = {}
      \/ \E u \in Senders :
           \/ pend[u] = HEAD
           \/ u \in notified[HEAD]
           \/ /\ pc[u] \in {"take", "await_token"}
              /\ phase[u] # "pending"

(***************************************************************************)
(* A Sink send on a handle that is kept returns, as long as the receivers  *)
(* keep receiving: the task that holds the token, those that wait for it   *)
(* and the tasks of the receivers do not leave each other Pending.         *)
(***************************************************************************)
SinkReturns ==
  \A s \in Senders : IsTask(s) ~> ~IsTask(s) \/ s \in gone

(***************************************************************************)
(* A Stream that waits for an id some sender has claimed yields it.        *)
(***************************************************************************)
StreamYields ==
  \A r \in Receivers :
    (rop[r] = "poll_next" /\ cursor[r] <= Len(log)) ~> rop[r] = "none"
=============================================================================
