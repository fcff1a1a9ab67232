---------------------------- MODULE NexusQBlock ----------------------------
(***************************************************************************)
(* NexusQ with the wait strategies that put threads to sleep:              *)
(* BlockStrategy and HybridWait (src/wait_strategy/block.rs, hybrid.rs).   *)
(* Every step is a step of NexusQ, or one of the wait strategy that leaves *)
(* the channel alone.                                                      *)
(*                                                                         *)
(* A waiting thread listens, tests, and sleeps only if the test fails.     *)
(***************************************************************************)
EXTENDS NexusQEvents

CONSTANT
  SpinFirst    \* TRUE: HybridWait tests before it listens; FALSE: BlockStrategy

ASSUME SpinAssumption == SpinFirst \in BOOLEAN
\* Threads block; the tasks that poll are those of NexusQAsync.
ASSUME BlockingAssumption == /\ "poll_ready" \notin SendOps
                             /\ "poll_next" \notin RecvOps

VARIABLE
  phase       \* where a thread is in the loop of take, wait_for, ...

bvars == <<vars, eventvars, phase>>

\* The first thing a wait does; also the phase of a thread that does not wait.
Entry  == IF SpinFirst THEN "spin" ELSE "listen"
Phases == {"spin", "listen", "armed", "parked", "woken"}

BTypeOK == TypeOK /\ EventsTypeOK /\ phase \in [Threads -> Phases]

BInit == Init /\ EventsInit /\ phase = [t \in Threads |-> Entry]

-----------------------------------------------------------------------------
(* The wait loops.                                                          *)

\* t is in take, take_before, wait_for or wait_until.
Looping(t) == \/ Waiting(t)
              \/ t \in Senders /\ pc[t] = "take" /\ op[t] # "try_send"
              \/ /\ t \in Receivers /\ rpc[t] = "check"
                 /\ rop[t] \in {"recv", "try_recv_until"}

SetPhase(t, to) == phase' = [phase EXCEPT ![t] = to]

\* The test succeeds and the loop returns.
Leave(t) == /\ phase[t] \in {"spin", "armed", "woken"}
            /\ Unlisten(t, EventOf(t))
            /\ SetPhase(t, Entry)
            /\ UNCHANGED pend

\* The test fails: a spin goes on or ends, a listener goes to sleep, a thread
\* that was woken in vain starts again.
Stay(t) == /\ \/ phase[t] = "spin" /\ (UNCHANGED phase \/ SetPhase(t, "listen"))
              \/ phase[t] = "armed" /\ SetPhase(t, "parked")
              \/ phase[t] = "woken" /\ SetPhase(t, "listen")
           /\ UNCHANGED eventvars

\* Mutant of GiveUp: the listener outlives the call that timed out.
GiveUpMutant(t) == /\ \/ phase[t] = "spin"
                      \/ phase[t] = "parked" /\ t \notin notified[EventOf(t)]
                   /\ SetPhase(t, Entry)
                   /\ UNCHANGED eventvars

\* The deadline passes, after a failed test of a spin or asleep.  A thread that
\* was notified by then counts as woken: wait_deadline returns true.
GiveUp(t) == /\ \/ phase[t] = "spin"
                \/ phase[t] = "parked" /\ t \notin notified[EventOf(t)]
             /\ Unlisten(t, EventOf(t))
             /\ SetPhase(t, Entry)
             /\ UNCHANGED pend

Retest(t) == /\ Waiting(t) /\ ~Ready(t)
             /\ Stay(t) /\ phase' # phase
             /\ UNCHANGED vars

Listen(t) == /\ Looping(t) /\ phase[t] = "listen"
             /\ queue' = [queue EXCEPT ![EventOf(t)] = Append(@, t)]
             /\ SetPhase(t, "armed")
             /\ UNCHANGED <<vars, notified, pend>>

Wake(t) == /\ phase[t] = "parked"
           /\ t \in notified[EventOf(t)]
           /\ notified' = [notified EXCEPT ![EventOf(t)] = @ \ {t}]
           /\ SetPhase(t, "woken")
           /\ UNCHANGED <<vars, queue, pend>>

Notify(t) == SendNotification(t) /\ UNCHANGED <<vars, phase>>

WaitStep(t) == Retest(t) \/ Listen(t) \/ Wake(t) \/ Notify(t)

-----------------------------------------------------------------------------
(* The steps of NexusQ, each with what it does to listeners and events.     *)

\* A step without a wait.
Quiet(t) == Silent(t) /\ UNCHANGED phase

BSendCall(s) == SendCall(s) /\ Quiet(s)

\* The steps of a sender that neither wait nor notify.  Unwind is one of them:
\* after restore(id) the failed try_send or try_send_before just returns.
BLocal(s) == /\ \/ CheckDeadline(s) \/ CheckConnected(s) \/ CheckCell(s)
                \/ CheckReceivers(s) \/ Unwind(s) \/ Write(s)
             /\ Quiet(s)

\* try_send: a single try_take, no loop.
BTryTake(s) == op[s] = "try_send" /\ (Take(s) \/ TakeFails(s)) /\ Quiet(s)

\* The loops of take and take_before.
BTake(s)      == op[s] # "try_send" /\ Take(s) /\ Leave(s)
BTakeFails(s) == op[s] # "try_send" /\ TakeFails(s) /\ Stay(s)

BAwaitCell(s) == AwaitCell(s) /\ Leave(s)

BSendTimeout(s) == (TakeTimeout(s) \/ CellTimeout(s)) /\ GiveUp(s)

\* Mutant of BRestore: notify_one is missing.
BRestoreMutant(s) == Restore(s) /\ Quiet(s)

BRestore(s) == Restore(s) /\ Owes(s, HEAD) /\ UNCHANGED phase

\* Mutant of BPublish: notify_all is missing.
BPublishMutant(s) == Publish(s) /\ Quiet(s)

BPublish(s) == Publish(s) /\ Owes(s, CellOf(s)) /\ UNCHANGED phase

BSendStep(s) ==
  \/ BLocal(s) \/ BTryTake(s) \/ BTake(s) \/ BTakeFails(s) \/ BAwaitCell(s)
  \/ BSendTimeout(s) \/ BRestore(s) \/ BPublish(s) \/ WaitStep(s)

BRecvCall(r) == RecvCall(r) /\ Quiet(r)

\* try_recv and try_recv_batch test once, recv and try_recv_until in a loop.
BAccept(r)       == Accept(r) /\ IF Looping(r) THEN Leave(r) ELSE Quiet(r)
BNotPublished(r) == NotPublished(r) /\ IF Looping(r) THEN Stay(r) ELSE Quiet(r)
BRecvTimeout(r)  == RecvTimeout(r) /\ GiveUp(r)

\* The steps of a receiver that neither wait nor notify.
BReceive(r) == /\ BatchRead(r) \/ MoveTo(r) \/ Read(r) \/ CloneCount(r)
               /\ Quiet(r)

BRelease(r) == /\ MoveFrom(r) \/ DropCell(r)
               /\ OwesIfLast(r)
               /\ UNCHANGED phase

BRecvStep(r) ==
  \/ BAccept(r) \/ BNotPublished(r) \/ BRecvTimeout(r) \/ BReceive(r)
  \/ BRelease(r) \/ WaitStep(r)

BDrop(r)     == Drop(r) /\ Quiet(r)
BClone(r, q) == Clone(r, q) /\ Quiet(r) /\ pend[q] = NONE

BNext ==
  \/ \E s \in Senders : BSendCall(s) \/ BSendStep(s)
  \/ \E r \in Receivers : BRecvCall(r) \/ BRecvStep(r) \/ BDrop(r)
  \/ \E r, q \in Receivers : BClone(r, q)

BSpec == BInit /\ [][BNext]_bvars

\* As FairSpec and DrainSpec of NexusQ; a thread asleep is not scheduled.
BFairSpec == /\ BSpec
             /\ \A s \in Senders : WF_bvars(BSendStep(s))
             /\ \A r \in Receivers : WF_bvars(BRecvStep(r))

BDrainSpec == BFairSpec /\ \A r \in Receivers : WF_bvars(BRecvCall(r))

-----------------------------------------------------------------------------
(* Properties.                                                              *)

(***************************************************************************)
(* The events know exactly the threads that listen: one entry for each, on *)
(* the event it waits for, and none for a call that returned or timed out. *)
(* A stray entry would swallow a notify_one meant for another sender.      *)
(***************************************************************************)
ListenersExact ==
  \A e \in Events, t \in Threads :
    Cardinality({i \in DOMAIN queue[e] : queue[e][i] = t})
      + Cardinality(notified[e] \cap {t})
        = IF phase[t] \in {"armed", "parked"} /\ EventOf(t) = e THEN 1 ELSE 0

Asleep(t) == phase[t] = "parked" /\ t \notin notified[EventOf(t)]

(***************************************************************************)
(* No wake-up is lost on a cell: a thread that sleeps although its         *)
(* condition holds is about to be notified, by the sender that published   *)
(* or the receiver that released the cell last.                            *)
(***************************************************************************)
CellWakeup ==
  \A t \in Threads :
    Asleep(t) /\ EventOf(t) # HEAD /\ Ready(t) =>
      \E u \in Threads : pend[u] = EventOf(t)

(***************************************************************************)
(* Nor on the write head: a sender sleeps beside a free token only while   *)
(* another one is about to notify, was notified, or is awake and about to  *)
(* take the token, which it will pass on.                                  *)
(***************************************************************************)
HeadWakeup ==
  \A t \in Senders :
    Asleep(t) /\ EventOf(t) = HEAD /\ Ready(t) =>
      \E u \in Senders :
        \/ pend[u] = HEAD
        \/ u \in notified[HEAD]
        \/ Looping(u) /\ EventOf(u) = HEAD /\ phase[u] # "parked"
=============================================================================
