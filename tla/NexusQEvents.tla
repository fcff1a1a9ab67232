---------------------------- MODULE NexusQEvents ----------------------------
(***************************************************************************)
(* The events on which threads and tasks wait: one per cell, for senders   *)
(* that wait for read_counter = 0 and receivers that wait for current_id,  *)
(* and one for the write head (crate event-listener, and the notifications *)
(* of src/sender.rs and src/cell.rs).  Whoever makes a condition true does *)
(* so first and notifies afterwards, in a step of its own.                 *)
(*                                                                         *)
(* Modules NexusQBlock and NexusQAsync say who listens, and when.          *)
(***************************************************************************)
EXTENDS NexusQ

Threads == Senders \cup Receivers
HEAD    == -1                 \* the event of write_head_wait_strategy
NONE    == -2
Events  == Cells \cup {HEAD}

ASSUME ThreadsAssumption == Senders \cap Receivers = {}

VARIABLES
  queue,      \* queue[e]: listeners of event e, not notified, oldest first
  notified,   \* notified[e]: listeners of e that were notified and not woken
  pend        \* pend[t]: the event t has to notify before it goes on

eventvars == <<queue, notified, pend>>

EventsTypeOK == /\ queue    \in [Events -> Seq(Threads)]
                /\ notified \in [Events -> SUBSET Threads]
                /\ pend     \in [Threads -> Events \cup {NONE}]

EventsInit == /\ queue    = [e \in Events |-> <<>>]
              /\ notified = [e \in Events |-> {}]
              /\ pend     = [t \in Threads |-> NONE]

-----------------------------------------------------------------------------
(* The operations of crate event-listener, as far as they are used here.    *)

\* notify(1): nothing if a listener is notified already, else the oldest one.
NotifyOne(e) ==
  IF notified[e] = {} /\ queue[e] # <<>>
    THEN /\ notified' = [notified EXCEPT ![e] = {Head(queue[e])}]
         /\ queue'    = [queue EXCEPT ![e] = Tail(@)]
    ELSE UNCHANGED <<queue, notified>>

\* notify(usize::MAX).
NotifyAll(e) ==
  /\ notified' = [notified EXCEPT ![e] =
                    @ \cup {queue[e][i] : i \in DOMAIN queue[e]}]
  /\ queue'    = [queue EXCEPT ![e] = <<>>]

\* The queue q without the entry of t, if it has one.
Without(q, t) ==
  IF \E i \in DOMAIN q : q[i] = t
    THEN LET at == CHOOSE i \in DOMAIN q : q[i] = t
         IN  [j \in 1 .. Len(q) - 1 |-> q[IF j < at THEN j ELSE j + 1]]
    ELSE q

\* t drops its listener, if it has one; a notification it had received and did
\* not use goes to the next listener.
Unlisten(t, e) ==
  IF notified[e] = {t} /\ queue[e] # <<>>
    THEN /\ notified' = [notified EXCEPT ![e] = {Head(queue[e])}]
         /\ queue'    = [queue EXCEPT ![e] = Tail(@)]
    ELSE /\ notified' = [notified EXCEPT ![e] = @ \ {t}]
         /\ queue'    = [queue EXCEPT ![e] = Without(@, t)]

-----------------------------------------------------------------------------
(* Who waits for what, and who notifies.                                    *)

\* t waits for the token, a cell or a message, and has tested before.
Waiting(t) == IF t \in Senders THEN pc[t] \in {"await_token", "await_cell"}
                               ELSE rpc[t] = "await"

\* s holds the token and looks at its cell, or else looks at the head.
AtCell(s)  == pc[s] \in {"check_cell", "await_cell"}
EventOf(t) == IF t \in Senders THEN IF AtCell(t) THEN CellOf(t) ELSE HEAD
                                ELSE fast_mod(cursor[t])

\* The condition the test of t looks at.
Ready(t) == IF t \in Senders
              THEN IF AtCell(t) THEN CellFree(t) ELSE write_head # TAKEN
              ELSE Published(t)

\* A step that concerns no event; the thread has sent its notification.
Silent(t) == pend[t] = NONE /\ UNCHANGED eventvars

\* A step after which the thread notifies e.
Owes(t, e) == /\ pend[t] = NONE
              /\ pend' = [pend EXCEPT ![t] = e]
              /\ UNCHANGED <<queue, notified>>

\* Mutant of OwesIfLast: the counter after the decrement is compared with 1.
OwesIfLastMutant(r) == LET c == previous_cell_index[r]
                       IN  IF read_counter[c] = 2 THEN Owes(r, c) ELSE Silent(r)

\* move_from notifies when it takes the counter from 1 to 0.
OwesIfLast(r) == LET c == previous_cell_index[r]
                 IN  IF read_counter[c] = 1 THEN Owes(r, c) ELSE Silent(r)

\* notify_one on the head, notify_all on a cell.
SendNotification(t) ==
  /\ pend[t] # NONE
  /\ IF pend[t] = HEAD THEN NotifyOne(HEAD) ELSE NotifyAll(pend[t])
  /\ pend' = [pend EXCEPT ![t] = NONE]
=============================================================================
