------------------------------- MODULE NexusQ -------------------------------
(***************************************************************************)
(* The synchronous core of the nexusq2 channel: a ring of N cells, a write *)
(* token that serialises the senders, and receivers that each read every   *)
(* message (src/lib.rs, src/cell.rs, src/sender.rs, src/receiver.rs).      *)
(*                                                                         *)
(* One step is one access to shared memory: an atomic operation, or the    *)
(* non-atomic replacement or clone of a cell's value.  Several handles run *)
(* concurrently; one handle runs one call at a time, because Sender and    *)
(* Receiver are Send but not Sync.                                         *)
(*                                                                         *)
(* A wait strategy is seen here only through what it promises its caller:  *)
(* take and wait_for return once a test of the atomic succeeded (the loop  *)
(* of BackoffWait does nothing else).  Sleeping and notification are added *)
(* by module NexusQBlock.                                                  *)
(*                                                                         *)
(* Ids are unbounded here; usize::MAX, which marks both a taken write head *)
(* and a cell never published, is the integer -1 and is no id.             *)
(***************************************************************************)
EXTENDS Integers, Sequences, FiniteSets

CONSTANTS
  N,           \* number of cells of the ring
  Senders,     \* sender handles
  Receivers,   \* receiver handles, alive or not
  Msgs,        \* messages
  NULL,        \* the None of a cell, of a result and of a parent
  SendOps,     \* the send methods the senders call
  RecvOps,     \* the receive methods the receivers call
  HandleOps,   \* what may happen to receiver handles: "clone", "drop"
  BatchSizes,  \* the values of max_results passed to try_recv_batch
  MaxSends     \* bound: number of messages the senders may claim

\* poll_ready stands for a Sink send: poll_ready until it is Ready, then
\* start_send; poll_next for the Stream.  Here a task that waits just tests
\* again; polls, wakers and listeners are added by module NexusQAsync.
AllSendOps == {"send", "try_send", "try_send_before", "poll_ready"}
AllRecvOps == {"recv", "try_recv", "try_recv_until", "try_recv_batch",
               "poll_next"}

\* with_strategies rejects a size below 2; the threads are finitely many.
ASSUME RingAssumption == N \in Nat /\ N >= 2
ASSUME HandlesAssumption == IsFiniteSet(Receivers)
ASSUME MsgsAssumption == NULL \notin Msgs /\ NULL \notin Receivers
ASSUME OpsAssumption == /\ SendOps \subseteq AllSendOps
                        /\ RecvOps \subseteq AllRecvOps
                        /\ BatchSizes \subseteq Nat
                        /\ MaxSends \in Nat

VARIABLES
  \* NexusQ and its cells, shared
  write_head, num_receivers, value, read_counter, current_id,
  \* one call of each sender: program counter, method, claimed id, message
  pc, op, id, msg,
  \* each receiver: fields of the handle, then one call of it
  cursor, previous_cell_index, rpc, rop, num_read, max_results, clone_of,
  \* out[r] is the message r's last receive returned; log is the history of
  \* the messages in the order in which the senders claimed their ids
  out, log

cells    == <<value, read_counter, current_id>>
sendvars == <<pc, op, id, msg>>
recvvars == <<cursor, previous_cell_index, rpc, rop, num_read, max_results,
              clone_of, out>>
vars     == <<write_head, num_receivers, cells, sendvars, recvvars, log>>

-----------------------------------------------------------------------------
MAX   == -1
TAKEN == MAX

Cells == 0 .. N-1

\* fast_mod(buffer.len()): N is a power of two in the code, where the mask
\* and the remainder agree.
fast_mod(i) == i % N

\* A sender whose last call, if any, returned with that result.
Returned == {"idle", "ok", "full", "timeout", "disconnected"}
\* The sender took the write token and has not stored the head back.
HoldsToken(s) == pc[s] \in {"check_cell", "await_cell", "check_receivers",
                            "unwind", "restore"}
\* The sender claimed an id and has not published its cell.
InFlight(s) == pc[s] \in {"write", "publish"}
SendPCs == Returned \cup {"check_deadline", "check_connected", "take",
                          "await_token", "check_cell", "await_cell",
                          "check_receivers", "unwind", "restore",
                          "write", "publish"}

RecvPCs == {"absent", "ready", "check", "await", "batch_read", "move_to",
            "move_from", "read", "cloning", "cloned", "dropping"}
\* The handle exists and is counted in num_receivers.
Live(r) == rpc[r] \notin {"absent", "cloned", "dropping"}
\* The handle keeps a cell's read_counter raised.
Holding(r) == rpc[r] # "absent"

TypeOK ==
  /\ write_head    \in Nat \cup {TAKEN}
  /\ num_receivers \in Nat
  /\ value         \in [Cells -> Msgs \cup {NULL}]
  /\ read_counter  \in [Cells -> Nat]
  /\ current_id    \in [Cells -> Nat \cup {MAX}]
  /\ pc            \in [Senders -> SendPCs]
  /\ op            \in [Senders -> AllSendOps \cup {"none"}]
  /\ id            \in [Senders -> Nat]
  /\ msg           \in [Senders -> Msgs \cup {NULL}]
  /\ cursor        \in [Receivers -> Nat \ {0}]
  /\ previous_cell_index \in [Receivers -> Cells]
  /\ rpc           \in [Receivers -> RecvPCs]
  /\ rop           \in [Receivers -> AllRecvOps \cup {"none"}]
  /\ num_read      \in [Receivers -> 0 .. N-1]
  /\ max_results   \in [Receivers -> 1 .. N-1]
  /\ clone_of      \in [Receivers -> Receivers \cup {NULL}]
  /\ out           \in [Receivers -> Msgs \cup {NULL}]
  /\ log           \in Seq(Msgs)

-----------------------------------------------------------------------------
(* make_channel: with_strategies, then Receiver::new and Sender::new.       *)

Init ==
  /\ write_head    = 1
  /\ num_receivers = 1
  /\ value         = [c \in Cells |-> NULL]
  /\ read_counter  = [c \in Cells |-> IF c = 0 THEN 1 ELSE 0]
  /\ current_id    = [c \in Cells |-> MAX]
  /\ pc  = [s \in Senders |-> "idle"]
  /\ op  = [s \in Senders |-> "none"]
  /\ id  = [s \in Senders |-> 0]
  /\ msg = [s \in Senders |-> NULL]
  /\ \E first \in Receivers :
        rpc = [r \in Receivers |-> IF r = first THEN "ready" ELSE "absent"]
  /\ cursor              = [r \in Receivers |-> 1]
  /\ previous_cell_index = [r \in Receivers |-> 0]
  /\ rop         = [r \in Receivers |-> "none"]
  /\ num_read    = [r \in Receivers |-> 0]
  /\ max_results = [r \in Receivers |-> 1]
  /\ clone_of    = [r \in Receivers |-> NULL]
  /\ out         = [r \in Receivers |-> NULL]
  /\ log         = <<>>

-----------------------------------------------------------------------------
(* Senders.                                                                 *)

Goto(s, to) == /\ pc' = [pc EXCEPT ![s] = to]
               /\ UNCHANGED <<op, id, msg>>

\* The call ends and its locals go out of scope.
Return(s, result) == /\ pc'  = [pc  EXCEPT ![s] = result]
                     /\ op'  = [op  EXCEPT ![s] = "none"]
                     /\ id'  = [id  EXCEPT ![s] = 0]
                     /\ msg' = [msg EXCEPT ![s] = NULL]

CellOf(s)   == fast_mod(id[s])
\* Mutant of CellFree: one receiver too many is tolerated.
CellFreeMutant(s) == read_counter[CellOf(s)] <= 1

CellFree(s) == read_counter[CellOf(s)] = 0

\* Calls that may still claim an id; they count against MaxSends.
Pending == {s \in Senders : pc[s] \notin Returned /\ ~InFlight(s)}

EntryOf == [send            |-> "take",
            try_send        |-> "check_connected",
            try_send_before |-> "check_deadline",
            poll_ready      |-> "check_connected"]

SendCall(s) ==
  /\ pc[s] \in Returned
  /\ Len(log) + Cardinality(Pending) < MaxSends
  /\ \E o \in SendOps :
       /\ pc' = [pc EXCEPT ![s] = EntryOf[o]]
       /\ op' = [op EXCEPT ![s] = o]
  /\ UNCHANGED <<write_head, num_receivers, cells, id, msg, recvvars, log>>

\* try_send_before: `if deadline < Instant::now()`.
CheckDeadline(s) ==
  /\ pc[s] = "check_deadline"
  /\ Goto(s, "take") \/ Return(s, "timeout")
  /\ UNCHANGED <<write_head, num_receivers, cells, recvvars, log>>

\* try_send, poll_ready: the receivers are counted before the token is taken.
CheckConnected(s) ==
  /\ pc[s] = "check_connected"
  /\ IF num_receivers = 0 THEN Return(s, "disconnected") ELSE Goto(s, "take")
  /\ UNCHANGED <<write_head, num_receivers, cells, recvvars, log>>

\* A try_take that finds the head: swap(TAKEN) yields an id.
Take(s) ==
  /\ pc[s] \in {"take", "await_token"}
  /\ write_head # TAKEN
  /\ write_head' = TAKEN
  /\ id' = [id EXCEPT ![s] = write_head]
  /\ pc' = [pc EXCEPT ![s] = "check_cell"]
  /\ UNCHANGED <<num_receivers, cells, op, msg, recvvars, log>>

\* The first try_take of the call finds TAKEN: try_send gives up, take and
\* take_before go on trying.
TakeFails(s) ==
  /\ pc[s] = "take"
  /\ write_head = TAKEN
  /\ IF op[s] = "try_send" THEN Return(s, "full") ELSE Goto(s, "await_token")
  /\ UNCHANGED <<write_head, num_receivers, cells, recvvars, log>>

\* The deadline passes, or the future of a Sink send is dropped.
TakeTimeout(s) ==
  /\ pc[s] = "await_token"
  /\ op[s] \in {"try_send_before", "poll_ready"}
  /\ Return(s, "timeout")
  /\ UNCHANGED <<write_head, num_receivers, cells, recvvars, log>>

\* The methods that counted the receivers before they took the token.
CountsFirst(s) == op[s] \in {"try_send", "poll_ready"}

\* Mutant of CheckCell: the sender goes on without waiting for the cell.
CheckCellMutant(s) ==
  /\ pc[s] = "check_cell"
  /\ Goto(s, IF CountsFirst(s) THEN "restore" ELSE "check_receivers")
  /\ UNCHANGED <<write_head, num_receivers, cells, recvvars, log>>

\* safe_to_write, the immediate test of wait_for_write_safe[_before], or the
\* first one of poll_write_safe.
CheckCell(s) ==
  /\ pc[s] = "check_cell"
  /\ IF CellFree(s)
       THEN Goto(s, IF CountsFirst(s) THEN "restore" ELSE "check_receivers")
       ELSE Goto(s, IF op[s] = "try_send" THEN "unwind" ELSE "await_cell")
  /\ UNCHANGED <<write_head, num_receivers, cells, recvvars, log>>

\* wait_for(&read_counter, &0) returns; the receivers are not counted then.
AwaitCell(s) ==
  /\ pc[s] = "await_cell"
  /\ CellFree(s)
  /\ Goto(s, "restore")
  /\ UNCHANGED <<write_head, num_receivers, cells, recvvars, log>>

CellTimeout(s) ==
  /\ pc[s] = "await_cell"
  /\ op[s] = "try_send_before"
  /\ Goto(s, "unwind")
  /\ UNCHANGED <<write_head, num_receivers, cells, recvvars, log>>

\* Mutant of CheckReceivers: the receivers are not counted.
CheckReceiversMutant(s) ==
  /\ pc[s] = "check_receivers"
  /\ Goto(s, "restore")
  /\ UNCHANGED <<write_head, num_receivers, cells, recvvars, log>>

\* was_immediate && num_receivers == 0: the call returns and keeps the token.
CheckReceivers(s) ==
  /\ pc[s] = "check_receivers"
  /\ IF num_receivers = 0 THEN Return(s, "disconnected")
                          ELSE Goto(s, "restore")
  /\ UNCHANGED <<write_head, num_receivers, cells, recvvars, log>>

\* poll_ready counts the receivers in every poll.  The handle keeps its id, but
\* no later poll looks at it: a channel without receivers stays without.
PollDisconnected(s) ==
  /\ pc[s] \in {"await_token", "await_cell"}
  /\ op[s] = "poll_ready"
  /\ num_receivers = 0
  /\ Return(s, "disconnected")
  /\ UNCHANGED <<write_head, num_receivers, cells, recvvars, log>>

\* Mutants of Unwind: the id after the failed one is put back, or none.
UnwindSkips(s) ==
  /\ pc[s] = "unwind"
  /\ write_head' = id[s] + 1
  /\ Return(s, IF op[s] = "try_send" THEN "full" ELSE "timeout")
  /\ UNCHANGED <<num_receivers, cells, recvvars, log>>

UnwindForgets(s) ==
  /\ pc[s] = "unwind"
  /\ Return(s, IF op[s] = "try_send" THEN "full" ELSE "timeout")
  /\ UNCHANGED <<write_head, num_receivers, cells, recvvars, log>>

\* The failed attempt puts its id back.
Unwind(s) ==
  /\ pc[s] = "unwind"
  /\ write_head' = id[s]
  /\ Return(s, IF op[s] = "try_send" THEN "full" ELSE "timeout")
  /\ UNCHANGED <<num_receivers, cells, recvvars, log>>

\* restore(id + 1): the next sender may go ahead while this one still has to
\* write.  The message is fixed only here: no earlier step looks at it.
Restore(s) ==
  /\ pc[s] = "restore"
  /\ write_head' = id[s] + 1
  /\ \E m \in Msgs : /\ msg' = [msg EXCEPT ![s] = m]
                     /\ log' = Append(log, m)
  /\ pc' = [pc EXCEPT ![s] = "write"]
  /\ UNCHANGED <<num_receivers, cells, op, id, recvvars>>

\* write_and_publish: the replacement of the value, then the store of the id.
Write(s) ==
  /\ pc[s] = "write"
  /\ value' = [value EXCEPT ![CellOf(s)] = msg[s]]
  /\ Goto(s, "publish")
  /\ UNCHANGED <<write_head, num_receivers, read_counter, current_id,
                 recvvars, log>>

Publish(s) ==
  /\ pc[s] = "publish"
  /\ current_id' = [current_id EXCEPT ![CellOf(s)] = id[s]]
  /\ Return(s, "ok")
  /\ UNCHANGED <<write_head, num_receivers, value, read_counter, recvvars, log>>

SendStep(s) ==
  \/ CheckDeadline(s) \/ CheckConnected(s)
  \/ Take(s) \/ TakeFails(s) \/ TakeTimeout(s)
  \/ CheckCell(s) \/ AwaitCell(s) \/ CellTimeout(s) \/ CheckReceivers(s)
  \/ PollDisconnected(s) \/ Unwind(s) \/ Restore(s) \/ Write(s) \/ Publish(s)

-----------------------------------------------------------------------------
(* Receivers.                                                               *)

GotoR(r, to) == rpc' = [rpc EXCEPT ![r] = to]

EndReceive(r) == /\ GotoR(r, "ready")
                 /\ rop' = [rop EXCEPT ![r] = "none"]
                 /\ max_results' = [max_results EXCEPT ![r] = 1]

\* The id r tests next, and the last of the ids it has accepted so far.
NextId(r) == cursor[r] + num_read[r]
LastId(r) == cursor[r] + num_read[r] - 1

\* Mutant of Published: a message of an earlier lap is accepted.
PublishedMutant(r) == current_id[fast_mod(NextId(r))] # MAX

Published(r) == current_id[fast_mod(NextId(r))] = NextId(r)

Clamp(m) == IF m > N-1 THEN N-1 ELSE m

\* try_recv_batch(0, ..) returns at once and is not a call here.
RecvCall(r) ==
  /\ rpc[r] = "ready"
  /\ \E o \in RecvOps :
       /\ rop' = [rop EXCEPT ![r] = o]
       /\ IF o = "try_recv_batch"
            THEN \E m \in BatchSizes \ {0} :
                   max_results' = [max_results EXCEPT ![r] = Clamp(m)]
            ELSE UNCHANGED max_results
  /\ GotoR(r, "check")
  /\ UNCHANGED <<write_head, num_receivers, cells, sendvars, cursor,
                 previous_cell_index, num_read, clone_of, out, log>>

\* The next id is published: one message is accepted, or, in a batch, read.
Accept(r) ==
  /\ rpc[r] \in {"check", "await"}
  /\ Published(r)
  /\ IF rop[r] = "try_recv_batch"
       THEN GotoR(r, "batch_read") /\ UNCHANGED num_read
       ELSE GotoR(r, "move_to") /\ num_read' = [num_read EXCEPT ![r] = 1]
  /\ UNCHANGED <<write_head, num_receivers, cells, sendvars, cursor,
                 previous_cell_index, rop, max_results, clone_of, out, log>>

\* It is not: try_recv gives up, a batch ends, the others go on waiting.
NotPublished(r) ==
  /\ rpc[r] = "check"
  /\ ~Published(r)
  /\ \/ /\ rop[r] \in {"recv", "try_recv_until", "poll_next"}
        /\ GotoR(r, "await")
        /\ UNCHANGED <<rop, max_results>>
     \/ /\ rop[r] = "try_recv_batch" /\ num_read[r] > 0
        /\ GotoR(r, "move_to")
        /\ UNCHANGED <<rop, max_results>>
     \/ /\ \/ rop[r] = "try_recv"
           \/ rop[r] = "try_recv_batch" /\ num_read[r] = 0
        /\ EndReceive(r)
  /\ UNCHANGED <<write_head, num_receivers, cells, sendvars, cursor,
                 previous_cell_index, num_read, clone_of, out, log>>

\* The deadline passes, or the future of a Stream receive is dropped.
RecvTimeout(r) ==
  /\ rpc[r] = "await"
  /\ rop[r] \in {"try_recv_until", "poll_next"}
  /\ EndReceive(r)
  /\ UNCHANGED <<write_head, num_receivers, cells, sendvars, cursor,
                 previous_cell_index, num_read, clone_of, out, log>>

\* One round of the loop of try_recv_batch reads under the counter of the
\* previous cell alone.
BatchRead(r) ==
  /\ rpc[r] = "batch_read"
  /\ out' = [out EXCEPT ![r] = value[fast_mod(NextId(r))]]
  /\ num_read' = [num_read EXCEPT ![r] = @ + 1]
  /\ GotoR(r, IF num_read[r] + 1 < max_results[r] THEN "check" ELSE "move_to")
  /\ UNCHANGED <<write_head, num_receivers, cells, sendvars, cursor,
                 previous_cell_index, rop, max_results, clone_of, log>>

\* Mutant of MoveTo: the first cell of a batch is held instead of the last.
MoveToMutant(r) ==
  /\ rpc[r] = "move_to"
  /\ read_counter' = [read_counter EXCEPT ![fast_mod(cursor[r])] = @ + 1]
  /\ GotoR(r, "move_from")
  /\ UNCHANGED <<write_head, num_receivers, value, current_id, sendvars, cursor,
                 previous_cell_index, rop, num_read, max_results, clone_of,
                 out, log>>

MoveTo(r) ==
  /\ rpc[r] = "move_to"
  /\ read_counter' = [read_counter EXCEPT ![fast_mod(LastId(r))] = @ + 1]
  /\ GotoR(r, "move_from")
  /\ UNCHANGED <<write_head, num_receivers, value, current_id, sendvars, cursor,
                 previous_cell_index, rop, num_read, max_results, clone_of,
                 out, log>>

\* move_from on the previous cell, with the update of the handle's fields.
MoveFrom(r) ==
  /\ rpc[r] = "move_from"
  /\ read_counter' = [read_counter EXCEPT ![previous_cell_index[r]] = @ - 1]
  /\ previous_cell_index' =
       [previous_cell_index EXCEPT ![r] = fast_mod(LastId(r))]
  /\ cursor' = [cursor EXCEPT ![r] = NextId(r)]
  /\ num_read' = [num_read EXCEPT ![r] = 0]
  /\ IF rop[r] = "try_recv_batch" THEN EndReceive(r)
       ELSE GotoR(r, "read") /\ UNCHANGED <<rop, max_results>>
  /\ UNCHANGED <<write_head, num_receivers, value, current_id, sendvars,
                 clone_of, out, log>>

\* Mutant of Read: the cell of the cursor that has already moved on.
ReadMutant(r) ==
  /\ rpc[r] = "read"
  /\ out' = [out EXCEPT ![r] = value[fast_mod(cursor[r])]]
  /\ EndReceive(r)
  /\ UNCHANGED <<write_head, num_receivers, cells, sendvars, cursor,
                 previous_cell_index, num_read, clone_of, log>>

Read(r) ==
  /\ rpc[r] = "read"
  /\ out' = [out EXCEPT ![r] = value[previous_cell_index[r]]]
  /\ EndReceive(r)
  /\ UNCHANGED <<write_head, num_receivers, cells, sendvars, cursor,
                 previous_cell_index, num_read, clone_of, log>>

\* Mutant of Clone: no move_to for the new handle.
CloneMutant(r, q) ==
  /\ "clone" \in HandleOps
  /\ rpc[r] = "ready" /\ rpc[q] = "absent"
  /\ cursor' = [cursor EXCEPT ![q] = cursor[r]]
  /\ previous_cell_index' =
       [previous_cell_index EXCEPT ![q] = previous_cell_index[r]]
  /\ rpc' = [rpc EXCEPT ![r] = "cloning", ![q] = "cloned"]
  /\ clone_of' = [clone_of EXCEPT ![q] = r]
  /\ UNCHANGED <<write_head, num_receivers, cells, sendvars,
                 rop, num_read, max_results, out, log>>

\* Clone: move_to on the original's previous cell; the original is borrowed
\* until num_receivers has been raised.
Clone(r, q) ==
  /\ "clone" \in HandleOps
  /\ rpc[r] = "ready" /\ rpc[q] = "absent"
  /\ read_counter' = [read_counter EXCEPT ![previous_cell_index[r]] = @ + 1]
  /\ cursor' = [cursor EXCEPT ![q] = cursor[r]]
  /\ previous_cell_index' =
       [previous_cell_index EXCEPT ![q] = previous_cell_index[r]]
  /\ rpc' = [rpc EXCEPT ![r] = "cloning", ![q] = "cloned"]
  /\ clone_of' = [clone_of EXCEPT ![q] = r]
  /\ UNCHANGED <<write_head, num_receivers, value, current_id, sendvars,
                 rop, num_read, max_results, out, log>>

\* Mutant of CloneCount: num_receivers is not raised.
CloneCountMutant(q) ==
  /\ rpc[q] = "cloned"
  /\ rpc' = [rpc EXCEPT ![q] = "ready", ![clone_of[q]] = "ready"]
  /\ clone_of' = [clone_of EXCEPT ![q] = NULL]
  /\ UNCHANGED <<write_head, num_receivers, cells, sendvars, cursor,
                 previous_cell_index, rop, num_read, max_results, out, log>>

CloneCount(q) ==
  /\ rpc[q] = "cloned"
  /\ num_receivers' = num_receivers + 1
  /\ rpc' = [rpc EXCEPT ![q] = "ready", ![clone_of[q]] = "ready"]
  /\ clone_of' = [clone_of EXCEPT ![q] = NULL]
  /\ UNCHANGED <<write_head, cells, sendvars, cursor, previous_cell_index,
                 rop, num_read, max_results, out, log>>

\* Drop: num_receivers first, then move_from on the previous cell.
Drop(r) ==
  /\ "drop" \in HandleOps
  /\ rpc[r] = "ready"
  /\ num_receivers' = num_receivers - 1
  /\ GotoR(r, "dropping")
  /\ out' = [out EXCEPT ![r] = NULL]
  /\ UNCHANGED <<write_head, cells, sendvars, cursor, previous_cell_index,
                 rop, num_read, max_results, clone_of, log>>

DropCell(r) ==
  /\ rpc[r] = "dropping"
  /\ read_counter' = [read_counter EXCEPT ![previous_cell_index[r]] = @ - 1]
  /\ GotoR(r, "absent")
  /\ cursor' = [cursor EXCEPT ![r] = 1]
  /\ previous_cell_index' = [previous_cell_index EXCEPT ![r] = 0]
  /\ UNCHANGED <<write_head, num_receivers, value, current_id, sendvars,
                 rop, num_read, max_results, clone_of, out, log>>

RecvStep(r) ==
  \/ Accept(r) \/ NotPublished(r) \/ RecvTimeout(r) \/ BatchRead(r)
  \/ MoveTo(r) \/ MoveFrom(r) \/ Read(r)
  \/ CloneCount(r) \/ DropCell(r)

-----------------------------------------------------------------------------
Next ==
  \/ \E s \in Senders : SendCall(s) \/ SendStep(s)
  \/ \E r \in Receivers : RecvCall(r) \/ RecvStep(r) \/ Drop(r)
  \/ \E r, q \in Receivers : Clone(r, q)

Spec == Init /\ [][Next]_vars

-----------------------------------------------------------------------------
(* Safety.                                                                  *)

Connected == \E r \in Receivers : Holding(r)

\* The cell whose value r is about to clone.
Reading(r, c) ==
  \/ rpc[r] = "read" /\ c = previous_cell_index[r]
  \/ rpc[r] = "batch_read" /\ c = fast_mod(NextId(r))

(***************************************************************************)
(* A receiver never clones a value while a sender replaces it: read() and  *)
(* write_and_publish() never touch the same UnsafeCell at the same time,   *)
(* although neither takes a lock.                                          *)
(***************************************************************************)
NoReadWriteRace ==
  \A r \in Receivers, s \in Senders :
    pc[s] = "write" => ~Reading(r, CellOf(s))

(***************************************************************************)
(* What a receiver clones is the message that was claimed under the id it  *)
(* is at: no message is skipped, repeated, reordered or read from another  *)
(* lap of the ring, by recv or by a batch.                                 *)
(***************************************************************************)
ReadsTheLog ==
  \A r \in Receivers :
    /\ rpc[r] = "read" =>
         /\ cursor[r] - 1 \in 1 .. Len(log)
         /\ value[previous_cell_index[r]] = log[cursor[r] - 1]
    /\ rpc[r] = "batch_read" =>
         /\ NextId(r) \in 1 .. Len(log)
         /\ value[fast_mod(NextId(r))] = log[NextId(r)]

(***************************************************************************)
(* While a receiver is left, two senders that have handed the token on are *)
(* never writing the same cell, however long the first of them is delayed  *)
(* between restore and write_and_publish.                                  *)
(***************************************************************************)
ExclusiveWrite ==
  Connected =>
    \A s, t \in Senders :
      s # t /\ InFlight(s) /\ InFlight(t) => CellOf(s) # CellOf(t)

(***************************************************************************)
(* The same without the proviso: the claim of a safe interface holds of    *)
(* the calls in flight when the last receiver is dropped, too.             *)
(***************************************************************************)
ExclusiveWriteAlways ==
  \A s, t \in Senders :
    s # t /\ pc[s] = "write" /\ pc[t] = "write" => CellOf(s) # CellOf(t)

(***************************************************************************)
(* A sender that is about to replace a value has let every receiver go by: *)
(* the message it overwrites, claimed one lap earlier, was received by all *)
(* of them.  This is what waiting for read_counter = 0 is for.             *)
(***************************************************************************)
NoOverwriteUnread ==
  \A s \in Senders, r \in Receivers :
    InFlight(s) /\ Holding(r) => cursor[r] - 1 > id[s] - N

\* The cells whose counter r keeps raised: its previous cell and, between
\* move_to and move_from, the cell it moves to.
Holds(r, c) ==
  /\ Holding(r)
  /\ \/ c = previous_cell_index[r]
     \/ rpc[r] = "move_from" /\ c = fast_mod(LastId(r))

Holders(c)    == {r \in Receivers : Holds(r, c)}
LiveReceivers == {r \in Receivers : Live(r)}

(***************************************************************************)
(* read_counter of each cell is the number of receivers that rely on it,   *)
(* and num_receivers the number of handles, through every interleaving of  *)
(* move_to, move_from, clone and drop: move_from's assertion old >= 1      *)
(* holds, and no receiver is missed by a sender's test for 0.              *)
(***************************************************************************)
CountersExact ==
  /\ \A c \in Cells : read_counter[c] = Cardinality(Holders(c))
  /\ num_receivers = Cardinality(LiveReceivers)

(***************************************************************************)
(* The write token is never duplicated: one sender at most works on the    *)
(* next id, and only while the head is TAKEN; a head that is put back is   *)
(* the id after the last one claimed, after a failed attempt as well.      *)
(***************************************************************************)
TokenUnique ==
  /\ write_head # TAKEN => write_head = Len(log) + 1
  /\ \A s \in Senders :
       HoldsToken(s) => /\ write_head = TAKEN
                        /\ id[s] = Len(log) + 1
                        /\ \A t \in Senders \ {s} : ~HoldsToken(t)

(***************************************************************************)
(* The write token is never lost while a receiver is left: a head that is  *)
(* TAKEN is in the hands of a call that has not returned yet, whatever     *)
(* calls failed or timed out before.                                       *)
(***************************************************************************)
TokenNotLost ==
  write_head = TAKEN => LiveReceivers = {} \/ \E s \in Senders : HoldsToken(s)

(***************************************************************************)
(* A call returns Disconnected only if no receiver is left, and none will  *)
(* ever be again: a clone in progress is never overlooked.                 *)
(***************************************************************************)
DisconnectedIsFinal ==
  \A s \in Senders : pc[s] = "disconnected" => LiveReceivers = {}

(***************************************************************************)
(* A call made after the last receiver is gone never claims an id, and so  *)
(* never reports Ok for a message nobody can receive: although send counts *)
(* the receivers only if its cell is free at once, it is free at once when *)
(* no receiver holds it.                                                   *)
(***************************************************************************)
NoSendAfterDisconnect ==
  \A s \in Senders :
    []((~Connected /\ pc[s] \in Returned) =>
         [](pc[s] # "restore" /\ ~InFlight(s)))

(***************************************************************************)
(* However many sends are under way when the last receiver goes, one       *)
(* message at most is still sent to nobody: that of the send which waited  *)
(* for its cell, and does not count the receivers afterwards, or which had *)
(* counted them just before.  (For send and try_send_before, which count   *)
(* them while they hold the token; try_send counts them before.)           *)
(***************************************************************************)
OneOrphanAtMost ==
  \A n \in 0 .. MaxSends :
    [](~Connected /\ Len(log) = n => [](Len(log) <= n + 1))

-----------------------------------------------------------------------------
(* The inductive invariant.                                                 *)

\* The fields of a handle agree with each other and with where its call is.
HandleInv ==
  \A r \in Receivers :
    /\ previous_cell_index[r] = fast_mod(cursor[r] - 1)
    /\ rpc[r] \notin {"check", "batch_read", "move_to", "move_from"} =>
         num_read[r] = 0
    /\ rpc[r] = "check" => IF rop[r] = "try_recv_batch"
                             THEN num_read[r] < max_results[r]
                             ELSE num_read[r] = 0
    /\ rpc[r] = "await" => rop[r] # "try_recv_batch"
    /\ rpc[r] = "batch_read" => /\ rop[r] = "try_recv_batch"
                                /\ num_read[r] < max_results[r]
    /\ rpc[r] \in {"move_to", "move_from"} => num_read[r] > 0
    /\ rpc[r] = "read" => cursor[r] > 1

\* A clone being made and the original it borrows belong to each other.
CloneInv ==
  \A q \in Receivers : rpc[q] = "cloned" =>
    /\ clone_of[q] \in Receivers
    /\ rpc[clone_of[q]] = "cloning"
    /\ \A p \in Receivers \ {q} :
         rpc[p] = "cloned" => clone_of[p] # clone_of[q]

\* Ids in flight were claimed, by one sender each, and are not published.
ClaimInv ==
  \A s \in Senders : InFlight(s) =>
    /\ id[s] \in 1 .. Len(log)
    /\ msg[s] = log[id[s]]
    /\ \A t \in Senders \ {s} : InFlight(t) => id[t] # id[s]
    /\ \A c \in Cells : current_id[c] # id[s]

PublishedInv == \A c \in Cells : current_id[c] <= Len(log)

\* Every receiver is less than a lap behind the last claim, has accepted only
\* claimed ids, and none that is still in flight.
WindowInv ==
  \A r \in Receivers : Holding(r) =>
    /\ cursor[r] - 1 > Len(log) - N
    /\ LastId(r) <= Len(log)
    /\ rpc[r] = "batch_read" => NextId(r) <= Len(log)
    /\ \A s \in Senders : InFlight(s) =>
         /\ id[s] > LastId(r)
         /\ rpc[r] = "batch_read" => id[s] > NextId(r)

\* A sender that found its cell free has every receiver beyond that cell.
ClearedInv ==
  \A s \in Senders, r \in Receivers :
    pc[s] \in {"check_receivers", "restore"} /\ Holding(r) =>
      cursor[r] - 1 > Len(log) + 1 - N

\* The last N claimed messages are in their cells or in flight.
ContentInv ==
  Connected =>
    /\ \A k \in 1 .. Len(log) : k > Len(log) - N =>
         \/ \E s \in Senders : InFlight(s) /\ id[s] = k
         \/ /\ current_id[fast_mod(k)] = k
            /\ value[fast_mod(k)] = log[k]
    /\ \A s \in Senders : pc[s] = "publish" => value[CellOf(s)] = msg[s]

(***************************************************************************)
(* Why the channel is safe: a receiver at cursor i keeps the counter of    *)
(* cell i-1 raised, so the token cannot pass id i-1+N, so all ids in       *)
(* flight lie between i-1 and i-1+N and have cells of their own.           *)
(***************************************************************************)
IInv ==
  /\ TypeOK
  /\ HandleInv
  /\ CloneInv
  /\ CountersExact
  /\ TokenUnique
  /\ ClaimInv
  /\ PublishedInv
  /\ WindowInv
  /\ ClearedInv
  /\ ContentInv
  /\ DisconnectedIsFinal

-----------------------------------------------------------------------------
(* Liveness.                                                                *)

\* Every thread inside a call is scheduled, and clocks reach deadlines.  Nobody
\* is obliged to make a call, or to clone or drop a handle.
FairSpec == /\ Spec
            /\ \A s \in Senders : WF_vars(SendStep(s))
            /\ \A r \in Receivers : WF_vars(RecvStep(r))

(***************************************************************************)
(* A receiver that waits in recv for an id that a sender has claimed is    *)
(* given the message: neither a sender delayed between restore and         *)
(* write_and_publish nor later senders overtaking it leave it stuck.       *)
(***************************************************************************)
RecvReturns ==
  \A r \in Receivers :
    (rop[r] = "recv" /\ rpc[r] \in {"check", "await"} /\ cursor[r] <= Len(log))
      ~> rpc[r] = "ready"

(***************************************************************************)
(* As long as the receivers keep receiving, every call of a sender         *)
(* returns: senders that wait for the token and for a cell are not         *)
(* deadlocked with receivers that wait for a message.                      *)
(***************************************************************************)
SendReturns ==
  \A s \in Senders : pc[s] \notin Returned ~> pc[s] \in Returned

(***************************************************************************)
(* SendError::Disconnected: "Continued use will always return this error." *)
(* A call made on a channel without receivers returns.                     *)
(***************************************************************************)
DisconnectedReturns ==
  \A s \in Senders :
    (pc[s] \notin Returned /\ LiveReceivers = {}) ~> pc[s] \in Returned

=============================================================================
