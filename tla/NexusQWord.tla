----------------------------- MODULE NexusQWord -----------------------------
(***************************************************************************)
(* The channel in a usize of W bits: the sizes make_channel accepts, the   *)
(* mask that stands for a remainder (src/lib.rs, src/prelude.rs), and the  *)
(* life of ids up to usize::MAX, which also marks a taken head and a cell  *)
(* never published (src/wait_strategy/mod.rs, src/cell.rs).                *)
(*                                                                         *)
(* One thread uses one sender and one receiver, so a call is one step; the *)
(* interleavings of calls are the subject of NexusQ, whose ids are         *)
(* unbounded.  Message k is the number k.                                  *)
(***************************************************************************)
EXTENDS Naturals, Sequences, FiniteSetsExt

CONSTANTS
  W,           \* bits of a usize
  BatchSizes   \* the values of max_results passed to try_recv_batch

ASSUME WidthAssumption == W \in Nat /\ W >= 3

\* The powers of two, as a function the provers can reason about.
pow2[k \in Nat] == IF k = 0 THEN 1 ELSE 2 * pow2[k-1]

ASSUME BatchAssumption == BatchSizes \subseteq 0 .. pow2[W] - 1

USIZE_MAX == pow2[W] - 1
ISIZE_MAX == pow2[W-1] - 1
TAKEN     == USIZE_MAX
Usize     == 0 .. USIZE_MAX

VARIABLES
  size,        \* the argument of make_channel
  made,        \* its outcome: "none" before the call
  len,         \* buffer.len()
  write_head, current_id, read_counter, value,   \* NexusQ and its cells
  cursor, previous_cell_index,                   \* the receiver
  result,      \* what try_send returned, until a message is received
  sent, received,        \* history: how many messages were sent and received
  last         \* what the last receive returned

channel == <<write_head, current_id, read_counter, value>>
vars    == <<size, made, len, channel, cursor, previous_cell_index,
             result, sent, received, last>>

Cells == 0 .. len - 1

TypeOK == /\ size \in Usize /\ len \in Usize
          /\ made \in {"none", "ok", "too_small", "too_large", "panic"}
          /\ write_head \in Usize
          /\ current_id \in [Cells -> Usize]
          /\ read_counter \in [Cells -> 0 .. 1]
          /\ value \in [Cells -> Nat]
          /\ cursor \in Usize /\ previous_cell_index \in Usize
          /\ result \in {"none", "ok", "full"}
          /\ sent \in Nat /\ received \in Nat /\ last \in Seq(Nat)

-----------------------------------------------------------------------------
wrapping_add(a, b) == (a + b) % pow2[W]

\* The bits of a usize, and the operator & on them.
Bit(a, k)    == (a \div pow2[k]) % 2
BitAnd(a, b) == CHOOSE r \in Usize : \A k \in 0 .. W-1 :
                  Bit(r, k) = Bit(a, k) * Bit(b, k)

\* Mutant of fast_mod: the mask is the length.
fast_mod_mutant(i, n) == BitAnd(i, n)

fast_mod(i, n) == BitAnd(i, n - 1)

\* Mutant of maybe_next_power_of_two: the size is used as it is.
maybe_next_power_of_two_mutant(n) == n

maybe_next_power_of_two(n) == Min({p \in {pow2[k] : k \in 0 .. W-1} : p >= n})

-----------------------------------------------------------------------------
Init == /\ size \in Usize
        /\ made = "none" /\ len = 0
        /\ write_head = 1 /\ cursor = 1 /\ previous_cell_index = 0
        /\ current_id = <<>> /\ read_counter = <<>> /\ value = <<>>
        /\ result = "none" /\ sent = 0 /\ received = 0 /\ last = <<>>

\* The checks of with_strategies, and that of Vec::with_capacity, which panics
\* if n cells, of a byte or more, do not fit into isize::MAX bytes.
Outcome(n) == IF size < 2 THEN "too_small"
              ELSE IF size > ISIZE_MAX THEN "too_large"
              ELSE IF n > ISIZE_MAX THEN "panic" ELSE "ok"

MakeChannel ==
  /\ made = "none"
  /\ LET n == IF size \in 2 .. ISIZE_MAX THEN maybe_next_power_of_two(size)
                                         ELSE 0
     IN  /\ made' = Outcome(n)
         /\ len' = IF made' = "ok" THEN n ELSE 0
         /\ current_id'   = [c \in 0 .. len'-1 |-> USIZE_MAX]
         /\ read_counter' = [c \in 0 .. len'-1 |-> IF c = 0 THEN 1 ELSE 0]
         /\ value'        = [c \in 0 .. len'-1 |-> 0]
  /\ UNCHANGED <<size, write_head, cursor, previous_cell_index, result, sent,
                 received, last>>

\* Mutant of Taken: no id stands for a taken head.
TakenMutant == FALSE

\* try_take finds TAKEN; the swap leaves TAKEN behind.
Taken == write_head = TAKEN

TrySend ==
  /\ made = "ok"
  /\ LET id == write_head
         c  == fast_mod(id, len)
     IN  IF Taken \/ read_counter[c] # 0
           THEN result' = "full" /\ UNCHANGED <<channel, sent>>
           ELSE /\ result'     = "ok"
                /\ sent'       = sent + 1
                /\ write_head' = wrapping_add(id, 1)
                /\ value'      = [value EXCEPT ![c] = sent + 1]
                /\ current_id' = [current_id EXCEPT ![c] = id]
                /\ UNCHANGED read_counter
  /\ UNCHANGED <<size, made, len, cursor, previous_cell_index, received, last>>

\* The cell of the id i after the cursor.
CellAt(i) == fast_mod(cursor + i, len)

\* Mutant of Published: any id but the mark of a new cell will do.
PublishedMutant(i) == current_id[CellAt(i)] # USIZE_MAX

\* get_published() == cursor + i; try_recv_batch does not ask the sum to wrap.
Published(i) == current_id[CellAt(i)] = cursor + i

\* Mutant of Receive: the counter of the new cell is not raised.
ReceiveMutant(k, next) ==
  /\ last' = [i \in 1 .. k |-> value[CellAt(i-1)]]
  /\ read_counter' = [read_counter EXCEPT ![previous_cell_index] = @ - 1]
  /\ previous_cell_index' = CellAt(k-1)
  /\ cursor' = next
  /\ received' = received + k
  /\ result' = "none"
  /\ UNCHANGED <<size, made, len, write_head, current_id, value, sent>>

\* k messages are read: move_to on the cell of the last one, move_from on the
\* previous cell.  next is the new cursor.
Receive(k, next) ==
  /\ last' = [i \in 1 .. k |-> value[CellAt(i-1)]]
  /\ read_counter' = [read_counter EXCEPT ![CellAt(k-1)] = @ + 1,
                                          ![previous_cell_index] = @ - 1]
  /\ previous_cell_index' = CellAt(k-1)
  /\ cursor' = next
  /\ received' = received + k
  /\ result' = "none"
  /\ UNCHANGED <<size, made, len, write_head, current_id, value, sent>>

TryRecv ==
  /\ made = "ok"
  /\ Published(0)
  /\ Receive(1, wrapping_add(cursor, 1))

\* The loop of try_recv_batch reads k messages of max_results at most.
LoopReads(k, max_results) ==
  /\ \A i \in 0 .. k-1 : Published(i)
  /\ k = max_results \/ ~Published(k)

\* cursor += num_read is a plain addition, kept exact here: a sum beyond a
\* usize, which wraps or panics as the build says, would not be a Usize.
TryRecvBatch ==
  /\ made = "ok"
  /\ \E m \in BatchSizes \ {0} : \E k \in 1 .. Min({m, len - 1}) :
       LoopReads(k, Min({m, len - 1})) /\ Receive(k, cursor + k)

Next == MakeChannel \/ TrySend \/ TryRecv \/ TryRecvBatch

Spec == Init /\ [][Next]_vars

-----------------------------------------------------------------------------
(***************************************************************************)
(* The cells that make_channel provides are the least power of two of them *)
(* that is enough, and for it the mask of fast_mod is the remainder, of    *)
(* every usize: consecutive ids use the cells in turn.                     *)
(***************************************************************************)
MaskIsRemainder ==
  made = "ok" => /\ size <= len /\ len < 2 * size
                 /\ \A i \in Usize : fast_mod(i, len) = i % len

(***************************************************************************)
(* Messages are received in the order of sending, each once, singly and in *)
(* batches, up to the last id there is: a cell that was never published,   *)
(* marked usize::MAX, is not taken for the message with that id, and no id *)
(* is used twice.                                                          *)
(***************************************************************************)
InOrder ==
  /\ received <= sent
  /\ \E k \in 0 .. received : last = [i \in 1 .. k |-> received - k + i]

(***************************************************************************)
(* The plain additions of try_recv_batch, cursor + i before each read and  *)
(* cursor += num_read after a batch of any length up to len - 1, never     *)
(* exceed a usize, although wrapping is not asked for: the last id there   *)
(* is, is usize::MAX - 1.                                                  *)
(***************************************************************************)
BatchInRange ==
  made = "ok" => \A k \in 0 .. len - 1 :
    (\A i \in 0 .. k-1 : Published(i)) => cursor + k <= USIZE_MAX

(***************************************************************************)
(* While ids last, try_send fails only if len - 1 messages are unread: one *)
(* cell of the ring is always kept by the slowest receiver.                *)
(***************************************************************************)
FullAtCapacity ==
  result = "full" /\ sent < USIZE_MAX - 1 => sent - received = len - 1
=============================================================================
