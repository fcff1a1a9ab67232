# Verification of nexusq2

TLA+ models, TLC runs and TLAPS proofs for the broadcast channel in `src/src`.
Paths below are relative to the repository (`sender.rs` is `src/src/sender.rs`).

## 1. The system

nexusq2 is a bounded multi-producer, multi-consumer *broadcast* channel: every
receiver obtains every message. There is no lock. Senders are serialised by a
token (the *write head*), receivers run in parallel.

| part | state | operations |
|---|---|---|
| `NexusQ` (`lib.rs`) | ring of cells, `write_head`, `num_receivers` | `make_channel`, `make_channel_with` |
| `Cell` (`cell.rs`) | `value` (not atomic), `read_counter`, `current_id`, a wait strategy | `wait_for_write_safe[_before]`, `safe_to_write`, `write_and_publish`, `wait_for_published[_until]`, `get_published`, `move_to`, `move_from`, `read` |
| `Sender` (`sender.rs`) | none (sync); `AsyncState` (async) | `send`, `try_send`, `try_send_before`, `clone`; `Sink`: `poll_ready`, `start_send`, ... |
| `Receiver` (`receiver.rs`) | `cursor`, `previous_cell_index`, `current_event` | `recv`, `try_recv`, `try_recv_until`, `try_recv_batch`, `clone`, `drop`, `new_sender`; `Stream`: `poll_next` |
| `Waitable`, `Takeable` (`wait_strategy/mod.rs`) | an `AtomicUsize` | `check`, `try_take`, `restore` |
| `BlockStrategy` (`block.rs`) | an `Event` of crate event-listener | `wait_for`, `wait_until`, `take`, `take_before`, `notify_one`, `notify_all`, `poll` |
| `HybridWait` (`hybrid.rs`), `BackoffWait` (`backoff.rs`) | a `BlockStrategy` | the same, spinning first, or only spinning |
| `FastMod` (`prelude.rs`) | none | `fast_mod`, `maybe_next_power_of_two` |

How they interact. A sender swaps `usize::MAX` into `write_head`; the value it
gets is its *id*, and the head stays taken until the sender stores something
back. It waits until nobody holds the cell `id mod N` (`read_counter = 0`),
stores `id + 1` into the head, notifies one waiting sender, and only then
replaces the cell's value, stores `current_id = id` and notifies the cell's
listeners. A receiver at `cursor` waits until the cell `cursor mod N` shows
`current_id = cursor`, raises that cell's counter, lowers the counter of the
cell before, and clones the value. A receiver therefore always holds exactly
the cell before its cursor, and that is what stops the token from lapping it.

What is hard here:

* every access to a cell's value is unsynchronised; safety rests on the order
  of seven atomic accesses by different threads;
* the token is handed on *before* the value is written, so a delayed sender is
  overtaken;
* a batch reads N-1 cells under the counter of one cell it does not read;
* receivers come and go (clone, drop) in two atomic steps each;
* calls that fail, time out or find the channel disconnected must leave the
  token in a usable state;
* threads sleep: listen, test, sleep against make-true, notify;
* everyone waits for someone: senders for the token, its holder for a cell, the
  receiver of that cell for a message;
* as a `Sink` or `Stream`, a handle keeps the token's id and a listener between
  two polls, and its caller decides whether there is a next poll;
* ids are a `usize` whose largest value also means "taken" and "never published".

`PROJECT.json` lists these as hazards, each at its line, with the properties
that would catch it going wrong.

What makes it correct. Every receiver reads exactly the log of messages, in
order, once (`ReadsTheLog`, `ImplementsChannel`); no torn access
(`NoReadWriteRace`, `ExclusiveWrite`); nothing unread is overwritten
(`NoOverwriteUnread`); counters and token agree with who uses them
(`CountersExact`, `TokenUnique`, `TokenNotLost`); `Disconnected` is final
(`DisconnectedIsFinal`) and at most one message is sent to nobody
(`OneOrphanAtMost`); calls return (`SendReturns`, `RecvReturns`); wake-ups
are not lost, of threads (`ListenersExact`, `CellWakeup`, `HeadWakeup`) or tasks
(`TaskWakeup`, `SinkWakeup`); ids and cells agree to the last id (`MaskIsRemainder`,
`InOrder`, `BatchInRange`).

## 2. The modules

| module | contents |
|---|---|
| `NexusQ` | the synchronous channel: cells, token, senders, receivers; invariants, inductive invariant, liveness |
| `NexusQProofs` | TLAPS proofs about `NexusQ`: the inductive invariant and the safety of the channel |
| `NexusQDisconnectProofs` | proofs about `NexusQ` when no receiver is left |
| `BroadcastChannel` | the abstract specification: a log, a position for each receiver, a capacity |
| `NexusQRefinement` | the refinement mapping from `NexusQ` to `BroadcastChannel` |
| `NexusQRefinementProofs` | proof that `NexusQ` implements `BroadcastChannel` under that mapping |
| `NexusQEvents` | the events threads and tasks wait on, who waits for what, who owes a notification |
| `NexusQEventsProofs` | lemmas about events: what listening, notifying and dropping a listener do to all others |
| `NexusQBlock` | threads that sleep: the blocking functions of `BlockStrategy` / `HybridWait` |
| `NexusQBlockProofs` | `NexusQBlock` implements `NexusQ`; listeners are exact and no thread's wake-up is lost |
| `NexusQAsync` | tasks: `Sink`, `Stream`, the poll functions, and what callers do between polls |
| `NexusQAsyncProofs` | `NexusQAsync` implements `NexusQ` if no Sink is polled again after Ready; no task's wake-up is lost |
| `NexusQWord` | sizes, masks and ids in a `usize` of W bits |
| `NexusQWordProofs` | proofs about `NexusQWord`, for every width |
| `MCNexusQ`, `MCNexusQRefinement`, `MCNexusQBlock`, `MCNexusQAsync`, `MCNexusQWord` | what TLC runs; they add only the symmetry set |

`NexusQBlock` and `NexusQAsync` both extend `NexusQEvents`, which extends `NexusQ`:
every step of theirs is a step of `NexusQ` together with what happens to listeners and
notifications, or a step of the waiting alone. `NexusQWord` stands on its own.

### NexusQ

State. `write_head`, `num_receivers` and the three fields of each cell carry the
names of the source. A sender has a program counter `pc`, the method `op` it is
in, the `id` it took and the message `msg`. A receiver has the two fields of
the handle, a program counter `rpc`, the method `rop`, and the locals of
`try_recv_batch`. `out[r]` is the last message `r` obtained and `log` the
history of messages in the order of their ids; no guard reads them, except for
the bound `MaxSends` on `Len(log)`.

Steps. One action is one access to shared memory: an atomic operation, or the
non-atomic replacement (`Write`) or clone (`Read`, `BatchRead`) of a value.
`send` is `SendCall`, `Take`, `CheckCell`, `AwaitCell` or `CheckReceivers`,
`Restore`, `Write`, `Publish`; `try_send` and `try_send_before` add
`CheckConnected`, `CheckDeadline`, `TakeFails`, the two timeouts and `Unwind`
(the `restore(id)` of a failed attempt). `recv` is `RecvCall`, `Accept` or
`NotPublished`, `MoveTo`, `MoveFrom`, `Read`. `Clone`/`CloneCount` and
`Drop`/`DropCell` are the two halves of clone and drop. A deadline may pass
whenever the code looks at the clock. Three steps of the code are merged:
`MoveFrom` also updates the receiver's private fields; `Restore` fixes the
message, which no earlier step looks at; dropping the replaced value has no
effect on the channel and is left out.

Waiting is what `BackoffWait` does: test until it succeeds.

A Sink send is the method `poll_ready`: the steps of `try_send`, except that it waits for
the token and for the cell, and that each poll counts the receivers again
(`PollDisconnected`); `start_send` is `Write` and `Publish`. A Stream receive is the
method `poll_next`, with the steps of `recv`. Their futures may be dropped while they
wait (`TakeTimeout`, `RecvTimeout`). When polls happen is left to `NexusQAsync`.

Bounds and abstractions.

* Ids are unbounded; `usize::MAX` is -1, so it is no id (`NexusQWord` has ids that end).
* N is any number of at least 2 (`with_strategies` rejects less); the code only
  makes powers of two, where the mask of `fast_mod` is the remainder.
* A handle is not shared: `Sender` and `Receiver` are `Send`, not `Sync`, so one
  call at a time per handle. A sender handle carries no state in the sync
  methods, so creating and cloning senders changes nothing.
* Memory order. The model is sequentially consistent, which loses nothing:
  a sender that reads `read_counter = 0` (Acquire) synchronises with the Release
  `move_from` that made it 0 and, through the read-modify-writes before it, with
  all earlier ones; a receiver's Relaxed `move_to` on the next cell precedes that
  `move_from`, so it is visible to this sender and, by Release/Acquire on
  `write_head`, to all later ones; `current_id` is stored Release and loaded
  Acquire. `num_receivers` is Relaxed, but it is one location that only changes
  by read-modify-write and never leaves 0 again: a stale read of it is a read made earlier.

### NexusQEvents

One event per cell, one for the head. `queue[e]` are the listeners of event `e` in the order
in which they registered, `notified[e]` those that were notified and have not noticed yet.
`pend[t]` is the event `t` notifies in its next step, before it does anything else, so
that everybody else can move between the store and the notification (`Owes`, `OwesIfLast`,
`SendNotification`).

External. `NotifyOne`, `NotifyAll`, `Without` and `Unlisten` are events of crate
event-listener as `block.rs` uses them: `notify(1)` does nothing if a listener
is notified already; a listener dropped with an unused notification passes it
on; `wait_deadline` of a notified listener returns true. The order of listeners
is first come, first served.

### NexusQBlock

Adds the loop of `wait_for`, `wait_until`, `take` and `take_before` as a phase per
thread: *spin* (only `HybridWait`: tests without listening, any number of times),
*listen*, *armed* (listens, about to test), *parked*, *woken* (about to test).
`SpinFirst` chooses the strategy. Every action of `NexusQ` appears with what it
does to listeners (`Leave`, `Stay`, `GiveUp`) and to notifications. The methods that poll are
excluded by an assumption.

### NexusQAsync

The poll functions of all three strategies are those of `BlockStrategy`; both are the same
loop, modelled as a phase per task: *test*; *listen* (`get_or_insert`); *armed*, a second
test; *event* (`poll_event`: a notified listener is spent, otherwise the waker is registered);
*woken*, a test after which the loop starts over with a new listener; *pending*, between two polls.
`guard[t]` is the event of the listener kept in `async_state.event_guard` or `current_event`.
`Poll` is the executor's next poll, which may come at any time and must come when the listener
was notified. Threads that block only test, so that the runs stay small; their sleeping is
`NexusQBlock`'s subject.

What callers may do to a task is the constant `TaskOps`: *cancel* drops the future and keeps the
handle with its listener (`CancelSend`, `CancelRecv`; a Sink that has claimed an id and is not
polled again just stays where it is); *drop* drops a sender with its listener and its id (`DropSender`);
*repoll* calls `poll_ready` again before `start_send` (`PollAgain`). After a cancelled poll the same handle
may be used with any other method. The listener of a dropped receiver goes after its cell was
released (`DropEvent`), because fields are dropped last.

Left out: a blocking call on a sender that has a claimed id pending is a call by another
member of `Senders`; the listener that `get_or_insert(self.event.listen())` creates and drops at once when
one is there already (a notification it catches is passed on); `PollAgain` is one step for the
poll's three accesses, and its other outcomes (no receiver left, or a cell occupied
again, which needs a head that was already put back) change nothing shared.

### NexusQWord

A `usize` has W bits. `MakeChannel` makes the checks of `with_strategies`, rounds the size and
builds the cells; `Vec::with_capacity` (external) panics above `isize::MAX`. Then one thread calls
`try_send`, `try_recv` and `try_recv_batch`, each in one step, until the ids are used up. Message k is
the number k and `last` what the last receive returned, a batch in full. `fast_mod` is the mask: `BitAnd`
(external, Rust's `&`) is the number whose bits are the products of the bits of its arguments. Sums wrap where the
code wraps them (`wrapping_add` in the single calls). `try_recv_batch` adds to its cursor with `+` and `+=`, which wrap or
panic depending on the build; there the model keeps the exact sums, and `BatchInRange` and `TypeOK` show that they stay within a `usize`.

### BroadcastChannel and NexusQRefinement

`BroadcastChannel` says what the channel is for, without a ring. The claim of an
id (`Restore`) implements `Send`: from then on the message has its place in the
order. The clone of the value implements `Receive`. The mapping shows two facts
that are not obvious from the code: capacity as a client sees it is N, not N-1 (the cell
a receiver has moved to and is still cloning counts), and a clone becomes a receiver only when it is counted.

## 3. The runs

`CHECK_DEADLOCK FALSE` everywhere: the channel may really stop, with all
receivers waiting for a message nobody sends, and the bound `MaxSends` on the
number of claims ends every behaviour.

| run | instance | shows |
|---|---|---|
| `core_safety` | N=2, 2 senders, 2 receivers, 2 messages, 4 sends; all sends, `try_recv`, `try_recv_until`, `poll_next`, clone, drop | all invariants of the core, `IInv`, and `BroadcastChannel` is implemented |
| `batch` | N=4, 2 senders, 2 receivers, 2 messages, 5 sends; batches of 0, 2 and 9 (clamped to 3), clone | batch reads are safe and complete, and implement `BroadcastChannel` |
| `disconnect` | N=2, 3 senders, 2 receivers, 4 sends; `send`, `try_send_before`, clone, drop | no two writers in one cell, even without receivers; no id is claimed by a call made after the last receiver is gone, and one at most by all calls made before |
| `block_all` | N=2, 2 senders, 2 receivers, 2 sends; all methods that block or fail but `try_recv`, HybridWait | listeners exact, no wake-up lost on a cell |
| `block_liveness` | N=2, 3 senders, 1 receiver, 4 sends; `send`, `recv`, HybridWait | no wake-up lost on the head; every send and every owed recv returns with threads that sleep |
| `async_tasks` | N=2, 2 senders, 2 receivers, 2 sends; Sinks, Streams, `try_send_before`, `try_recv_batch`, clone, drop, all `TaskOps` | no wake-up of a task lost on a cell |
| `async_liveness` | N=2, 3 Sinks, 1 Stream, 3 sends | no wake-up of a Sink lost on the head; Sink sends return and Streams yield when tasks are polled only if woken |
| `word` | W=5, all sizes 0..31, batches of 0, 2 and 9 | masks, order, capacity and sums up to the last id |
| `try_send_race`, `disconnect_hang`, `lost_wakeup`, `async_repoll` | see section 5 | violations |

Why the bounds are enough. With N=2 a ring wraps after two messages, so three
sends give a lap and four give a second one over cells that hold stale content;
three senders are N+1, the least with which two can meet in a cell, and what
`try_send_race` needs. Two receivers give two holders of a cell in either order
of release. A batch longer than one message needs N > 2, hence N=4. Two
messages tell a stale value from the right one. In the runs of tasks a Sink waits for
its cell from the second send on, and a cancelled Stream followed by one other receive has a
listener of the wrong cell. Five bits give rings of 2, 4 and 8 cells (16 would exceed
`isize::MAX`) and 30 ids, more than three laps of the largest. HybridWait may stop spinning at
once, so its runs include the behaviours of BlockStrategy (`SpinFirst = FALSE`, used in
`lost_wakeup`). `recv` has the steps of `poll_next` that is not cancelled,
so the runs with the latter cover it. The theorems of section 4
remove the bounds for every invariant of the runs.

Symmetry (senders, receivers, messages) is used in runs of invariants and of the
refinement, which is a property of single steps; no definition tells two members apart.

Fairness. `FairSpec`: weak fairness of the steps of each thread *inside* a call,
which is that the operating system schedules threads and clocks advance; a thread asleep
has no step until it is notified. Nobody is obliged to call, clone or drop.
`AFairSpec`: besides, a task whose listener was notified is polled, which every executor
does; other polls may happen but need not. `BDrainSpec` and `ADrainSpec` add that receivers keep calling a receive method: without it a full channel
blocks senders by design. Weak fairness does not give a sender the token in
competition with unboundedly many others (the code gives no such guarantee);
`SendReturns` holds because the sends are bounded by `MaxSends`, so it shows the
absence of deadlock and lost tokens rather than of starvation.

Each property of a passing run has a mutant in `PROJECT.json`: a definition with a
plausible mistake (`CellFreeMutant`, `UnwindForgets`, ...) under which TLC finds the
property violated.

## 4. The proofs

`NexusQProofs` proves, for every N >= 2, every set of senders, every finite set
of receivers, every set of messages and every mix of methods:
`Spec => []P` for `IInv` (`Inductive`), `TypeOK`, `CountersExact`, `TokenUnique`,
`TokenNotLost`, `DisconnectedIsFinal`, `NoReadWriteRace`, `ReadsTheLog`,
`ExclusiveWrite` and `NoOverwriteUnread`. The assumptions are the four `ASSUME`s of `NexusQ`.

The argument. None of the last four is inductive: that a read does not meet a
write depends on where all tokens, cursors and writers in flight can be. `IInv`
says so:

* `HandleInv`, `CloneInv`: fields of a handle agree (`previous_cell_index` is the cell
  before `cursor`), a clone being made belongs to a borrowed original;
* `CountersExact`: counters are the number of holders, so a sender that reads 0
  knows that *no* receiver holds the cell;
* `TokenUnique`, `ClaimInv`, `PublishedInv`: ids are handed out once, in order;
* `WindowInv`: every receiver is less than one lap behind the last claim, and no id
  in flight is at or below what a receiver has accepted;
* `ClearedInv`: a sender past its test has every receiver beyond the cell. This is
  where the ring argument is: a receiver holds cell `cursor-1`, it is at most N-1 ids
  behind, so among the ids of that window only `id - N` falls into the cell of `id` (`FreeCell`);
* `ContentInv`: the last N claimed messages are in their cells or in flight.

From these, ids in flight lie in a window of N ids and have cells of their own
(`WindowDistinct`), which gives `ExclusiveWrite`, `NoReadWriteRace` and, with
`ContentInv`, `ReadsTheLog`. The lemmas treat senders and receivers separately
(`SenderFrame`, `ReceiverFrame`: neither touches the other's variables), one
lemma for each conjunct and kind of step, over arithmetic lemmas about `%`
(`IndexDistinct`, `IndexLap`).

### Without receivers

`NexusQDisconnectProofs`. `LateCallsClaimNothing` (`NoSendAfterDisconnect`) needs no further
assumption. Once no receiver is left none comes back and `num_receivers` is 0 (`NobodyLeft`), so a call made from then on
cannot get past its count of the receivers: it stays in the places `TooLate` lists.

The other two assume `SendOps \subseteq {"send", "try_send_before"}`, the methods that count while they hold the
token; the others count before they take it, and `try_send_race` shows what follows. `OrphansBounded` (`OneOrphanAtMost`): without
receivers all cells are free, so nobody comes to wait for a cell or past the count any more (`OutsideClaims`); who was there already
holds the token and is the only one (`RestoreEndsClaims`). For `WritersAlwaysExclusive` (`ExclusiveWriteAlways`) the
invariant `OrphanInv` says that the claims still under way after the last receiver has gone all lie in
one window of N ids: those that had claimed before, and at most one more, that of the holder of the token.

### The abstract channel

`NexusQRefinementProofs` proves `Spec => ImplementsChannel` step by step. `PositionInv` adds to `IInv` where the
position of a receiver can be while it reads, in a batch in particular; the capacity of N
follows from `WindowInv`, the message of a `Receive` from `CellsHoldTheLog`.

### Threads that sleep

`NexusQBlockProofs` proves `BSpec => Spec` (`BlockImplements`): sleeping changes no
channel state. `BlockSafe` carries `ReadsTheLog` and `NoReadWriteRace` over, `BlockImplementsChannel` the
abstract channel. What threads do to listeners is proved from four kinds of step: outside a wait
loop (`Idle`), leaving it (`Left`), testing in vain (`Stayed`) or waiting proper (`Waited`).

* `ListenInv`: a thread is registered at its own event exactly in the phases *armed* and *parked*, once.
  It gives `BlockTypeCorrect` and `ListenersCorrect` (`ListenersExact`): no early return, timeout or
  dropped handle leaves a listener behind.
* `CellWakeupCorrect` (`CellWakeup`), for all methods. Whoever makes the condition of a cell true owes a
  notification to all its listeners in the same step: the receiver that takes a counter to 0
  (`ReleaseIsOwed`) and the sender that publishes (`PublishIsOwed`). A debt ends only with
  `NotifyAll`, after which nobody sleeps there.
* `HeadWakeupCorrect` (`HeadWakeup`) assumes `SendOps \subseteq {"send"}`. The head is notified with `notify_one`, so
  a notification can be lost to a listener that does not need it; the invariant is that while the
  token is free somebody *cares*: owes the notification, has it, or is about to test
  (`RestoreIsOwed`). A listener that leaves with a notification passes it on (`UnlistenForm`). The
  assumption is needed: `lost_wakeup` is the restore without a notification.

### Tasks

`NexusQAsyncProofs` proves `ASpec => Spec` (`AsyncImplements`) under the assumption
`"repoll" \notin TaskOps`, for every use of cancelled futures and dropped handles: a poll touches
the channel only through steps of `NexusQ`. `AsyncSafe` carries `ReadsTheLog`, `NoReadWriteRace` and
`ExclusiveWrite` over, `AsyncImplementsChannel` the abstract channel. `async_repoll` shows that the assumption is needed. Under it:

* `AsyncInductive`, `AsyncTypeCorrect`: `PollInv` says that the listener in the handle (`guard`) is the one
  registered at that event, no other, wherever the task is (`GuardExact`), and which phases go with it.
* `TaskWakeupCorrect` (`TaskWakeup`). The difficulty is that `get_or_insert` keeps a listener of an earlier poll,
  which may belong to another cell. `StreamOK` shows that this is harmless: the cursor leaves a cell
  only after its message was published, and publishing calls every listener of that cell, so a listener that is
  stale has always been called or is about to be (`Called`), and the next poll spends it and makes a new one. `SinkOK`
  is the same for a Sink and the release of its cell.
* `SinkWakeupCorrect` (`SinkWakeup`) assumes `SendOps \subseteq {"send", "poll_ready"}` and `TaskOps \subseteq {"drop"}`.
  `GuardFits`: then a Sink's listener is always that of the event it waits for. `HeadOK`: while the token is free
  somebody minds, as for threads; a dropped Sink hands its notification on. A cancelled Sink keeps its listener and
  swallows the notification, and a failed `try_send` restores without one, which the assumptions exclude (section 5).

### Words

`NexusQWordProofs` proves the five invariants of `word` for every width W >= 3, every requested size
and every set of batch sizes. Two parts:

* `MaskLemma`: `fast_mod(i, 2^j) = i % 2^j` for every `usize`, and for sums beyond it. Powers of two are a recursive function;
  that it exists, and every induction here, is by a least counterexample (`LeastNat`, from the
  well-foundedness of `<` on the naturals). `MaskBits` and `RemainderBits` give the bits of `2^j - 1` and of a
  remainder, `BitsDetermine` that bits determine the number. `NextPowerOfTwo` bounds the size of the ring.
* `WInv` (`WordInductive`): head and cursor are one more than the messages sent and received and never wrap; one counter is raised, that of
  the message read last; the last lap is in its cells; a cell with the mark `usize::MAX` never had a message. Hence
  `PublishedWasSent`: what a receiver finds published was sent. An id `usize::MAX` would look published in an unused cell, but when
  the cursor gets near it no cell is unused.

TLC has checked every invariant used in these proofs (`IInv` in `core_safety` and `batch`).

Only model-checked: liveness (`SendReturns`, `RecvReturns`, `DisconnectedReturns`, `SinkReturns`, `StreamYields`), which is
out of the prover's reach; `ATypeOK` and `TaskWakeup` when a Sink is polled again after Ready, where `IInv`, from which they are
proved, fails.

## 5. Where the code and its documentation disagree

* `disconnect_hang`. `send` and `try_send_before` return `Disconnected` without
  restoring the head (`sender.rs:127`, `216`). The documentation says "Continued use
  will always return this error" (`sender.rs:24`); the next `send` hangs.
* `lost_wakeup`. `try_send` and `try_send_before` put the token back after finding the cell
  occupied (`sender.rs:167`, `219`) without `notify_one`. A `send` that went to sleep on the head in
  between stays asleep beside a free token, although the channel drains, until another call succeeds.
* `try_send_race`. `try_send` counts receivers before it takes the token (`sender.rs:157`). Calls
  that passed this test when the last receiver is dropped are not bounded by the ring, and
  N+1 of them can write one cell at the same time. `disconnect` shows that the other two methods,
  which count while they hold the token, do not have this problem.
* `async_repoll`. `poll_ready` called again after Ready stores `id + 1` into the head a second time
  (`sender.rs:276`), moving it back over ids that others have claimed. Writes are no longer
  "serialised through a shared token" (`lib.rs:6`); the `Sink` trait does not forbid the call.

Further observations, not kept as runs:

* `try_send` reports `Full` whenever another sender holds the token (`sender.rs:160`), also on a channel
  with free cells; the documentation says "The channel is currently full" (`sender.rs:141`).
* A claimed id lives in the handle only and `Sender` has no `Drop`: a sender dropped while it
  waits for its cell takes the token with it, one dropped before `start_send` an id nobody will publish
  (`sender.rs:255`). `async_liveness` with `TaskOps = {"drop"}` then violates `SinkReturns`.
* The listener of a cancelled Sink send stays registered (`block.rs:165`) and takes the `notify_one`
  meant for another Sink: `async_liveness` with `TaskOps = {"cancel"}` violates
  `SinkReturns`.
* When the last receiver goes, Sinks that wait for the token are not woken: `drop` notifies its cell only, and
  a Sink that finds the channel disconnected (`sender.rs:240`) neither restores the token nor notifies.
  `DisconnectedReturns` fails under `AFairSpec` as it does in `disconnect_hang`.
* `debug_assert!(self.current_event.is_none())` in `Receiver::clone` (`receiver.rs:86`) fails after a
  `next()` future was dropped. The effect is harmless where assertions are off.
* After id `usize::MAX - 1` the head is `usize::MAX`, that is, taken (`sender.rs:171`): `try_send` reports `Full` on
  an empty channel for ever, which is why `FullAtCapacity` ends where the ids do. `word` shows that up to there nothing
  goes wrong, and that the plain additions in `try_recv_batch` (`receiver.rs:184`, `186`, `198`) are safe only
  because ids end there. With 64 bits the end is out of reach, with 32 it takes hours.
* Sizes above half of `isize::MAX` pass the check (`lib.rs:119`), are rounded to `isize::MAX + 1` and make
  `Vec::with_capacity` panic, although the documentation allows them (`lib.rs:143`).

Not counted as disagreements: a `send` that had to wait for its cell does not count receivers
afterwards and returns `Ok` when the wait ended because the last receiver was dropped (`disconnect` shows that this
is confined to one call, made before it was gone); a channel made with a power of two as its size holds one
unread message less than that (`FullAtCapacity`), which a `TODO` in the tests of `lib.rs` acknowledges.

## 6. Plan and what is left out

Every invariant and the refinement of the passing runs are proved. Left: `ATypeOK` and `TaskWakeup`
with *repoll*, which need an invariant of their own, weaker than `IInv`.

Not modelled: `Debug` implementations, benchmarks and tests; panics in `T::clone` or `T::drop`;
allocation failure; sleeping threads and tasks in one model; the `u64` implementation of `FastMod` and
`wait_for_published_with_timeout`, which nothing calls; the internals of event-listener.
