----------------------- MODULE NexusQDisconnectProofs -----------------------
(***************************************************************************)
(* What happens to the senders once the last receiver is gone, when no     *)
(* counter holds them back any more.                                       *)
(***************************************************************************)
EXTENDS NexusQProofs

-----------------------------------------------------------------------------
\* Without a receiver all counters are zero, and nobody raises one again.
LEMMA NobodyLeft ==
  ASSUME IInv, ~Connected
  PROVE  /\ num_receivers = 0
         /\ \A c \in Cells : read_counter[c] = 0
         /\ [Next]_vars => ~Connected'
<1>1. num_receivers = 0
  <2>1. LiveReceivers = {}
    BY DEF Connected, Holding, LiveReceivers, Live
  <2> QED
    BY <2>1, FS_EmptySet DEF IInv, CountersExact
<1>2. ASSUME NEW c \in Cells PROVE read_counter[c] = 0
  <2>1. Holders(c) = {}
    BY DEF Connected, Holders, Holds
  <2> QED
    BY <2>1, FS_EmptySet DEF IInv, CountersExact
<1>3. [Next]_vars => ~Connected'
  <2>1. CASE SenderNext
    BY <2>1, SenderFrame DEF recvvars, Connected, Holding
  <2>2. CASE ReceiverNext
    BY <2>2, ReceiverAdvance DEF IInv, Connected
  <2>3. CASE UNCHANGED vars
    BY <2>3 DEF vars, recvvars, Connected, Holding
  <2> QED
    BY <2>1, <2>2, <2>3, NextSplit
<1> QED
  BY <1>1, <1>2, <1>3

\* The cell of every sender that holds the token is free then.
LEMMA CellsFree ==
  ASSUME IInv, ~Connected, NEW s \in Senders
  PROVE  CellFree(s)
<1>1. id[s] \in Int
  BY DEF IInv, TypeOK
<1>2. CellOf(s) \in Cells
  BY <1>1, IndexType DEF CellOf
<1> QED
  BY <1>2, NobodyLeft DEF CellFree

-----------------------------------------------------------------------------
(* A call made after the last receiver is gone.                             *)

\* Where such a call can be: a method that counts the receivers first has not
\* got past that, any other one has not got past its count.
TooLate(s) ==
  /\ ~Connected
  /\ \/ pc[s] \in Returned \cup {"check_connected"}
     \/ /\ pc[s] \in {"check_deadline", "take", "await_token", "check_cell",
                     "check_receivers"}
        /\ ~CountsFirst(s)

\* It never gets any further.
LEMMA TooLateStable ==
  ASSUME NEW s \in Senders
  PROVE  IInv /\ TooLate(s) /\ [Next]_vars => TooLate(s)'
<1> SUFFICES ASSUME IInv, TooLate(s), [Next]_vars PROVE TooLate(s)'
  OBVIOUS
<1>1. num_receivers = 0 /\ ~Connected'
  BY NobodyLeft DEF TooLate
<1>2. CellFree(s)
  BY CellsFree DEF TooLate
<1>3. /\ pc \in [Senders -> SendPCs]
      /\ op \in [Senders -> AllSendOps \cup {"none"}]
  BY DEF IInv, TypeOK
<1>4. CASE pc'[s] = pc[s] /\ op'[s] = op[s]
  BY <1>1, <1>4 DEF TooLate, CountsFirst
<1>5. CASE SendCall(s)
  <2>1. PICK o \in SendOps : /\ pc' = [pc EXCEPT ![s] = EntryOf[o]]
                             /\ op' = [op EXCEPT ![s] = o]
    BY <1>5 DEF SendCall
  <2>2. /\ EntryOf[o] \in {"take", "check_deadline", "check_connected"}
        /\ EntryOf[o] # "check_connected" => o \notin {"try_send", "poll_ready"}
    BY OpsAssumption DEF EntryOf, AllSendOps
  <2>3. pc'[s] = EntryOf[o] /\ op'[s] = o
    BY <1>3, <2>1
  <2>4. CASE EntryOf[o] # "check_connected"
    <3>1. pc'[s] \in {"take", "check_deadline"} /\ ~CountsFirst(s)'
      BY <2>2, <2>3, <2>4 DEF CountsFirst
    <3> QED
      BY <1>1, <3>1 DEF TooLate
  <2>5. CASE EntryOf[o] = "check_connected"
    BY <1>1, <2>2, <2>3, <2>5 DEF TooLate
  <2> QED
    BY <2>4, <2>5
<1>6. CASE SendStep(s)
  BY <1>1, <1>2, <1>3, <1>6 DEF TooLate, CountsFirst, Returned, SendStep,
     CheckDeadline, CheckConnected, Take, TakeFails, TakeTimeout, CheckCell,
     AwaitCell, CellTimeout, CheckReceivers, PollDisconnected, Unwind, Restore,
     Write, Publish, Goto, Return
<1>7. ASSUME NEW t \in Senders \ {s}, SendCall(t) \/ SendStep(t)
      PROVE  pc'[s] = pc[s] /\ op'[s] = op[s]
  BY <1>3, <1>7 DEF SendCall, SendStep, CheckDeadline, CheckConnected, Take,
     TakeFails, TakeTimeout, CheckCell, AwaitCell, CellTimeout,
     CheckReceivers, PollDisconnected, Unwind, Restore, Write, Publish, Goto,
     Return
<1>8. CASE ReceiverNext \/ UNCHANGED vars
  BY <1>4, <1>8, ReceiverFrame DEF vars, sendvars
<1> QED
  BY <1>4, <1>5, <1>6, <1>7, <1>8, NextSplit DEF SenderNext

(***************************************************************************)
(* A call made after the last receiver is gone never claims an id, by any  *)
(* method: what send counts late it counts in time, because a cell nobody  *)
(* holds is free at once.                                                  *)
(***************************************************************************)
THEOREM LateCallsClaimNothing == Spec => NoSendAfterDisconnect
<1>1. ASSUME NEW s \in Senders
      PROVE  Spec => []((~Connected /\ pc[s] \in Returned) =>
                          [](pc[s] # "restore" /\ ~InFlight(s)))
  <2>1. ~Connected /\ pc[s] \in Returned => TooLate(s)
    BY DEF TooLate
  <2>2. TooLate(s) => pc[s] # "restore" /\ ~InFlight(s)
    BY DEF TooLate, InFlight, Returned
  <2>3. IInv /\ TooLate(s) /\ [Next]_vars => TooLate(s)'
    BY TooLateStable
  <2> QED
    BY <2>1, <2>2, <2>3, Inductive, PTL DEF Spec
<1> QED
  BY <1>1 DEF NoSendAfterDisconnect

-----------------------------------------------------------------------------
(* Sends that are under way when the last receiver goes.                    *)

\* The sends that claim an id without counting the receivers any more.
Claiming(s) == pc[s] \in {"await_cell", "restore"}

\* send and try_send_before do not count the receivers first.
CountLate == \A s \in Senders : ~CountsFirst(s)

\* The methods in use stay what they are.
LEMMA CountLateStable ==
  ASSUME SendOps \subseteq {"send", "try_send_before"}
  PROVE  IInv /\ CountLate /\ [Next]_vars => CountLate'
<1> SUFFICES ASSUME IInv, CountLate, [Next]_vars PROVE CountLate'
  OBVIOUS
<1>1. op \in [Senders -> AllSendOps \cup {"none"}]
  BY DEF IInv, TypeOK
<1>2. ASSUME NEW s \in Senders, SendCall(s) \/ SendStep(s) PROVE CountLate'
  BY <1>1, <1>2 DEF CountLate, CountsFirst, SendCall, SendStep, CheckDeadline,
     CheckConnected, Take, TakeFails, TakeTimeout, CheckCell, AwaitCell,
     CellTimeout, CheckReceivers, PollDisconnected, Unwind, Restore, Write,
     Publish, Goto, Return
<1>3. CASE ReceiverNext \/ UNCHANGED vars
  BY <1>3, ReceiverFrame DEF CountLate, CountsFirst, vars, sendvars
<1> QED
  BY <1>2, <1>3, NextSplit DEF SenderNext

\* Without a receiver nobody comes to wait for a cell or past the count.
LEMMA OutsideClaims ==
  ASSUME IInv, CountLate, ~Connected, NEW s \in Senders, OutsideStep(s)
  PROVE  Claiming(s)' => Claiming(s)
<1>1. pc \in [Senders -> SendPCs]
  BY DEF IInv, TypeOK
<1>2. num_receivers = 0 /\ CellFree(s)
  BY NobodyLeft, CellsFree
<1>3. CASE SendCall(s)
  <2>1. PICK o \in SendOps : pc' = [pc EXCEPT ![s] = EntryOf[o]]
    BY <1>3 DEF SendCall
  <2>2. EntryOf[o] \in {"take", "check_connected", "check_deadline"}
    BY OpsAssumption DEF EntryOf, AllSendOps
  <2> QED
    BY <1>1, <2>1, <2>2 DEF Claiming
<1>4. CASE CheckCell(s) \/ CheckReceivers(s)
  BY <1>1, <1>2, <1>4 DEF CheckCell, CheckReceivers, Goto, Return, CountLate,
     Claiming
<1>5. CASE \/ CheckDeadline(s) \/ CheckConnected(s) \/ TakeFails(s)
           \/ TakeTimeout(s) \/ PollDisconnected(s) \/ Take(s)
  BY <1>1, <1>5 DEF CheckDeadline, CheckConnected, TakeFails, TakeTimeout,
     PollDisconnected, Take, Goto, Return, Claiming
<1>6. CASE AwaitCell(s) \/ CellTimeout(s) \/ Unwind(s)
  BY <1>1, <1>6 DEF AwaitCell, CellTimeout, Unwind, Goto, Return, Claiming
<1> QED
  BY <1>3, <1>4, <1>5, <1>6 DEF OutsideStep, LocalStep

\* The one that hands the token on was the only one of them.
LEMMA RestoreEndsClaims ==
  ASSUME IInv, NEW s \in Senders, Restore(s), NEW t \in Senders
  PROVE  ~Claiming(t)'
<1>1. pc \in [Senders -> SendPCs] /\ pc[s] = "restore"
      /\ pc' = [pc EXCEPT ![s] = "write"]
  BY DEF IInv, TypeOK, Restore
<1> SUFFICES ASSUME Claiming(t)' PROVE FALSE
  OBVIOUS
<1>2. t # s /\ HoldsToken(t) /\ HoldsToken(s)
  BY <1>1 DEF HoldsToken, Claiming
<1> QED
  BY <1>2 DEF IInv, TokenUnique

\* n messages were sent when the last receiver was gone already: one more is
\* possible while nobody has sent it.
OrphanBound(n) ==
  /\ ~Connected
  /\ \/ Len(log) <= n
     \/ Len(log) = n + 1 /\ \A t \in Senders : ~Claiming(t)

LEMMA OrphanBoundStable ==
  ASSUME NEW n \in Nat
  PROVE  IInv /\ CountLate /\ OrphanBound(n) /\ [Next]_vars => OrphanBound(n)'
<1> SUFFICES ASSUME IInv, CountLate, OrphanBound(n), [Next]_vars
             PROVE  OrphanBound(n)'
  OBVIOUS
<1>1. ~Connected /\ ~Connected' /\ Len(log) \in Nat
  BY NobodyLeft DEF OrphanBound, IInv, TypeOK
<1>2. ASSUME NEW s \in Senders, Restore(s) PROVE OrphanBound(n)'
  <2>1. Len(log') = Len(log) + 1 /\ Claiming(s)
    BY <1>2, RestoreForm DEF IInv, Claiming, Restore
  <2>2. Len(log) <= n
    BY <2>1 DEF OrphanBound
  <2>3. \A t \in Senders : ~Claiming(t)'
    BY <1>2, RestoreEndsClaims
  <2> QED
    BY <1>1, <2>1, <2>2, <2>3 DEF OrphanBound
<1>3. ASSUME log' = log, \A t \in Senders : Claiming(t)' => Claiming(t)
      PROVE  OrphanBound(n)'
  BY <1>1, <1>3 DEF OrphanBound
<1>4. ASSUME NEW s \in Senders, OutsideStep(s) PROVE OrphanBound(n)'
  <2>1. log' = log /\ \A t \in Senders \ {s} : Claiming(t)' = Claiming(t)
    BY <1>4, OutsideStepForm DEF IInv, Claiming
  <2> QED
    BY <1>1, <1>3, <1>4, <2>1, OutsideClaims
<1>5. ASSUME NEW s \in Senders, Write(s) \/ Publish(s) PROVE OrphanBound(n)'
  <2>1. log' = log /\ \A t \in Senders : Claiming(t)' => Claiming(t)
    BY <1>5 DEF Write, Publish, Goto, Return, Claiming, IInv, TypeOK
  <2> QED
    BY <1>3, <2>1
<1>6. CASE ReceiverNext \/ UNCHANGED vars
  <2>1. pc' = pc /\ log' = log
    BY <1>6, ReceiverFrame DEF vars, sendvars
  <2> QED
    BY <1>3, <2>1 DEF Claiming
<1> QED
  BY <1>2, <1>4, <1>5, <1>6, NextSplit
     DEF SenderNext, SendStep, OutsideStep, LocalStep

(***************************************************************************)
(* After the last receiver is gone at most one more message is sent, of    *)
(* however many send and try_send_before calls were under way.             *)
(***************************************************************************)
THEOREM OrphansBounded ==
  ASSUME SendOps \subseteq {"send", "try_send_before"}
  PROVE  Spec => OneOrphanAtMost
<1>1. Init => CountLate
  BY DEF Init, CountLate, CountsFirst
<1>2. IInv /\ CountLate /\ [Next]_vars => CountLate'
  BY CountLateStable
<1>3. ASSUME NEW n \in 0 .. MaxSends
      PROVE  Spec => [](~Connected /\ Len(log) = n => [](Len(log) <= n + 1))
  <2>1. n \in Nat
    BY OpsAssumption
  <2>2. ~Connected /\ Len(log) = n => OrphanBound(n)
    BY <2>1 DEF OrphanBound
  <2>3. IInv /\ OrphanBound(n) => Len(log) <= n + 1
    BY <2>1 DEF OrphanBound, IInv, TypeOK
  <2>4. IInv /\ CountLate /\ OrphanBound(n) /\ [Next]_vars => OrphanBound(n)'
    BY <2>1, OrphanBoundStable
  <2> QED
    BY <1>1, <1>2, <2>2, <2>3, <2>4, Inductive, PTL DEF Spec
<1> QED
  BY <1>3 DEF OneOrphanAtMost

-----------------------------------------------------------------------------
(* Two writers in one cell.                                                 *)

\* The ids in flight stay within a lap after the last receiver is gone.  At
\* most one more is claimed then, by a sender that waited for its cell or had
\* counted the receivers before; until it has done so there is room for it.
OrphanInv ==
  ~Connected =>
    \A s \in Senders : InFlight(s) =>
      /\ id[s] > Len(log) - N
      /\ (\E t \in Senders : Claiming(t)) => id[s] > Len(log) - N + 1

\* With a receiver left, the ids in flight leave room for one more.
LEMMA RoomForOne ==
  ASSUME IInv, Connected, NEW s \in Senders, InFlight(s)
  PROVE  id[s] > Len(log) - N + 1
<1>1. PICK r \in Receivers : Holding(r)
  BY DEF Connected
<1>2. cursor[r] - 1 > Len(log) - N /\ id[s] > LastId(r)
  BY <1>1 DEF IInv, WindowInv
<1>3. /\ cursor[r] \in Int /\ num_read[r] \in Nat /\ id[s] \in Int
      /\ Len(log) \in Int /\ N \in Int
  BY RingAssumption DEF IInv, TypeOK
<1> QED
  BY <1>2, <1>3 DEF LastId

\* A sender's steps keep the ids in flight within a lap.
LEMMA SenderOrphan ==
  ASSUME IInv, CountLate, OrphanInv, ~Connected,
         NEW s \in Senders, SendCall(s) \/ SendStep(s)
  PROVE  OrphanInv'
<1> SUFFICES ASSUME NEW t \in Senders, InFlight(t)'
             PROVE  /\ id'[t] > Len(log') - N
                    /\ (\E u \in Senders : Claiming(u)') =>
                         id'[t] > Len(log') - N + 1
  BY DEF OrphanInv
<1>1. /\ pc \in [Senders -> SendPCs] /\ id \in [Senders -> Nat]
      /\ Len(log) \in Nat /\ N \in Nat /\ N >= 2
  BY RingAssumption DEF IInv, TypeOK
<1>2. num_receivers = 0 /\ CellFree(s)
  BY NobodyLeft, CellsFree
<1>3. CASE Restore(s)
  <2>1. /\ id[s] = Len(log) + 1 /\ Len(log') = Len(log) + 1 /\ id' = id
        /\ pc' = [pc EXCEPT ![s] = "write"]
    BY <1>3, RestoreForm DEF IInv
  <2>2. ASSUME NEW u \in Senders, Claiming(u)' PROVE FALSE
    BY <1>3, <2>2, RestoreEndsClaims
  <2>3. CASE t = s
    BY <1>1, <2>1, <2>2, <2>3
  <2>4. CASE t # s
    <3>1. InFlight(t) /\ Claiming(s)
      BY <1>1, <1>3, <2>1, <2>4 DEF InFlight, Claiming, Restore
    <3>2. id[t] > Len(log) - N + 1
      BY <3>1 DEF OrphanInv
    <3> QED
      BY <1>1, <2>1, <2>2, <3>2
  <2> QED
    BY <2>3, <2>4
<1>4. CASE OutsideStep(s)
  <2>1. /\ log' = log /\ t # s /\ id'[t] = id[t] /\ InFlight(t)
        /\ \A u \in Senders \ {s} : Claiming(u)' = Claiming(u)
    BY <1>4, OutsideStepForm DEF IInv, InFlight, Claiming
  <2>2. Claiming(s)' => Claiming(s)
    BY <1>4, OutsideClaims
  <2> QED
    BY <2>1, <2>2 DEF OrphanInv
<1>5. CASE Write(s) \/ Publish(s)
  <2>1. /\ log' = log /\ InFlight(t) /\ id'[t] = id[t]
        /\ \A u \in Senders : Claiming(u)' => Claiming(u)
    BY <1>1, <1>5 DEF Write, Publish, Goto, Return, InFlight, Claiming
  <2> QED
    BY <2>1 DEF OrphanInv
<1> QED
  BY <1>3, <1>4, <1>5 DEF SendStep, OutsideStep, LocalStep

(***************************************************************************)
(* send and try_send_before, which count the receivers while they hold the *)
(* token, never write a cell together, whoever else is in flight when the  *)
(* last receiver goes.                                                     *)
(***************************************************************************)
THEOREM WritersAlwaysExclusive ==
  ASSUME SendOps \subseteq {"send", "try_send_before"}
  PROVE  Spec => []ExclusiveWriteAlways
<1>1. Init => CountLate /\ OrphanInv
  BY DEF Init, CountLate, CountsFirst, OrphanInv, InFlight
<1>2. IInv /\ CountLate /\ [Next]_vars => CountLate'
  BY CountLateStable
<1>3. IInv /\ CountLate /\ OrphanInv /\ [Next]_vars => OrphanInv'
  <2> SUFFICES ASSUME IInv, CountLate, OrphanInv, [Next]_vars
               PROVE  OrphanInv'
    OBVIOUS
  <2>1. CASE ~Connected /\ SenderNext
    BY <2>1, SenderOrphan DEF SenderNext
  <2>2. CASE Connected /\ SenderNext
    <3>1. Connected'
      BY <2>2, SenderFrame DEF recvvars, Connected, Holding
    <3> QED
      BY <3>1 DEF OrphanInv
  <2>3. CASE ReceiverNext \/ UNCHANGED vars
    <3>1. pc' = pc /\ id' = id /\ log' = log
      BY <2>3, ReceiverFrame DEF vars, sendvars
    <3>2. Len(log) \in Int /\ N \in Int /\ id \in [Senders -> Nat]
      BY RingAssumption DEF IInv, TypeOK
    <3>3. CASE Connected
      BY <3>1, <3>2, <3>3, RoomForOne DEF OrphanInv, InFlight
    <3>4. CASE ~Connected
      BY <3>1, <3>4 DEF OrphanInv, InFlight, Claiming
    <3> QED
      BY <3>3, <3>4
  <2> QED
    BY <2>1, <2>2, <2>3, NextSplit
<1>4. IInv /\ OrphanInv => ExclusiveWriteAlways
  <2> SUFFICES ASSUME IInv, OrphanInv, NEW s \in Senders, NEW t \in Senders,
                      s # t, pc[s] = "write", pc[t] = "write"
               PROVE  CellOf(s) # CellOf(t)
    BY DEF ExclusiveWriteAlways
  <2>1. InFlight(s) /\ InFlight(t)
    BY DEF InFlight
  <2>2. /\ id[s] \in Int /\ id[t] \in Int /\ Len(log) \in Int /\ N \in Int
        /\ id[s] <= Len(log) /\ id[t] <= Len(log) /\ id[s] # id[t]
    BY <2>1, RingAssumption DEF IInv, TypeOK, ClaimInv
  <2>3. id[s] > Len(log) - N /\ id[t] > Len(log) - N
    BY <2>1, <2>2, RoomForOne DEF OrphanInv
  <2> QED
    BY <2>2, <2>3, WindowDistinct DEF CellOf
<1> QED
  BY <1>1, <1>2, <1>3, <1>4, Inductive, PTL DEF Spec
=============================================================================
