-------------------------- MODULE BroadcastChannel --------------------------
(***************************************************************************)
(* What a nexusq2 channel promises, without cells, counters or a token:    *)
(* one totally ordered log of messages; every receiver obtains every       *)
(* message sent after the position it started from, in order and once; no  *)
(* receiver is ever more than Capacity messages behind; a clone continues  *)
(* where its original is; without receivers there is never one again.      *)
(***************************************************************************)
EXTENDS Naturals, Sequences

CONSTANTS Capacity, Receivers, Msgs, NULL

VARIABLES
  log,    \* the messages sent so far
  live,   \* the receivers that exist
  pos,    \* pos[r]: index in log of the next message r obtains, 0 if not live
  out     \* out[r]: the message r obtained last

vars == <<log, live, pos, out>>

Init == /\ log = <<>>
        /\ \E first \in Receivers :
             /\ live = {first}
             /\ pos  = [r \in Receivers |-> IF r = first THEN 1 ELSE 0]
        /\ out = [r \in Receivers |-> NULL]

\* Messages sent and not yet obtained by r.
Backlog(r) == Len(log) + 1 - pos[r]

Send == /\ \A r \in live : Backlog(r) < Capacity
        /\ \E m \in Msgs : log' = Append(log, m)
        /\ UNCHANGED <<live, pos, out>>

Receive(r) == /\ r \in live
              /\ Backlog(r) > 0
              /\ out' = [out EXCEPT ![r] = log[pos[r]]]
              /\ pos' = [pos EXCEPT ![r] = @ + 1]
              /\ UNCHANGED <<log, live>>

Clone(r, q) == /\ r \in live /\ q \notin live
               /\ live' = live \cup {q}
               /\ pos' = [pos EXCEPT ![q] = pos[r]]
               /\ UNCHANGED <<log, out>>

Drop(r) == /\ r \in live
           /\ live' = live \ {r}
           /\ pos' = [pos EXCEPT ![r] = 0]
           /\ out' = [out EXCEPT ![r] = NULL]
           /\ UNCHANGED log

Next == \/ Send
        \/ \E r \in Receivers : Receive(r) \/ Drop(r)
        \/ \E r, q \in Receivers : Clone(r, q)

Spec == Init /\ [][Next]_vars
=============================================================================
