-------------------------- MODULE NexusQRefinement --------------------------
(***************************************************************************)
(* NexusQ implements BroadcastChannel with a capacity of N messages: N-1   *)
(* unread ones in cells nobody holds and the one a receiver has moved onto *)
(* and is still cloning.                                                   *)
(*                                                                         *)
(*   NexusQ step                   BroadcastChannel step                   *)
(*   Restore (claim of an id)      Send                                    *)
(*   Read, BatchRead               Receive                                 *)
(*   CloneCount                    Clone                                   *)
(*   Drop                          Drop                                    *)
(*   every other step              stutters                                *)
(***************************************************************************)
EXTENDS NexusQ

\* After move_from the cursor is already past the message being cloned, and
\* a batch advances it only after its last message.
PosBar(r) ==
  IF ~Live(r) THEN 0
  ELSE IF rpc[r] = "read" THEN cursor[r] - 1
  ELSE IF rop[r] = "try_recv_batch" THEN NextId(r)
  ELSE cursor[r]

Abstract == INSTANCE BroadcastChannel
              WITH Capacity <- N, live <- LiveReceivers,
                   pos <- [r \in Receivers |-> PosBar(r)]

(***************************************************************************)
(* Every behaviour of the cells, counters and token is a behaviour of the  *)
(* broadcast channel: this is what sender.rs and receiver.rs are for.      *)
(***************************************************************************)
ImplementsChannel == Abstract!Spec
=============================================================================
