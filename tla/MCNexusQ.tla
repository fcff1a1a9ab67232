------------------------------ MODULE MCNexusQ ------------------------------
(* TLC instances of NexusQ. *)
EXTENDS NexusQ, TLC

Symmetry == Permutations(Senders) \cup Permutations(Receivers)
              \cup Permutations(Msgs)
=============================================================================
