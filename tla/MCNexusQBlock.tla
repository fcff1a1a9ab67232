---------------------------- MODULE MCNexusQBlock ----------------------------
(* TLC instances of NexusQBlock. *)
EXTENDS NexusQBlock, TLC

Symmetry == Permutations(Senders) \cup Permutations(Receivers)
              \cup Permutations(Msgs)
=============================================================================
