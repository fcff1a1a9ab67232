---------------------------- MODULE MCNexusQAsync ----------------------------
(* TLC instances of NexusQAsync. *)
EXTENDS NexusQAsync, TLC

Symmetry == Permutations(Senders) \cup Permutations(Receivers)
              \cup Permutations(Msgs)
=============================================================================
