------------------------- MODULE MCNexusQRefinement -------------------------
(* TLC instances of NexusQRefinement. *)
EXTENDS NexusQRefinement, TLC

Symmetry == Permutations(Senders) \cup Permutations(Receivers)
              \cup Permutations(Msgs)
=============================================================================
