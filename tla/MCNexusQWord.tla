---------------------------- MODULE MCNexusQWord ----------------------------
(* TLC instances of NexusQWord. *)
EXTENDS NexusQWord

=============================================================================
