----------------------- MODULE MCMutationCoordinator -----------------------
(* Bounded instances of the mutation coordinator for TLC. *)
EXTENDS MutationCoordinator

=============================================================================
