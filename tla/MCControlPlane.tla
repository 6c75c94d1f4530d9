--------------------------- MODULE MCControlPlane ---------------------------
(* Bounded instances of the control plane for TLC. *)
EXTENDS ControlPlane, TLC

\* Operators, previews, keys and module sets are interchangeable.
PlaneSymmetry ==
    Permutations(Actors) \cup Permutations(Previews) \cup Permutations(ModuleSets)
        \cup Permutations(PublishKeys) \cup Permutations(ReconcileKeys)
=============================================================================
