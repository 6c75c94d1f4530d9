----------------------------- MODULE ReleaseLine -----------------------------
(***************************************************************************)
(* What the control plane promises, without tables, keys, readbacks or     *)
(* processes: the releases of a tenant form a line that only grows, one    *)
(* candidate at a time waits to join it, and the gate serves an entry of   *)
(* the line, at most one behind its end, or nothing while it is down.      *)
(*                                                                         *)
(* A candidate joins the line or stays: there is no action that withdraws  *)
(* or replaces it, and none that shortens or rewrites the line.            *)
(***************************************************************************)
EXTENDS Integers, Sequences

CONSTANTS
    ModuleSets,                 \* what a release may activate
    None                        \* no candidate, not one of ModuleSets

VARIABLES
    line,                       \* the module sets that were verified, in order
    candidate,                  \* the published set that is not verified yet
    serving                     \* position on the line; 0 when nothing is served

vars == <<line, candidate, serving>>

Init ==
    /\ line = <<>>
    /\ candidate = None
    /\ serving = 0

Propose ==
    /\ candidate = None
    /\ candidate' \in ModuleSets
    /\ UNCHANGED <<line, serving>>

Join ==
    /\ candidate # None
    /\ line' = Append(line, candidate)
    /\ candidate' = None
    /\ UNCHANGED serving

\* The gate follows one step at a time.
Follow ==
    /\ serving + 1 = Len(line)
    /\ serving' = Len(line)
    /\ UNCHANGED <<line, candidate>>

GoDown ==
    /\ serving' = 0
    /\ UNCHANGED <<line, candidate>>

\* A restarted gate serves the end of the line.
ComeBack ==
    /\ serving = 0
    /\ serving' = Len(line)
    /\ UNCHANGED <<line, candidate>>

Next == Propose \/ Join \/ Follow \/ GoDown \/ ComeBack

Spec == Init /\ [][Next]_vars

-----------------------------------------------------------------------------
TypeOK ==
    /\ line \in Seq(ModuleSets)
    /\ candidate \in ModuleSets \cup {None}
    /\ serving \in 0..Len(line)
=============================================================================
