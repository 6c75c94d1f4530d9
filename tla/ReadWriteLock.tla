---------------------------- MODULE ReadWriteLock ----------------------------
(***************************************************************************)
(* What the runtime mutation coordinator promises to its callers, without  *)
(* its queue, its counters or its asynchronous hand-over: at any moment    *)
(* the lock is held either by one writer or by any number of readers, and  *)
(* once it has been closed nobody is admitted any more.  One step may let  *)
(* one holder out and several waiting callers in, because releasing the    *)
(* lock hands it over synchronously.                                       *)
(***************************************************************************)
EXTENDS FiniteSets

CONSTANT Calls                  \* the calls that may hold the lock

VARIABLES
    inside,                     \* [Calls -> {"out", "reader", "writer"}]
    closed                      \* TRUE once a fatal error has been recorded

lockVars == <<inside, closed>>

Holders == {c \in Calls : inside[c] # "out"}

\* One writer alone, or readers only.
Compatible(holding) ==
    \A c, d \in Calls :
        (holding[c] = "writer" /\ holding[d] # "out") => c = d

Init ==
    /\ inside = [c \in Calls |-> "out"]
    /\ closed = FALSE

Leave(c) ==
    /\ inside[c] # "out"
    /\ \A d \in Calls \ {c} : inside'[d] # inside[d] => inside[d] = "out" /\ ~closed
    /\ inside'[c] = "out"
    /\ inside' \in [Calls -> {"out", "reader", "writer"}]
    /\ Compatible(inside')
    /\ UNCHANGED closed

Enter(c) ==
    /\ ~closed
    /\ inside[c] = "out"
    /\ \E m \in {"reader", "writer"} : inside' = [inside EXCEPT ![c] = m]
    /\ Compatible(inside')
    /\ UNCHANGED closed

Close ==
    /\ closed' = TRUE
    /\ UNCHANGED inside

Next ==
    \/ \E c \in Calls : Leave(c) \/ Enter(c)
    \/ Close

Spec == Init /\ [][Next]_lockVars
=============================================================================
