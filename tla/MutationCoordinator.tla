------------------------- MODULE MutationCoordinator -------------------------
(***************************************************************************)
(* The runtime mutation coordinator                                        *)
(* (control-plane/runtime-mutation-coordinator.ts): a first-come           *)
(* first-served readers-writer lock over promises, with a fatal latch.     *)
(* withMutation takes it as a writer, withControlledDispatch as a reader.  *)
(*                                                                         *)
(* A call is one invocation of withLock.  JavaScript runs the code between *)
(* two awaits without interruption, so one action is one such run:         *)
(*   Call...        the check, and either the grant or the queueing;       *)
(*   StartOperation the continuation of "await acquire(mode)";             *)
(*   CallNested     an operation that enters the coordinator again;        *)
(*   ResumeNested   the continuation of the nested await;                  *)
(*   TripFatal      a running operation that latches the fatal error;      *)
(*   Finish         the continuation of the operation and the release.     *)
(* The turn between a grant and StartOperation is real: a promise has been *)
(* resolved but its continuation has not run, and the fatal error may be   *)
(* latched in between.                                                     *)
(***************************************************************************)
EXTENDS Integers, Sequences, FiniteSets

CONSTANTS
    Calls,                      \* the invocations that may be in flight
    NoCall                      \* "made from no running operation"

ASSUME CallsAssumption == IsFiniteSet(Calls) /\ NoCall \notin Calls

VARIABLES
    activeReaders,              \* the counter of granted readers
    activeWriter,               \* whether a writer has been granted
    fatal,                      \* fatalError !== undefined
    waiters,                    \* the queue of calls that have to wait
    phase,                      \* where each call stands
    mode,                       \* "reader" or "writer", chosen by the call
    parent,                     \* the operation a nested call was made from
    outcome                     \* how the last invocation of a call settled

vars == <<activeReaders, activeWriter, fatal, waiters, phase, mode, parent, outcome>>

Modes    == {"reader", "writer"}
Phases   == {"idle", "waiting", "granted", "running", "awaiting"}
Outcomes == {"none", "ok", "error", "fatal", "non_reentrant"}

Holding(c) == phase[c] \in {"granted", "running", "awaiting"}
Readers    == {c \in Calls : Holding(c) /\ mode[c] = "reader"}
Writers    == {c \in Calls : Holding(c) /\ mode[c] = "writer"}

Init ==
    /\ activeReaders = 0
    /\ activeWriter = FALSE
    /\ fatal = FALSE
    /\ waiters = <<>>
    /\ phase = [c \in Calls |-> "idle"]
    /\ mode = [c \in Calls |-> "reader"]
    /\ parent = [c \in Calls |-> NoCall]
    /\ outcome = [c \in Calls |-> "none"]

-----------------------------------------------------------------------------
(* The queue.                                                              *)

\* Mutant: a reader joins the readers although somebody waits.
ReaderOvertakes(m) ==
    /\ ~activeWriter
    /\ IF m = "reader" THEN TRUE ELSE waiters = <<>> /\ activeReaders = 0

CanAcquireImmediately(m) ==
    /\ waiters = <<>>
    /\ ~activeWriter
    /\ m = "reader" \/ activeReaders = 0

\* Mutant: a release wakes a writer at the head of the queue although readers are left.
WakeHeadWriter(k, r, w, q) ==
    IF w \/ q = <<>> THEN k = 0
    ELSE IF mode[Head(q)] = "writer" THEN k = 1
    ELSE /\ \A i \in 1..k : mode[q[i]] = "reader"
         /\ k < Len(q) => mode[q[k + 1]] = "writer"

\* drain: how many waiters at the head of the queue q are granted when r
\* readers and (or not) a writer hold the lock: none under a writer, one
\* writer when the lock is free, otherwise the longest run of readers.
GrantRun(k, r, w, q) ==
    IF w \/ q = <<>> THEN k = 0
    ELSE IF r = 0 /\ mode[Head(q)] = "writer" THEN k = 1
    ELSE /\ \A i \in 1..k : mode[q[i]] = "reader"
         /\ k < Len(q) => mode[q[k + 1]] = "writer"

FirstWaiters(k) == {waiters[i] : i \in 1..k}

-----------------------------------------------------------------------------
(* Entering.                                                               *)

Fresh(c) == phase[c] = "idle" /\ parent[c] = NoCall

\* assertCanEnter finds the fatal error, or acquire would.
CallRejectedFatal(c) ==
    /\ Fresh(c)
    /\ fatal
    /\ outcome' = [outcome EXCEPT ![c] = "fatal"]
    /\ UNCHANGED <<activeReaders, activeWriter, fatal, waiters, phase, mode, parent>>

CallImmediate(c, m) ==
    /\ Fresh(c)
    /\ ~fatal
    /\ CanAcquireImmediately(m)
    /\ activeReaders' = IF m = "reader" THEN activeReaders + 1 ELSE activeReaders
    /\ activeWriter' = (activeWriter \/ m = "writer")
    /\ phase' = [phase EXCEPT ![c] = "granted"]
    /\ mode' = [mode EXCEPT ![c] = m]
    /\ outcome' = [outcome EXCEPT ![c] = "none"]
    /\ UNCHANGED <<fatal, waiters, parent>>

\* The waiter is pushed and drain runs; drain grants nothing here, because
\* whatever made the immediate grant impossible is still in the way.
CallQueued(c, m) ==
    /\ Fresh(c)
    /\ ~fatal
    /\ ~CanAcquireImmediately(m)
    /\ waiters' = Append(waiters, c)
    /\ phase' = [phase EXCEPT ![c] = "waiting"]
    /\ mode' = [mode EXCEPT ![c] = m]
    /\ outcome' = [outcome EXCEPT ![c] = "none"]
    /\ UNCHANGED <<activeReaders, activeWriter, fatal, parent>>

\* An operation enters the coordinator again and awaits the answer.  The
\* owner token of its asynchronous context is active, so the nested call
\* throws at once instead of queueing behind its own caller.
CallNested(p, c) ==
    /\ phase[p] = "running"
    /\ Fresh(c)
    /\ outcome' = [outcome EXCEPT ![c] = IF fatal THEN "fatal" ELSE "non_reentrant"]
    /\ parent' = [parent EXCEPT ![c] = p]
    /\ phase' = [phase EXCEPT ![p] = "awaiting"]
    /\ UNCHANGED <<activeReaders, activeWriter, fatal, waiters, mode>>

ResumeNested(p, c) ==
    /\ phase[p] = "awaiting"
    /\ parent[c] = p
    /\ phase[c] = "idle"
    /\ parent' = [parent EXCEPT ![c] = NoCall]
    /\ phase' = [phase EXCEPT ![p] = "running"]
    /\ UNCHANGED <<activeReaders, activeWriter, fatal, waiters, mode, outcome>>

-----------------------------------------------------------------------------
(* Leaving.                                                                *)

\* releaseLock and the drain it runs, for a call that settles with result r.
Release(c, r) ==
    LET readersLeft == IF mode[c] = "reader" THEN activeReaders - 1 ELSE activeReaders
        writerLeft  == activeWriter /\ mode[c] # "writer"
    IN  \E k \in 0..Len(waiters) :
            /\ IF fatal THEN k = 0
               ELSE GrantRun(k, readersLeft, writerLeft, waiters)
            /\ activeReaders' = readersLeft
                 + Cardinality({d \in FirstWaiters(k) : mode[d] = "reader"})
            /\ activeWriter' = (writerLeft \/ \E d \in FirstWaiters(k) : mode[d] = "writer")
            /\ waiters' = SubSeq(waiters, k + 1, Len(waiters))
            /\ phase' = [d \in Calls |-> IF d = c THEN "idle"
                                         ELSE IF d \in FirstWaiters(k) THEN "granted"
                                         ELSE phase[d]]
            /\ outcome' = [outcome EXCEPT ![c] = r]
            /\ UNCHANGED <<fatal, mode, parent>>

\* Mutant: the fatal error is not read between the grant and the operation.
StartRegardless(c) ==
    /\ phase[c] = "granted"
    /\ phase' = [phase EXCEPT ![c] = "running"]
    /\ UNCHANGED <<activeReaders, activeWriter, fatal, waiters, mode, parent, outcome>>

\* The continuation of the grant: the fatal error is read before the operation.
StartOperation(c) ==
    /\ phase[c] = "granted"
    /\ ~fatal
    /\ phase' = [phase EXCEPT ![c] = "running"]
    /\ UNCHANGED <<activeReaders, activeWriter, fatal, waiters, mode, parent, outcome>>

AbandonGrant(c) ==
    /\ phase[c] = "granted"
    /\ fatal
    /\ Release(c, "fatal")

\* The operation's promise settles, the fatal error is read once more, and
\* the finally block releases the lock.
Finish(c) ==
    /\ phase[c] = "running"
    /\ \E r \in {"ok", "error"} : Release(c, IF fatal THEN "fatal" ELSE r)

\* Mutant: the waiters are taken from the queue and never rejected.
TripFatalForgetsWaiters(c) ==
    /\ phase[c] = "running"
    /\ ~fatal
    /\ fatal' = TRUE
    /\ waiters' = <<>>
    /\ UNCHANGED <<activeReaders, activeWriter, phase, mode, parent, outcome>>

\* tripFatal: the first call latches the error and rejects every waiter.
TripFatal(c) ==
    /\ phase[c] = "running"
    /\ ~fatal
    /\ fatal' = TRUE
    /\ waiters' = <<>>
    /\ phase' = [d \in Calls |-> IF phase[d] = "waiting" THEN "idle" ELSE phase[d]]
    /\ outcome' = [d \in Calls |-> IF phase[d] = "waiting" THEN "fatal" ELSE outcome[d]]
    /\ UNCHANGED <<activeReaders, activeWriter, mode, parent>>

-----------------------------------------------------------------------------
Next ==
    \/ \E c \in Calls :
        \/ CallRejectedFatal(c)
        \/ \E m \in Modes : CallImmediate(c, m) \/ CallQueued(c, m)
        \/ \E p \in Calls : CallNested(p, c) \/ ResumeNested(p, c)
        \/ StartOperation(c) \/ AbandonGrant(c) \/ Finish(c) \/ TripFatal(c)

\* The runtime runs every ready continuation, and the operations settle.
Fairness ==
    \A c \in Calls :
        /\ WF_vars(StartOperation(c))
        /\ WF_vars(AbandonGrant(c))
        /\ WF_vars(\E d \in Calls : ResumeNested(c, d))
        /\ SF_vars(Finish(c))

Spec     == Init /\ [][Next]_vars
FairSpec == Spec /\ Fairness

-----------------------------------------------------------------------------
TypeOK ==
    /\ activeReaders \in Nat
    /\ activeWriter \in BOOLEAN
    /\ fatal \in BOOLEAN
    /\ waiters \in Seq(Calls)
    /\ phase \in [Calls -> Phases]
    /\ mode \in [Calls -> Modes]
    /\ parent \in [Calls -> Calls \cup {NoCall}]
    /\ outcome \in [Calls -> Outcomes]

\* A writer holds the lock alone, and the two counters of the code agree with
\* the calls that have been granted and have not released (releaseLock,
\* grantReader, acquire): a release that is lost or counted twice breaks it.
Exclusion ==
    /\ activeReaders = Cardinality(Readers)
    /\ activeWriter <=> Writers # {}
    /\ \A c \in Writers, d \in Calls : Holding(d) => c = d

\* The queue holds every waiting call, once, and nobody else: a call missing
\* from it would never be woken, one that stayed in it would be granted twice.
QueueOK ==
    /\ \A i, j \in 1..Len(waiters) : waiters[i] = waiters[j] => i = j
    /\ \A c \in Calls :
         phase[c] = "waiting" <=> \E i \in 1..Len(waiters) : waiters[i] = c

\* A call waits only while somebody who will release the lock holds it, and a
\* queue left behind readers starts with a writer: drain never leaves a waiter
\* that could be granted, so no wake-up is lost.
NoLostWakeup ==
    waiters # <<>> =>
        /\ ~fatal
        /\ activeWriter \/ activeReaders > 0
        /\ ~activeWriter => mode[Head(waiters)] = "writer"

\* Nobody overtakes the queue: a waiter is granted only with everybody before
\* it, and a new call is granted at once only when nobody waits.
NoOvertaking ==
    [][ /\ \A i, j \in 1..Len(waiters) :
             (i < j /\ phase'[waiters[j]] = "granted") => phase'[waiters[i]] = "granted"
        /\ \A c \in Calls :
             (phase[c] = "idle" /\ phase'[c] = "granted") => waiters = <<>> ]_vars

\* After the fatal error is latched no operation starts, not even one whose
\* grant was already on its way, and no call reports success (withLock reads
\* the error before and after the operation).
FatalFence ==
    [][fatal => /\ fatal'
                /\ \A c \in Calls :
                     /\ phase'[c] = "running" => phase[c] \in {"running", "awaiting"}
                     /\ outcome'[c] = "ok" => outcome[c] = "ok"]_vars

\* Every call that has been made settles: writers are not starved by readers
\* that keep arriving, nested entries do not wait for their own caller, and
\* the fatal error wakes every waiter.
EveryCallSettles == \A c \in Calls : phase[c] # "idle" ~> phase[c] = "idle"

-----------------------------------------------------------------------------
(* The coordinator implements the abstract lock.                           *)

insideMap == [c \in Calls |-> IF Holding(c) THEN mode[c] ELSE "out"]

Lock == INSTANCE ReadWriteLock WITH inside <- insideMap, closed <- fatal

\* Every behaviour of the coordinator is one of the readers-writer lock.
ImplementsLock == Lock!Spec
=============================================================================
