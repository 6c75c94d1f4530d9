---------------------------- MODULE ManagedProvider ----------------------------
(***************************************************************************)
(* A provider of business tools whose signed release is replaced while the *)
(* server runs (ManagedProviderRuntime in module-runtime/                  *)
(* managed-provider.ts) and the loader that watches the release file and   *)
(* keeps the journal of what was activated (server/                        *)
(* managed-business-provider.ts).                                          *)
(*                                                                         *)
(* An activation waits for the probe of the new provider, for the journal  *)
(* and for the provider it replaces to be disposed of; calls come and end, *)
(* the server closes and the process dies at any of these waits.  A        *)
(* generation is named by its revision, which no process activates twice.  *)
(* A body stands for all a release says beside its revision; signatures,   *)
(* digests of files and hosts decide only whether a file is a release.     *)
(***************************************************************************)
EXTENDS ServerClock

CONSTANTS
    Bodies,                     \* records with the fields enabled and ends
    MaxRevision,                \* bound on revisions
    ProviderCalls,
    MaxDeaths                   \* bound on the deaths of the process

ASSUME ProviderAssumption ==
    /\ MaxRevision \in Nat \ {0} /\ MaxDeaths \in Nat
    /\ \A body \in Bodies : body.enabled \in BOOLEAN /\ body.ends \in Nat

VARIABLES
    offer,                      \* the release in the file
    stored,                     \* the journal's file
    process,                    \* "down", "starting", "up" or "closed"
    journal,                    \* what the process knows of the journal
    active,                     \* the release that is served
    generations,                \* the provider of each revision
    activation,                 \* the activation under way
    providerCalls,              \* what each call is doing
    newest,                     \* the last release any process served
    deaths

providerVars == <<offer, stored, process, journal, active, generations,
                  activation, providerCalls, newest, deaths>>

Revisions == 1..MaxRevision
Releases  == [revision : Revisions, body : Bodies]

ASSUME ReleaseAssumption == None \notin Releases

NoActivation == [at |-> "idle", release |-> None]
NoCall       == [at |-> "idle", generation |-> 0]

Fresh ==
    /\ journal = None /\ active = None
    /\ generations = [g \in Revisions |-> "none"]
    /\ activation = NoActivation

ProviderInit ==
    /\ offer \in {r \in Releases : r.revision = 1}
    /\ stored = None
    /\ process = "down"
    /\ Fresh
    /\ providerCalls = [c \in ProviderCalls |-> NoCall]
    /\ newest = None
    /\ deaths = 0

-----------------------------------------------------------------------------
\* Mutant: a call that was answered counts as ended.
InFlightUnanswered(g) == {c \in ProviderCalls :
                            providerCalls[c].at = "running" /\ providerCalls[c].generation = g}

\* The calls of a generation whose handler has not ended, aborted or not.
InFlight(g) == {c \in ProviderCalls :
                  providerCalls[c].at \in {"running", "aborted"} /\ providerCalls[c].generation = g}
Retired     == {g \in Revisions : generations[g] \in {"draining", "disposing"}}
Serves      == active # None /\ process # "closed" /\ active.body.enabled /\ active.body.ends > now

\* The operator puts another release into the file.
Offer ==
    /\ \E release \in Releases \ {offer} : offer' = release
    /\ UNCHANGED <<stored, process, journal, active, generations, activation, providerCalls, newest, deaths>>

\* The process starts: it reads the journal, then the release.
StartProvider ==
    /\ process = "down"
    /\ process' = "starting" /\ journal' = stored
    /\ UNCHANGED <<offer, stored, active, generations, activation, providerCalls, newest, deaths>>

\* An activation fails.  The first of a process ends it.
Failed ==
    /\ activation' = NoActivation
    /\ process' = IF process = "starting" THEN "down" ELSE process
    /\ journal' = IF process = "starting" THEN None ELSE journal

\* refresh, up to the wait for the probe.
Refresh ==
    /\ process \in {"starting", "up"} /\ activation = NoActivation
    /\ offer # active
    /\ IF /\ offer.body.ends > now
          /\ active # None => offer.revision > active.revision
          /\ Cardinality(Retired) < 2
       THEN activation' = [at |-> "prepare", release |-> offer] /\ UNCHANGED <<process, journal>>
       ELSE Failed
    /\ UNCHANGED <<offer, stored, active, generations, providerCalls, newest, deaths>>

\* Mutant: the same revision may say something else.
ReplayedOlder(release) == journal # None /\ release.revision < journal.revision

\* persist refuses what the journal has passed.
Replayed(release) ==
    /\ journal # None
    /\ \/ release.revision < journal.revision
       \/ release.revision = journal.revision /\ release # journal

\* The generation becomes the active one; the one before is disposed of, now
\* or when its last call ends.
Switch(release) ==
    LET before == IF active = None THEN 0 ELSE active.revision
        idle   == before # 0 /\ InFlight(before) = {}
    IN /\ journal' = release
       /\ active' = release /\ newest' = release
       /\ generations' = [g \in Revisions |->
              IF g = release.revision THEN "active"
              ELSE IF g # before THEN generations[g]
              ELSE IF idle THEN "disposing" ELSE "draining"]
       /\ activation' = IF idle THEN [at |-> "dispose", release |-> release] ELSE NoActivation
       /\ process' = IF process = "starting" THEN "up" ELSE process

\* The provider answers its probe, or is disabled and not asked; the journal
\* is written only when the revision is new to it.
Prepare ==
    LET release == activation.release
    IN /\ activation.at = "prepare"
       /\ \/ /\ release.body.enabled \/ Replayed(release)
             /\ Failed
             /\ UNCHANGED <<active, generations, newest>>
          \/ /\ ~Replayed(release)
             /\ IF journal # None /\ journal.revision = release.revision
                THEN Switch(release)
                ELSE /\ activation' = [activation EXCEPT !.at = "write"]
                     /\ UNCHANGED <<process, journal, active, generations, newest>>
       /\ UNCHANGED <<offer, stored, providerCalls, deaths>>

\* atomicJournal up to the rename, which may fail.
Write ==
    /\ activation.at = "write"
    /\ \/ /\ stored' = activation.release
          /\ activation' = [activation EXCEPT !.at = "readback"]
          /\ UNCHANGED <<process, journal>>
       \/ Failed /\ UNCHANGED stored
    /\ UNCHANGED <<offer, active, generations, providerCalls, newest, deaths>>

\* The directory is flushed and the file read back; a failure here leaves the
\* new journal behind.
ReadBackJournal ==
    /\ activation.at = "readback"
    /\ \/ Switch(activation.release)
       \/ Failed /\ UNCHANGED <<active, generations, newest>>
    /\ UNCHANGED <<offer, stored, providerCalls, deaths>>

\* A provider has closed, well or not.
Disposed(g) ==
    /\ generations[g] = "disposing"
    /\ generations' = [generations EXCEPT ![g] = "none"]
    /\ activation' = IF activation.at = "dispose" THEN NoActivation ELSE activation
    /\ UNCHANGED <<offer, stored, process, journal, active, providerCalls, newest, deaths>>

-----------------------------------------------------------------------------
\* #invoke: a call goes to the generation that is active when it comes.
CallProvider(c) ==
    /\ providerCalls[c] = NoCall /\ Serves
    /\ providerCalls' = [providerCalls EXCEPT ![c] = [at |-> "running", generation |-> active.revision]]
    /\ UNCHANGED <<offer, stored, process, journal, active, generations, activation, newest, deaths>>

\* The caller goes away, or the time to drain is over: the caller has its
\* answer and the handler runs on.
Abort(calls) == providerCalls' = [c \in ProviderCalls |->
    IF c \in calls /\ providerCalls[c].at = "running"
    THEN [providerCalls[c] EXCEPT !.at = "aborted"] ELSE providerCalls[c]]

AbortCall ==
    /\ \E c \in ProviderCalls : providerCalls[c].at = "running" /\ Abort({c})
    /\ UNCHANGED <<offer, stored, process, journal, active, generations, activation, newest, deaths>>

DrainTimer(g) ==
    /\ generations[g] = "draining"
    /\ \E c \in InFlight(g) : providerCalls[c].at = "running"
    /\ Abort(InFlight(g))
    /\ UNCHANGED <<offer, stored, process, journal, active, generations, activation, newest, deaths>>

\* The last handler of a retired generation disposes of its provider.
HandlerEnds(c) ==
    LET g == providerCalls[c].generation
    IN /\ g # 0
       /\ providerCalls' = [providerCalls EXCEPT ![c] = NoCall]
       /\ generations' = IF generations[g] = "draining" /\ InFlight(g) \subseteq {c}
                         THEN [generations EXCEPT ![g] = "disposing"] ELSE generations
       /\ UNCHANGED <<offer, stored, process, journal, active, activation, newest, deaths>>

-----------------------------------------------------------------------------
\* close refuses calls and activations from here on.
CloseProvider ==
    /\ process = "up" /\ process' = "closed"
    /\ UNCHANGED <<offer, stored, journal, active, generations, activation, providerCalls, newest, deaths>>

\* When the activation under way has ended, every generation is retired, its
\* calls are aborted, and it is disposed of unless a handler runs.
CloseGeneration(g) ==
    /\ process = "closed" /\ activation = NoActivation
    /\ generations[g] \in {"active", "draining"}
    /\ generations' = [generations EXCEPT ![g] = IF InFlight(g) = {} THEN "disposing" ELSE "draining"]
    /\ Abort(InFlight(g))
    /\ UNCHANGED <<offer, stored, process, journal, active, activation, newest, deaths>>

\* The process dies or exits: files stay.
Die ==
    /\ process \in {"starting", "up", "closed"} /\ deaths < MaxDeaths
    /\ process' = "down" /\ deaths' = deaths + 1
    /\ journal' = None /\ active' = None
    /\ generations' = [g \in Revisions |-> "none"]
    /\ activation' = NoActivation
    /\ providerCalls' = [c \in ProviderCalls |-> NoCall]
    /\ UNCHANGED <<offer, stored, newest>>

ProviderTick ==
    /\ now < MaxTime /\ now' = now + 1
    /\ UNCHANGED providerVars

ProviderNext ==
    \/ /\ \/ Offer \/ StartProvider \/ Refresh \/ Prepare \/ Write \/ ReadBackJournal
          \/ \E g \in Revisions : Disposed(g) \/ DrainTimer(g) \/ CloseGeneration(g)
          \/ \E c \in ProviderCalls : CallProvider(c) \/ HandlerEnds(c)
          \/ AbortCall \/ CloseProvider \/ Die
       /\ UNCHANGED now
    \/ ProviderTick

ProviderSpec == ProviderInit /\ now = 0 /\ [][ProviderNext]_<<providerVars, now>>

-----------------------------------------------------------------------------
(* Properties.                                                             *)

ProviderTypeOK ==
    /\ offer \in Releases /\ {stored, journal, active, newest} \subseteq Releases \cup {None}
    /\ process \in {"down", "starting", "up", "closed"}
    /\ generations \in [Revisions -> {"none", "active", "draining", "disposing"}]
    /\ activation.at \in {"idle", "prepare", "write", "readback", "dispose"}
    /\ providerCalls \in [ProviderCalls -> [at : {"idle", "running", "aborted"}, generation : 0..MaxRevision]]

\* A provider is not closed under a handler that still runs, not even one
\* whose caller has long been answered.
InFlightKeepsProvider ==
    \A c \in ProviderCalls : providerCalls[c].at # "idle" =>
        generations[providerCalls[c].generation] \in {"active", "draining"}

\* Whatever the operator offers and whenever the process dies, what is served
\* is what was served last or a higher revision: never an older release, nor
\* other contents under the same revision.
NeverRollsBack ==
    [][active' \notin {None, active} /\ newest # None =>
         active' = newest \/ active'.revision > newest.revision]_<<providerVars, now>>
==============================================================================
