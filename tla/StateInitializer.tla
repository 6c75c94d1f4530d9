---------------------------- MODULE StateInitializer ----------------------------
(***************************************************************************)
(* How the state of the control plane is made                              *)
(* (initializeSqliteControlState of control-plane/sqlite-control-store.ts):*)
(* a process takes a lock, which is a file that names it, builds the state *)
(* in a directory of its own and renames that into place.  Any number of   *)
(* processes may try at once, and each may stop at any point.              *)
(*                                                                         *)
(* A step is one change of the file system with the checks that come with  *)
(* it.  A lock file is written under a name of its own and then linked to  *)
(* the name of the lock, so for a moment it has two links.  A process is   *)
(* its pid, and no pid comes twice; owners, modes and the links and        *)
(* directories of strangers, which the code verifies at every step, are    *)
(* left out, and so is a loss of power.                                    *)
(***************************************************************************)
EXTENDS Naturals

CONSTANTS
    Initializers,               \* processes
    NoFile,                     \* nothing under this name
    MaxAttempts                 \* tries to take the lock

ASSUME InitializerAssumption == NoFile \notin Initializers /\ MaxAttempts \in Nat \ {0, 1}

VARIABLES
    lockFile,                   \* whose file the lock is
    temps,                      \* the file of each process under its own name
    stagings,                   \* the directory each process builds
    stateDir,                   \* whose directory is the state
    initializing                \* what each process is doing

initializerVars == <<lockFile, temps, stagings, stateDir, initializing>>

Stage    == {"idle", "temps", "create", "write", "link", "hold", "stale", "unlink stale",
             "check", "fill", "recheck", "rename", "release", "unlink lock", "ended", "dead"}
Outcome  == {"success", "state_exists", "lock_conflict", "initialization_failed", "cleanup_failed"}
NotBegun == [at |-> "idle", attempt |-> 1, unseen |-> {}, outcome |-> "success", alone |-> FALSE]

InitializerInit ==
    /\ lockFile = NoFile
    /\ temps = [p \in Initializers |-> "none"]
    /\ stagings = [p \in Initializers |-> "none"]
    /\ stateDir = NoFile
    /\ initializing = [p \in Initializers |-> NotBegun]

At(p, stage)   == initializing[p].at = stage
Living(p)      == initializing[p].at \notin {"idle", "ended", "dead"}
Moves(p, stage) == initializing' = [initializing EXCEPT ![p].at = stage]
Ends(p, outcome) == initializing' = [initializing EXCEPT ![p] = [@ EXCEPT !.at = "ended", !.outcome = outcome]]
\* The lock is released whatever the outcome.
Leaves(p, outcome) == initializing' = [initializing EXCEPT ![p] = [@ EXCEPT !.at = "release", !.outcome = outcome]]
Named == {q \in Initializers : temps[q] # "none"}

-----------------------------------------------------------------------------
(* Taking the lock: acquireInitializerLock.                                *)

\* The process is alone as long as no other one is at work.
Begin(p) ==
    /\ At(p, "idle")
    /\ initializing' = [q \in Initializers |->
           IF q = p THEN [NotBegun EXCEPT !.at = "temps", !.unseen = Named,
                                          !.alone = \A r \in Initializers : ~Living(r)]
           ELSE [initializing[q] EXCEPT !.alone = FALSE]]
    /\ UNCHANGED <<lockFile, temps, stagings, stateDir>>

\* Mutant: a file that is the lock as well is left to the one who finds the lock.
AbandonedSingle(q) == temps[q] = "written" /\ ~Living(q) /\ lockFile # q

\* Who has died between his file and the end of its link; a file that does not
\* say whose it is stays.
Abandoned(q) == temps[q] = "written" /\ ~Living(q)

CleanTemps(p) ==
    /\ At(p, "temps")
    /\ \/ /\ initializing[p].unseen = {}
          /\ Moves(p, "create") /\ UNCHANGED temps
       \/ \E q \in initializing[p].unseen :
             IF temps[q] = "none" THEN Ends(p, "lock_conflict") /\ UNCHANGED temps
             ELSE /\ initializing' = [initializing EXCEPT ![p].unseen = @ \ {q}]
                  /\ temps' = IF Abandoned(q) THEN [temps EXCEPT ![q] = "none"] ELSE temps
    /\ UNCHANGED <<lockFile, stagings, stateDir>>

CreateTemp(p) ==
    /\ At(p, "create") /\ Moves(p, "write")
    /\ temps' = [temps EXCEPT ![p] = "empty"]
    /\ UNCHANGED <<lockFile, stagings, stateDir>>

WriteTemp(p) ==
    /\ At(p, "write") /\ Moves(p, "link")
    /\ temps' = [temps EXCEPT ![p] = "written"]
    /\ UNCHANGED <<lockFile, stagings, stateDir>>

LinkLock(p) ==
    /\ At(p, "link")
    /\ IF lockFile = NoFile
       THEN lockFile' = p /\ Moves(p, "hold") /\ UNCHANGED temps
       ELSE /\ temps' = [temps EXCEPT ![p] = "none"] /\ Moves(p, "stale")
            /\ UNCHANGED lockFile
    /\ UNCHANGED <<stagings, stateDir>>

\* Both names must still be the file that was linked; of a lock that is
\* another's by now even the own name is not removed.
HoldLock(p) ==
    /\ At(p, "hold")
    /\ IF lockFile \in {p, NoFile} THEN temps' = [temps EXCEPT ![p] = "none"] ELSE UNCHANGED temps
    /\ CASE lockFile = p      -> Moves(p, "check")
         [] lockFile = NoFile -> Ends(p, "initialization_failed")
         [] OTHER             -> Ends(p, "cleanup_failed")
    /\ UNCHANGED <<lockFile, stagings, stateDir>>

\* removeStaleInitializerLock looks at the file under the lock's name: its
\* owner must be dead and its link complete ...
FindStale(p) ==
    /\ At(p, "stale")
    /\ IF lockFile # NoFile /\ temps[lockFile] = "none" /\ ~Living(lockFile)
       THEN Moves(p, "unlink stale")
       ELSE Ends(p, "lock_conflict")
    /\ UNCHANGED <<lockFile, temps, stagings, stateDir>>

\* ... and removes what has the name by then.
UnlinkStale(p) ==
    /\ At(p, "unlink stale")
    /\ lockFile' = NoFile
    /\ IF lockFile = NoFile \/ initializing[p].attempt = MaxAttempts
       THEN Ends(p, "lock_conflict")
       ELSE initializing' = [initializing EXCEPT
                ![p] = [@ EXCEPT !.at = "temps", !.unseen = Named,
                                 !.attempt = initializing[p].attempt + 1]]
    /\ UNCHANGED <<temps, stagings, stateDir>>

-----------------------------------------------------------------------------
(* Building and publishing the state.                                      *)

CheckState(p) ==
    /\ At(p, "check")
    /\ IF stateDir # NoFile THEN Leaves(p, "state_exists") /\ UNCHANGED stagings
       ELSE Moves(p, "fill") /\ stagings' = [stagings EXCEPT ![p] = "partial"]
    /\ UNCHANGED <<lockFile, temps, stateDir>>

\* The database, its marker, and all of it on the disk; a failure takes the
\* directory back.
FillStaging(p) ==
    /\ At(p, "fill")
    /\ \/ Moves(p, "recheck") /\ stagings' = [stagings EXCEPT ![p] = "whole"]
       \/ Leaves(p, "initialization_failed") /\ stagings' = [stagings EXCEPT ![p] = "none"]
    /\ UNCHANGED <<lockFile, temps, stateDir>>

RecheckState(p) ==
    /\ At(p, "recheck")
    /\ IF stateDir = NoFile THEN Moves(p, "rename") /\ UNCHANGED stagings
       ELSE Leaves(p, "state_exists") /\ stagings' = [stagings EXCEPT ![p] = "none"]
    /\ UNCHANGED <<lockFile, temps, stateDir>>

\* A directory is not renamed onto one with files in it.  What was published
\* may still fail to be told so: its parent is not on the disk.
PublishState(p) ==
    /\ At(p, "rename")
    /\ stagings' = [stagings EXCEPT ![p] = "none"]
    /\ \/ /\ stateDir = NoFile /\ stateDir' = p
          /\ \E outcome \in {"success", "initialization_failed"} : Leaves(p, outcome)
       \/ /\ stateDir # NoFile /\ UNCHANGED stateDir
          /\ Leaves(p, "initialization_failed")
    /\ UNCHANGED <<lockFile, temps>>

-----------------------------------------------------------------------------
(* Releasing the lock: the own file is verified, then the name removed.    *)

VerifyLock(p) ==
    /\ At(p, "release")
    /\ IF lockFile = p THEN Moves(p, "unlink lock") ELSE Ends(p, "cleanup_failed")
    /\ UNCHANGED <<lockFile, temps, stagings, stateDir>>

UnlinkLock(p) ==
    /\ At(p, "unlink lock")
    /\ lockFile' = NoFile
    /\ Ends(p, IF lockFile = NoFile THEN "cleanup_failed" ELSE initializing[p].outcome)
    /\ UNCHANGED <<temps, stagings, stateDir>>

StopInitializer(p) ==
    /\ Living(p) /\ Moves(p, "dead")
    /\ UNCHANGED <<lockFile, temps, stagings, stateDir>>

InitializerNext ==
    \E p \in Initializers :
        \/ Begin(p) \/ CleanTemps(p) \/ CreateTemp(p) \/ WriteTemp(p) \/ LinkLock(p) \/ HoldLock(p)
        \/ FindStale(p) \/ UnlinkStale(p)
        \/ CheckState(p) \/ FillStaging(p) \/ RecheckState(p) \/ PublishState(p)
        \/ VerifyLock(p) \/ UnlinkLock(p) \/ StopInitializer(p)

InitializerSpec == InitializerInit /\ [][InitializerNext]_initializerVars

-----------------------------------------------------------------------------
InitializerTypeOK ==
    /\ {lockFile, stateDir} \subseteq Initializers \cup {NoFile}
    /\ temps \in [Initializers -> {"none", "empty", "written"}]
    /\ stagings \in [Initializers -> {"none", "partial", "whole"}]
    /\ initializing \in [Initializers -> [at : Stage, attempt : 1..MaxAttempts, unseen : SUBSET Initializers,
                                          outcome : Outcome, alone : BOOLEAN]]

\* Whoever is told that the state was made has made it, whoever has made it is
\* never told that another did, and who works alone is never in the way of those
\* who died: he gets the lock, whatever they left, and leaves none.
InitializerSettles ==
    \A p \in Initializers : At(p, "ended") =>
        /\ initializing[p].outcome = "success" => stateDir = p
        /\ initializing[p].outcome = "state_exists" => stateDir \notin {p, NoFile}
        /\ stateDir = p => initializing[p].outcome # "lock_conflict"
        /\ initializing[p].alone =>
              /\ initializing[p].outcome \notin {"lock_conflict", "cleanup_failed"}
              /\ lockFile = NoFile /\ temps[p] = "none" /\ stagings[p] = "none"
==============================================================================
