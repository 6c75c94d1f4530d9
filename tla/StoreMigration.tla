----------------------------- MODULE StoreMigration -----------------------------
(***************************************************************************)
(* The move of the access gateway's state from its SQLite files to one     *)
(* schema of PostgreSQL (access-gateway/postgres-migration.ts), beside the *)
(* gateway that still writes the files, the gateway that already writes    *)
(* the schema, and a second migration.                                     *)
(*                                                                         *)
(* The source is read table after table, without a transaction around the  *)
(* reads.  A store keeps the states of tenants, clients and credentials,   *)
(* the events of their changes, the replays of the requests that made      *)
(* them.  In SQLite a replay does not name its event; PostgreSQL wants the *)
(* name, and the migration has to infer it.                                *)
(*                                                                         *)
(* A fingerprint is modelled by what it covers.  The readback of rows      *)
(* inserted in the same transaction finds them as they were inserted.      *)
(* Left out: what a change asks of other subjects (TenantAccess), the      *)
(* other changes, whose events are looked for in the same way, the rows of *)
(* audit and rates, and the upgrade of a schema of an earlier release.     *)
(***************************************************************************)
EXTENDS Naturals, FiniteSets

CONSTANTS
    Migrators,                  \* runs of the migration that may overlap
    MovedTenants, MovedClients, MovedCredentials,
    LastSecond,                 \* bound on created_at
    MaxChanges,                 \* bound on the changes of each store
    MaxRuns                     \* bound on the runs that were begun

ASSUME MigrationAssumption ==
    LastSecond \in Nat /\ MaxChanges \in Nat /\ MaxRuns \in Nat

VARIABLES
    source,                     \* the two SQLite files
    target,                     \* the schema, if it exists
    history,                    \* migration_history: what was moved
    moving,                     \* where each migration stands
    since,                      \* the events written to the schema after the move
    second,                     \* created_at of the last change of the source
    runs

migrationVars == <<source, target, history, moving, since, second, runs>>

Subjects == MovedTenants \cup MovedClients \cup MovedCredentials

\* The changes that leave an event and a replay.
StatusChanges == {"tenant.status"} \X MovedTenants
Creations     == ({"client.create"} \X MovedClients) \cup ({"credential.issue"} \X MovedCredentials)
Acks          == {"credential.delivery_acknowledge"} \X MovedCredentials
StoreChanges  == StatusChanges \cup Creations \cup Acks

\* The keys of actionNames: the actions whose event can be looked for.
Inferable == {"tenant.create", "tenant.status", "client.status", "credential.issue",
              "credential.rotate", "credential.revoke", "credential.delivery_acknowledge"}

Absent == [exists |-> FALSE]
AtRest == [at |-> "idle", copy |-> Absent, keeps |-> FALSE, quiet |-> TRUE]

MigrationInit ==
    /\ source = [status  |-> [s \in Subjects |-> IF s \in MovedTenants THEN "active" ELSE "absent"],
                 events  |-> {}, replays |-> {},
                 keeps   |-> FALSE]
    /\ target = Absent /\ history = {}
    /\ moving = [m \in Migrators |-> AtRest]
    /\ since = {} /\ second = 0 /\ runs = 0

-----------------------------------------------------------------------------
(* The gateways.                                                           *)

Acked(events) == {e.change[2] : e \in {f \in events : f.change \in Acks}}

MayChange(db, change) ==
    LET status == db.status[change[2]] IN
    /\ Cardinality(db.events) < MaxChanges
    /\ change \in Creations => status = "absent"
    /\ change \in Acks => status = "active" /\ change[2] \notin Acked(db.events)

After(db, change) ==
    CASE change \in Creations     -> [db.status EXCEPT ![change[2]] = "active"]
      [] change \in StatusChanges -> [db.status EXCEPT ![change[2]] =
                                        IF @ = "active" THEN "suspended" ELSE "active"]
      [] change \in Acks          -> db.status

NewEvent(db, change, at) == [id |-> Cardinality(db.events) + 1, change |-> change, at |-> at]

\* A write to the source falls into every read that is under way.
Disturb == moving' = [m \in Migrators |->
               IF moving[m].at \in {"events", "replays"}
               THEN [moving[m] EXCEPT !.quiet = FALSE] ELSE moving[m]]

\* One transaction of the SQLite store.  Releases before version 4 of its
\* schema do not keep the result, and with it the event, in the replay.
ChangeSource(change, at) ==
    /\ MayChange(source, change) /\ at >= second
    /\ second' = at
    /\ LET e == NewEvent(source, change, at) IN
       source' = [source EXCEPT !.status  = After(source, change),
                                !.events  = @ \cup {e},
                                !.replays = @ \cup {[change |-> change, at |-> at, of |-> e.id,
                                                     kept |-> source.keeps]}]
    /\ Disturb
    /\ UNCHANGED <<target, history, since, runs>>

UpgradeSource ==
    /\ ~source.keeps
    /\ source' = [source EXCEPT !.keeps = TRUE]
    /\ Disturb
    /\ UNCHANGED <<target, history, since, second, runs>>

\* One transaction of the gateway over PostgreSQL.
ChangeTarget(change) ==
    /\ target.exists /\ MayChange(target, change)
    /\ LET e == NewEvent(target, change, second) IN
       /\ target' = [target EXCEPT !.status  = After(target, change),
                                   !.events  = @ \cup {e},
                                   !.acked   = IF change \in Acks THEN @ \cup {change[2]} ELSE @,
                                   !.replays = @ \cup {[change |-> change, at |-> second, of |-> e.id,
                                                        kept |-> TRUE, operation |-> e.id]}]
       /\ since' = since \cup {e}
    /\ UNCHANGED <<source, history, moving, second, runs>>

-----------------------------------------------------------------------------
(* The migration: reading the source.                                      *)

Stands(m, at) == moving' = [moving EXCEPT ![m].at = at]
Fails(m)      == moving' = [moving EXCEPT ![m] = [AtRest EXCEPT !.at = "failed"]]

\* The version of the source, the acknowledgements and the three tables of states.
ReadStates(m) ==
    /\ moving[m].at \in {"idle", "failed", "done"} /\ runs < MaxRuns
    /\ runs' = runs + 1
    /\ moving' = [moving EXCEPT ![m] =
           [at |-> "events", keeps |-> source.keeps, quiet |-> TRUE,
            copy |-> [exists |-> TRUE, status |-> source.status, acked |-> Acked(source.events),
                      events |-> {}, replays |-> {}]]]
    /\ UNCHANGED <<source, target, history, since, second>>

ReadEvents(m) ==
    /\ moving[m].at = "events"
    /\ moving' = [moving EXCEPT ![m].copy.events = source.events, ![m].at = "replays"]
    /\ UNCHANGED <<source, target, history, since, second, runs>>

Candidates(r, events) ==
    IF r.change[1] \in Inferable THEN {e \in events : e.at = r.at /\ e.change = r.change} ELSE {}

\* Mutant: of several events that fit, any is taken.
InferAny(r, events) == {e.id : e \in Candidates(r, events)}

\* inferOperationId: the event of a replay, if exactly one fits.  A result
\* that was kept has to name the same event.
Infer(r, events) ==
    {e.id : e \in {c \in Candidates(r, events) :
                      /\ Cardinality(Candidates(r, events)) = 1
                      /\ r.kept => c.id = r.of}}

\* A replay as it is read: over version 3 of the schema there is no result.
Seen(m, r) == [r EXCEPT !.kept = @ /\ moving[m].keeps]

ReadReplays(m) ==
    LET events == moving[m].copy.events
        seen   == {Seen(m, r) : r \in source.replays} IN
    /\ moving[m].at = "replays"
    /\ IF \A r \in seen : Infer(r, events) # {}
       THEN moving' = [moving EXCEPT
                ![m].copy.replays = {[change |-> r.change, at |-> r.at, of |-> r.of, kept |-> r.kept,
                                      operation |-> CHOOSE i \in Infer(r, events) : TRUE] : r \in seen},
                ![m].at = "lock"]
       ELSE Fails(m)
    /\ UNCHANGED <<source, target, history, since, second, runs>>

-----------------------------------------------------------------------------
(* The migration: one transaction over PostgreSQL.                         *)

Inside == {"look", "compare states", "compare replays"}

\* BEGIN and the advisory lock of the schema, which the transaction holds.
TakeMigrationLock(m) ==
    /\ moving[m].at = "lock"
    /\ \A n \in Migrators : moving[n].at \notin Inside
    /\ Stands(m, "look")
    /\ UNCHANGED <<source, target, history, since, second, runs>>

\* Mutant: a schema that exists is replaced by what was read.
MoveAgain(m) ==
    /\ moving[m].at = "look"
    /\ target' = moving[m].copy /\ history' = {moving[m].copy}
    /\ Stands(m, "done") \/ Fails(m)
    /\ UNCHANGED <<source, since, second, runs>>

\* The schema, all rows and the history of the move in one transaction.  The
\* answer to the COMMIT may be lost.
Move(m) ==
    /\ moving[m].at = "look" /\ ~target.exists
    /\ target' = moving[m].copy /\ history' = {moving[m].copy}
    /\ Stands(m, "done") \/ Fails(m)
    /\ UNCHANGED <<source, since, second, runs>>

\* A schema that exists has to have been moved from this very source.
FindHistory(m) ==
    /\ moving[m].at = "look" /\ target.exists
    /\ IF moving[m].copy \in history THEN Stands(m, "compare states") ELSE Fails(m)
    /\ UNCHANGED <<source, target, history, since, second, runs>>

\* It is read back table after table, each as it is committed by then.
Compare(m, at, tables, next) ==
    /\ moving[m].at = at
    /\ IF \A t \in tables : target[t] = moving[m].copy[t] THEN Stands(m, next) ELSE Fails(m)
    /\ UNCHANGED <<source, target, history, since, second, runs>>

CompareBack(m) ==
    \/ Compare(m, "compare states", {"status", "acked"}, "compare replays")
    \/ Compare(m, "compare replays", {"events", "replays"}, "done")

\* The process or the connection ends: the transaction is rolled back.
Abort(m) ==
    /\ moving[m].at \notin {"idle", "failed", "done"}
    /\ Fails(m)
    /\ UNCHANGED <<source, target, history, since, second, runs>>

MigrationNext ==
    \/ \E change \in StoreChanges :
          (\E at \in 0..LastSecond : ChangeSource(change, at)) \/ ChangeTarget(change)
    \/ UpgradeSource
    \/ \E m \in Migrators :
          \/ ReadStates(m) \/ ReadEvents(m) \/ ReadReplays(m)
          \/ TakeMigrationLock(m) \/ Move(m) \/ FindHistory(m) \/ CompareBack(m) \/ Abort(m)

MigrationSpec == MigrationInit /\ [][MigrationNext]_migrationVars

-----------------------------------------------------------------------------
(* Properties.                                                             *)

\* The states a store shows follow from its events.
StatesFollow(db) ==
    /\ db.acked = Acked(db.events)
    /\ \A s \in Subjects :
          LET made    == {e \in db.events : e.change \in Creations /\ e.change[2] = s}
              changed == {e \in db.events : e.change \in StatusChanges /\ e.change[2] = s} IN
          db.status[s] = IF s \notin MovedTenants /\ made = {} THEN "absent"
                         ELSE IF Cardinality(changed) % 2 = 0 THEN "active" ELSE "suspended"

Statuses    == {"absent", "active", "suspended"}
StoreEvent  == [id : Nat, change : StoreChanges, at : Nat]
StoreReplay == [change : StoreChanges, at : Nat, of : Nat, kept : BOOLEAN]
NamedReplay == [change : StoreChanges, at : Nat, of : Nat, kept : BOOLEAN, operation : Nat]
Stages      == {"idle", "events", "replays", "lock", "failed", "done"} \cup Inside
Copy        == [exists : {TRUE}, status : [Subjects -> Statuses], acked : SUBSET Subjects,
                events : SUBSET StoreEvent, replays : SUBSET NamedReplay]

MigrationTypeOK ==
    /\ source \in [status : [Subjects -> Statuses], events : SUBSET StoreEvent,
                   replays : SUBSET StoreReplay, keeps : BOOLEAN]
    /\ IsFiniteSet(source.events)
    /\ target \in Copy \cup {Absent}
    /\ target.exists => IsFiniteSet(target.events)
    /\ history \subseteq Copy
    /\ moving \in [Migrators -> [at : Stages, copy : Copy \cup {Absent}, keeps : BOOLEAN, quiet : BOOLEAN]]
    /\ since \subseteq StoreEvent
    /\ second \in Nat /\ runs \in Nat

\* A migration that reports success has its rows in the schema, and everything
\* the new gateway wrote there since is there too, whoever migrates again.
MovedIsThere ==
    /\ \A m \in Migrators : moving[m].at = "done" =>
          /\ target.exists
          /\ moving[m].copy.events \subseteq target.events
          /\ moving[m].copy.replays \subseteq target.replays
    /\ target.exists => since \subseteq target.events

\* Every replay in the schema names the event of its own request, if its result
\* had been kept; if it had not, one that was moved does so all the same when
\* the source was left alone while it was read.
NamesAreTrue ==
    /\ \A m \in Migrators : moving[m].at = "done" /\ moving[m].quiet =>
          \A r \in moving[m].copy.replays : r.operation = r.of
    /\ target.exists => \A r \in target.replays : r.kept => r.operation = r.of

\* A move reported as done loses and overwrites nothing, names what the
\* replays belong to, and is of a state the source was in, if it was left alone.
MigrationKeepsAll ==
    /\ MovedIsThere /\ NamesAreTrue
    /\ \A m \in Migrators : moving[m].at = "done" /\ moving[m].quiet => StatesFollow(moving[m].copy)
==================================================================================
