---------------------------- MODULE StoreProofs -------------------------------
(***************************************************************************)
(* The stores, for any processes, subjects, keys and bounds: the move of   *)
(* the gateway's state to PostgreSQL, the portal's state that replicas     *)
(* share there, and the control state that processes initialize.  Each is  *)
(* proved by itself.                                                       *)
(***************************************************************************)
EXTENDS StoreMigration, SharedStore, StateInitializer,
    FiniteSetTheorems, TLAPS

-----------------------------------------------------------------------------
(***************************************************************************)
(* For any number of migrations and any stores: what a migration reports   *)
(* as moved is in the schema with everything written there since, and the  *)
(* names it gave the replays are right.                                    *)
(*                                                                         *)
(* A replay in the source has its event beside it, stored in the same      *)
(* transaction.  If the source has not changed since the events were read, *)
(* that event is among the candidates, so the only candidate is that one;  *)
(* if it has changed, the result that was kept tells.                      *)
(***************************************************************************)

Reading == {"events", "replays"}
MoveHolding == {"lock", "done"} \cup Inside     \* stages that follow the reading
Comparing == {"compare states", "compare replays"}

\* The event of a replay is stored with it.
SourceHasEvents ==
    \A r \in source.replays :
        \E e \in source.events : e.id = r.of /\ e.change = r.change /\ e.at = r.at

NamesIn(copy, quiet) == \A r \in copy.replays : r.kept \/ quiet => r.operation = r.of

\* What a migration holds at each stage.
ReadsRight ==
    \A m \in Migrators :
        /\ moving[m].at \in Reading \cup MoveHolding => moving[m].copy \in Copy
        /\ moving[m].at \in Reading \cup MoveHolding => IsFiniteSet(moving[m].copy.events)
        /\ moving[m].at = "replays" /\ moving[m].quiet => moving[m].copy.events = source.events
        /\ moving[m].at \in MoveHolding => NamesIn(moving[m].copy, moving[m].quiet)
        /\ moving[m].at \in Comparing => target.exists

SinceIsAfter == ~target.exists => since = {}

\* The inductive invariant.
MigrationInv ==
    MigrationTypeOK /\ SourceHasEvents /\ ReadsRight /\ SinceIsAfter /\ MovedIsThere /\ NamesAreTrue

-----------------------------------------------------------------------------
(* Inference.                                                              *)

\* What is inferred is the event the replay kept, and the event the replay has
\* if that one is among those looked at.
LEMMA InferredIsRight ==
    ASSUME NEW r \in StoreReplay, NEW events \in SUBSET StoreEvent, IsFiniteSet(events),
           NEW i \in Infer(r, events)
    PROVE  /\ i \in Nat
           /\ r.kept => i = r.of
           /\ (\E e \in events : e.id = r.of /\ e.change = r.change /\ e.at = r.at) => i = r.of
<1>1. PICK c \in Candidates(r, events) :
          Cardinality(Candidates(r, events)) = 1 /\ (r.kept => c.id = r.of) /\ i = c.id
  BY DEF Infer
<1>2. Candidates(r, events) \in SUBSET events
  BY DEF Candidates
<1>3. IsFiniteSet(Candidates(r, events))
  BY <1>2, FS_Subset
<1>4. PICK x : Candidates(r, events) = {x}
  BY <1>1, <1>3, FS_Singleton
<1>5. Candidates(r, events) = {e \in events : e.at = r.at /\ e.change = r.change}
  BY <1>4 DEF Candidates
<1>6. ASSUME NEW e \in events, e.id = r.of, e.change = r.change, e.at = r.at PROVE i = r.of
  <2>1. e \in Candidates(r, events)
    BY <1>5, <1>6
  <2>2. e = c
    BY <1>1, <1>4, <2>1
  <2> QED BY <1>1, <1>6, <2>2
<1>7. i \in Nat
  BY <1>1, <1>2 DEF StoreEvent
<1> QED BY <1>1, <1>6, <1>7

-----------------------------------------------------------------------------
(* The invariant.                                                          *)

LEMMA MigrationInitInv == ASSUME MigrationInit PROVE MigrationInv
<1>1. IsFiniteSet({})
  BY FS_EmptySet
<1>2. source \in [status : [Subjects -> Statuses], events : SUBSET StoreEvent,
                  replays : SUBSET StoreReplay, keeps : BOOLEAN]
  BY DEF MigrationInit, Statuses
<1>3. MigrationTypeOK
  BY <1>1, <1>2 DEF MigrationInit, MigrationTypeOK, Absent, AtRest, Stages
<1> QED
  BY <1>3 DEF MigrationInit, MigrationInv, SourceHasEvents, ReadsRight, SinceIsAfter, MovedIsThere,
              NamesAreTrue, AtRest, Absent, Reading, MoveHolding, Inside, Comparing

\* A change is of a subject.
LEMMA SubjectsChange ==
    ASSUME NEW change \in StoreChanges PROVE change[2] \in Subjects
BY DEF StoreChanges, StatusChanges, Creations, Acks, Subjects

LEMMA AckedSubjects ==
    ASSUME NEW events \in SUBSET StoreEvent PROVE Acked(events) \in SUBSET Subjects
BY SubjectsChange DEF Acked, StoreEvent

LEMMA StatusesStay ==
    ASSUME NEW db, NEW change \in StoreChanges, db.status \in [Subjects -> Statuses]
    PROVE  After(db, change) \in [Subjects -> Statuses]
<1>1. change[2] \in Subjects
  BY SubjectsChange
<1>2. change \in Creations \/ change \in StatusChanges \/ change \in Acks
  BY DEF StoreChanges
<1> QED BY <1>1, <1>2 DEF After, Statuses

LEMMA EventsAreTyped ==
    ASSUME NEW db, NEW change \in StoreChanges, NEW at \in Nat, IsFiniteSet(db.events)
    PROVE  NewEvent(db, change, at) \in StoreEvent /\ NewEvent(db, change, at).id \in Nat
BY FS_CardinalityType DEF NewEvent, StoreEvent

\* A write to the source leaves what was read as it is.
LEMMA DisturbKeeps ==
    ASSUME MigrationTypeOK, Disturb
    PROVE  /\ moving' \in [Migrators -> [at : Stages, copy : Copy \cup {Absent},
                                         keeps : BOOLEAN, quiet : BOOLEAN]]
           /\ \A m \in Migrators :
                 /\ moving'[m].at = moving[m].at /\ moving'[m].copy = moving[m].copy
                 /\ moving[m].at \in Reading => ~moving'[m].quiet
                 /\ moving[m].at \notin Reading => moving'[m].quiet = moving[m].quiet
BY DEF MigrationTypeOK, Disturb, Reading

\* A migration that goes on or fails leaves the others as they are.
LEMMA StandsTyped ==
    ASSUME MigrationTypeOK, NEW m \in Migrators, NEW at \in Stages, Stands(m, at)
    PROVE  /\ moving' \in [Migrators -> [at : Stages, copy : Copy \cup {Absent},
                                         keeps : BOOLEAN, quiet : BOOLEAN]]
           /\ moving'[m].at = at /\ moving'[m].copy = moving[m].copy /\ moving'[m].quiet = moving[m].quiet
           /\ \A n \in Migrators : n # m => moving'[n] = moving[n]
BY DEF MigrationTypeOK, Stands

LEMMA FailsTyped ==
    ASSUME MigrationTypeOK, NEW m \in Migrators, Fails(m)
    PROVE  /\ moving' \in [Migrators -> [at : Stages, copy : Copy \cup {Absent},
                                         keeps : BOOLEAN, quiet : BOOLEAN]]
           /\ moving'[m].at = "failed"
           /\ \A n \in Migrators : n # m => moving'[n] = moving[n]
BY DEF MigrationTypeOK, Fails, AtRest, Stages

\* A step that only lets a migration fail keeps the invariant.
LEMMA FailureIsSafe ==
    ASSUME MigrationInv, NEW m \in Migrators, Fails(m),
           UNCHANGED <<source, target, history, since, second>>, runs' \in Nat
    PROVE  MigrationInv'
<1>1. /\ moving' \in [Migrators -> [at : Stages, copy : Copy \cup {Absent},
                                    keeps : BOOLEAN, quiet : BOOLEAN]]
      /\ moving'[m].at = "failed"
      /\ \A n \in Migrators : n # m => moving'[n] = moving[n]
  BY FailsTyped DEF MigrationInv
<1>2. MigrationTypeOK'
  BY <1>1 DEF MigrationInv, MigrationTypeOK
<1>3. ReadsRight'
  BY <1>1 DEF MigrationInv, ReadsRight, Reading, MoveHolding, Inside, Comparing, NamesIn
<1>4. MovedIsThere' /\ NamesAreTrue'
  BY <1>1 DEF MigrationInv, MovedIsThere, NamesAreTrue
<1> QED BY <1>2, <1>3, <1>4 DEF MigrationInv, SourceHasEvents, SinceIsAfter

\* A change of the source leaves every event where it was and adds the event
\* of its replay.
LEMMA SourceChangeIsSafe ==
    ASSUME MigrationInv, NEW change \in StoreChanges, NEW at \in Nat, ChangeSource(change, at)
    PROVE  MigrationInv'
<1> DEFINE e   == NewEvent(source, change, at)
           row == [change |-> change, at |-> at, of |-> e.id, kept |-> source.keeps]
<1>1. /\ source \in [status : [Subjects -> Statuses], events : SUBSET StoreEvent,
                     replays : SUBSET StoreReplay, keeps : BOOLEAN]
      /\ IsFiniteSet(source.events)
  BY DEF MigrationInv, MigrationTypeOK
<1>2. e \in StoreEvent /\ e.id \in Nat /\ e.change = change /\ e.at = at
  BY <1>1, EventsAreTyped DEF NewEvent
<1>3. After(source, change) \in [Subjects -> Statuses]
  BY <1>1, StatusesStay
<1>4. row \in StoreReplay
  BY <1>1, <1>2 DEF StoreReplay
<1>5. /\ source' = [source EXCEPT !.status = After(source, change),
                                  !.events = @ \cup {e}, !.replays = @ \cup {row}]
      /\ Disturb /\ UNCHANGED <<target, history, since, runs>> /\ second' = at
  BY DEF ChangeSource
<1>6. /\ source'.events = source.events \cup {e} /\ source'.replays = source.replays \cup {row}
      /\ source' \in [status : [Subjects -> Statuses], events : SUBSET StoreEvent,
                      replays : SUBSET StoreReplay, keeps : BOOLEAN]
  BY <1>1, <1>2, <1>3, <1>4, <1>5
<1>7. IsFiniteSet(source'.events)
  BY <1>1, <1>6, FS_AddElement
<1>8. /\ moving' \in [Migrators -> [at : Stages, copy : Copy \cup {Absent},
                                    keeps : BOOLEAN, quiet : BOOLEAN]]
      /\ \A m \in Migrators :
            /\ moving'[m].at = moving[m].at /\ moving'[m].copy = moving[m].copy
            /\ moving[m].at \in Reading => ~moving'[m].quiet
            /\ moving[m].at \notin Reading => moving'[m].quiet = moving[m].quiet
  BY <1>5, DisturbKeeps DEF MigrationInv
<1>9. MigrationTypeOK'
  BY <1>5, <1>6, <1>7, <1>8 DEF MigrationInv, MigrationTypeOK
<1>10. SourceHasEvents'
  BY <1>2, <1>6 DEF MigrationInv, SourceHasEvents
<1>11. ReadsRight'
  BY <1>5, <1>8 DEF MigrationInv, ReadsRight, Reading, MoveHolding, Inside, Comparing
<1>12. MovedIsThere' /\ NamesAreTrue'
  BY <1>5, <1>8 DEF MigrationInv, MovedIsThere, NamesAreTrue, Reading
<1> QED BY <1>5, <1>9, <1>10, <1>11, <1>12 DEF MigrationInv, SinceIsAfter

LEMMA UpgradeIsSafe == ASSUME MigrationInv, UpgradeSource PROVE MigrationInv'
<1>1. /\ source' = [source EXCEPT !.keeps = TRUE]
      /\ Disturb /\ UNCHANGED <<target, history, since, second, runs>>
  BY DEF UpgradeSource
<1>2. /\ source'.events = source.events /\ source'.replays = source.replays
      /\ source' \in [status : [Subjects -> Statuses], events : SUBSET StoreEvent,
                      replays : SUBSET StoreReplay, keeps : BOOLEAN]
  BY <1>1 DEF MigrationInv, MigrationTypeOK
<1>3. /\ moving' \in [Migrators -> [at : Stages, copy : Copy \cup {Absent},
                                    keeps : BOOLEAN, quiet : BOOLEAN]]
      /\ \A m \in Migrators :
            /\ moving'[m].at = moving[m].at /\ moving'[m].copy = moving[m].copy
            /\ moving[m].at \in Reading => ~moving'[m].quiet
            /\ moving[m].at \notin Reading => moving'[m].quiet = moving[m].quiet
  BY <1>1, DisturbKeeps DEF MigrationInv
<1>4. MigrationTypeOK'
  BY <1>1, <1>2, <1>3 DEF MigrationInv, MigrationTypeOK
<1>5. SourceHasEvents'
  BY <1>2 DEF MigrationInv, SourceHasEvents
<1>6. ReadsRight'
  BY <1>1, <1>3 DEF MigrationInv, ReadsRight, Reading, MoveHolding, Inside, Comparing
<1>7. MovedIsThere' /\ NamesAreTrue'
  BY <1>1, <1>3 DEF MigrationInv, MovedIsThere, NamesAreTrue, Reading
<1> QED BY <1>1, <1>4, <1>5, <1>6, <1>7 DEF MigrationInv, SinceIsAfter

\* The new gateway only adds to the schema, and names the event it adds.
LEMMA TargetChangeIsSafe ==
    ASSUME MigrationInv, NEW change \in StoreChanges, ChangeTarget(change)
    PROVE  MigrationInv'
<1> DEFINE e     == NewEvent(target, change, second)
           row   == [change |-> change, at |-> second, of |-> e.id, kept |-> TRUE, operation |-> e.id]
           acked == IF change \in Acks THEN target.acked \cup {change[2]} ELSE target.acked
<1>1. target.exists /\ target \in Copy /\ IsFiniteSet(target.events) /\ second \in Nat
  BY DEF MigrationInv, MigrationTypeOK, ChangeTarget, Absent
<1>2. e \in StoreEvent /\ e.id \in Nat
  BY <1>1, EventsAreTyped
<1>3. After(target, change) \in [Subjects -> Statuses]
  BY <1>1, StatusesStay DEF Copy
<1>4. row \in NamedReplay /\ acked \in SUBSET Subjects
  BY <1>1, <1>2, SubjectsChange DEF NamedReplay, Copy
<1>5. /\ target' = [target EXCEPT !.status = After(target, change), !.events = @ \cup {e},
                                  !.acked = acked, !.replays = @ \cup {row}]
      /\ since' = since \cup {e} /\ UNCHANGED <<source, history, moving, second, runs>>
  BY <1>1 DEF ChangeTarget, Copy
<1>6. /\ target' \in Copy /\ target'.exists
      /\ target'.events = target.events \cup {e} /\ target'.replays = target.replays \cup {row}
  BY <1>1, <1>2, <1>3, <1>4, <1>5 DEF Copy
<1>7. IsFiniteSet(target'.events)
  BY <1>1, <1>6, FS_AddElement
<1>8. MigrationTypeOK'
  BY <1>2, <1>5, <1>6, <1>7 DEF MigrationInv, MigrationTypeOK
<1>9. ReadsRight'
  BY <1>5, <1>6 DEF MigrationInv, ReadsRight, NamesIn
<1>10. MovedIsThere'
  BY <1>1, <1>5, <1>6 DEF MigrationInv, MovedIsThere
<1>11. NamesAreTrue'
  BY <1>1, <1>5, <1>6 DEF MigrationInv, NamesAreTrue
<1> QED BY <1>5, <1>6, <1>8, <1>9, <1>10, <1>11 DEF MigrationInv, SourceHasEvents, SinceIsAfter

-----------------------------------------------------------------------------
(* The steps of a migration.                                               *)

LEMMA ReadStatesIsSafe ==
    ASSUME MigrationInv, NEW m \in Migrators, ReadStates(m) PROVE MigrationInv'
<1> DEFINE copy == [exists |-> TRUE, status |-> source.status, acked |-> Acked(source.events),
                    events |-> {}, replays |-> {}]
<1>1. /\ moving' = [moving EXCEPT ![m] =
             [at |-> "events", keeps |-> source.keeps, quiet |-> TRUE, copy |-> copy]]
      /\ UNCHANGED <<source, target, history, since, second>> /\ runs' = runs + 1
  BY DEF ReadStates
<1>2. Acked(source.events) \in SUBSET Subjects
  BY AckedSubjects DEF MigrationInv, MigrationTypeOK
<1>3. copy \in Copy /\ IsFiniteSet(copy.events) /\ source.keeps \in BOOLEAN
  BY <1>2, FS_EmptySet DEF MigrationInv, MigrationTypeOK, Copy
<1>4. /\ moving' \in [Migrators -> [at : Stages, copy : Copy \cup {Absent},
                                    keeps : BOOLEAN, quiet : BOOLEAN]]
      /\ moving'[m].at = "events" /\ moving'[m].copy = copy
      /\ \A n \in Migrators : n # m => moving'[n] = moving[n]
  <2> HIDE DEF copy
  <2> QED BY <1>1, <1>3 DEF MigrationInv, MigrationTypeOK, Stages
<1> HIDE DEF copy
<1>5. MigrationTypeOK'
  BY <1>1, <1>4 DEF MigrationInv, MigrationTypeOK
<1>6. ReadsRight'
  BY <1>1, <1>3, <1>4 DEF MigrationInv, ReadsRight, Reading, MoveHolding, Inside, Comparing, NamesIn
<1>7. MovedIsThere' /\ NamesAreTrue'
  BY <1>1, <1>4 DEF MigrationInv, MovedIsThere, NamesAreTrue
<1> QED BY <1>1, <1>5, <1>6, <1>7 DEF MigrationInv, SourceHasEvents, SinceIsAfter

LEMMA ReadEventsIsSafe ==
    ASSUME MigrationInv, NEW m \in Migrators, ReadEvents(m) PROVE MigrationInv'
<1> DEFINE copy == [moving[m].copy EXCEPT !.events = source.events]
<1>1. /\ moving[m].at = "events"
      /\ moving' = [moving EXCEPT ![m].copy.events = source.events, ![m].at = "replays"]
      /\ UNCHANGED <<source, target, history, since, second, runs>>
  BY DEF ReadEvents
<1>2. moving[m].copy \in Copy /\ source.events \in SUBSET StoreEvent /\ IsFiniteSet(source.events)
  BY <1>1 DEF MigrationInv, MigrationTypeOK, ReadsRight, Reading
<1>3. copy \in Copy /\ copy.events = source.events
  BY <1>2 DEF Copy
<1>4. moving \in [Migrators -> [at : Stages, copy : Copy \cup {Absent},
                                keeps : BOOLEAN, quiet : BOOLEAN]]
  BY DEF MigrationInv, MigrationTypeOK
<1>5. /\ moving'[m] = [moving[m] EXCEPT !.copy = copy, !.at = "replays"]
      /\ moving' = [moving EXCEPT ![m] = [moving[m] EXCEPT !.copy = copy, !.at = "replays"]]
  BY <1>1, <1>4
<1>6. /\ moving' \in [Migrators -> [at : Stages, copy : Copy \cup {Absent},
                                    keeps : BOOLEAN, quiet : BOOLEAN]]
      /\ moving'[m].at = "replays" /\ moving'[m].copy = copy
      /\ \A n \in Migrators : n # m => moving'[n] = moving[n]
  <2> HIDE DEF copy
  <2> QED BY <1>3, <1>4, <1>5 DEF Stages
<1> HIDE DEF copy
<1>7. MigrationTypeOK'
  BY <1>1, <1>6 DEF MigrationInv, MigrationTypeOK
<1>8. ReadsRight'
  BY <1>1, <1>2, <1>3, <1>6 DEF MigrationInv, ReadsRight, Reading, MoveHolding, Inside, Comparing
<1>9. MovedIsThere' /\ NamesAreTrue'
  BY <1>1, <1>6 DEF MigrationInv, MovedIsThere, NamesAreTrue
<1> QED BY <1>1, <1>7, <1>8, <1>9 DEF MigrationInv, SourceHasEvents, SinceIsAfter

\* What is read of the replays names the right events.
LEMMA SeenNames ==
    ASSUME MigrationInv, NEW m \in Migrators, moving[m].at = "replays",
           NEW s \in source.replays, Infer(Seen(m, s), moving[m].copy.events) # {}
    PROVE  LET r == Seen(m, s)
               i == CHOOSE j \in Infer(r, moving[m].copy.events) : TRUE IN
           r \in StoreReplay /\ i \in Nat /\ (r.kept \/ moving[m].quiet => i = r.of)
<1> DEFINE r      == Seen(m, s)
           events == moving[m].copy.events
           i      == CHOOSE j \in Infer(r, events) : TRUE
<1>1. s \in StoreReplay /\ moving[m].keeps \in BOOLEAN
  BY DEF MigrationInv, MigrationTypeOK
<1>2. r \in StoreReplay /\ r.change = s.change /\ r.at = s.at /\ r.of = s.of
  BY <1>1 DEF Seen, StoreReplay
<1>3. events \in SUBSET StoreEvent /\ IsFiniteSet(events)
  BY DEF MigrationInv, ReadsRight, Reading, Copy
<1>4. i \in Infer(r, events)
  OBVIOUS
<1> HIDE DEF i
<1>5. moving[m].quiet => \E e \in events : e.id = r.of /\ e.change = r.change /\ e.at = r.at
  BY <1>2 DEF MigrationInv, ReadsRight, SourceHasEvents
<1> HIDE DEF r, events
<1>6. i \in Nat /\ (r.kept => i = r.of) /\ (moving[m].quiet => i = r.of)
  BY <1>2, <1>3, <1>4, <1>5, InferredIsRight
<1> QED BY <1>2, <1>6 DEF i, r, events

LEMMA ReadReplaysIsSafe ==
    ASSUME MigrationInv, NEW m \in Migrators, ReadReplays(m) PROVE MigrationInv'
<1> DEFINE events  == moving[m].copy.events
           seen    == {Seen(m, r) : r \in source.replays}
           named   == {[change |-> r.change, at |-> r.at, of |-> r.of, kept |-> r.kept,
                        operation |-> CHOOSE i \in Infer(r, events) : TRUE] : r \in seen}
           copy    == [moving[m].copy EXCEPT !.replays = named]
<1>1. moving[m].at = "replays" /\ UNCHANGED <<source, target, history, since, second, runs>>
  BY DEF ReadReplays
<1>2. CASE Fails(m)
  BY <1>1, <1>2, FailureIsSafe DEF MigrationInv, MigrationTypeOK
<1>3. CASE /\ \A r \in seen : Infer(r, events) # {}
           /\ moving' = [moving EXCEPT ![m].copy.replays = named, ![m].at = "lock"]
  <2>1. moving[m].copy \in Copy /\ IsFiniteSet(moving[m].copy.events)
    BY <1>1 DEF MigrationInv, ReadsRight, Reading
  <2>2. \A x \in named : x \in NamedReplay /\ (x.kept \/ moving[m].quiet => x.operation = x.of)
    <3>1. TAKE x \in named
    <3>2. PICK s \in source.replays :
              x = [change |-> Seen(m, s).change, at |-> Seen(m, s).at, of |-> Seen(m, s).of,
                   kept |-> Seen(m, s).kept,
                   operation |-> CHOOSE i \in Infer(Seen(m, s), events) : TRUE]
      OBVIOUS
    <3> DEFINE r == Seen(m, s)
               i == CHOOSE j \in Infer(r, events) : TRUE
    <3>3. r \in StoreReplay /\ i \in Nat /\ (r.kept \/ moving[m].quiet => i = r.of)
      BY <1>1, <1>3, SeenNames
    <3> HIDE DEF r, i
    <3>4. x = [change |-> r.change, at |-> r.at, of |-> r.of, kept |-> r.kept, operation |-> i]
      BY <3>2 DEF r, i
    <3> QED BY <3>3, <3>4 DEF NamedReplay, StoreReplay
  <2> HIDE DEF named
  <2>3. copy \in Copy /\ copy.events = events /\ copy.replays = named
    BY <2>1, <2>2 DEF Copy
  <2>4. moving \in [Migrators -> [at : Stages, copy : Copy \cup {Absent},
                                  keeps : BOOLEAN, quiet : BOOLEAN]]
    BY DEF MigrationInv, MigrationTypeOK
  <2>5. moving' = [moving EXCEPT ![m] = [moving[m] EXCEPT !.copy = copy, !.at = "lock"]]
    BY <1>3, <2>4
  <2> HIDE DEF copy
  <2>6. /\ moving' \in [Migrators -> [at : Stages, copy : Copy \cup {Absent},
                                      keeps : BOOLEAN, quiet : BOOLEAN]]
        /\ moving'[m].at = "lock" /\ moving'[m].copy = copy /\ moving'[m].quiet = moving[m].quiet
        /\ \A n \in Migrators : n # m => moving'[n] = moving[n]
    BY <2>3, <2>4, <2>5 DEF Stages
  <2>7. MigrationTypeOK'
    BY <1>1, <2>6 DEF MigrationInv, MigrationTypeOK
  <2>8. NamesIn(copy, moving[m].quiet)
    BY <2>2, <2>3 DEF NamesIn
  <2>9. ReadsRight'
    BY <1>1, <2>1, <2>3, <2>6, <2>8 DEF MigrationInv, ReadsRight, Reading, MoveHolding, Inside, Comparing
  <2>10. MovedIsThere' /\ NamesAreTrue'
    BY <1>1, <2>6 DEF MigrationInv, MovedIsThere, NamesAreTrue
  <2> QED BY <1>1, <2>7, <2>9, <2>10 DEF MigrationInv, SourceHasEvents, SinceIsAfter
<1> QED BY <1>2, <1>3 DEF ReadReplays

\* A migration that goes on inside its transaction keeps what it holds.
LEMMA StandsIsSafe ==
    ASSUME MigrationInv, NEW m \in Migrators, moving[m].at \in MoveHolding,
           NEW at \in MoveHolding, Stands(m, at),
           UNCHANGED <<source, target, history, since, second, runs>>,
           at \in Comparing => target.exists,
           at = "done" => /\ target.exists
                          /\ moving[m].copy.events \subseteq target.events
                          /\ moving[m].copy.replays \subseteq target.replays
    PROVE  MigrationInv'
<1>1. /\ moving' \in [Migrators -> [at : Stages, copy : Copy \cup {Absent},
                                    keeps : BOOLEAN, quiet : BOOLEAN]]
      /\ moving'[m].at = at /\ moving'[m].copy = moving[m].copy /\ moving'[m].quiet = moving[m].quiet
      /\ \A n \in Migrators : n # m => moving'[n] = moving[n]
  BY StandsTyped DEF MigrationInv, MoveHolding, Inside, Stages
<1>2. MigrationTypeOK'
  BY <1>1 DEF MigrationInv, MigrationTypeOK
<1>3. at \notin Reading
  BY DEF MoveHolding, Inside, Reading
<1>4. ReadsRight'
  BY <1>1, <1>3 DEF MigrationInv, ReadsRight, Reading
<1>5. MovedIsThere'
  BY <1>1 DEF MigrationInv, MovedIsThere
<1>6. NamesAreTrue'
  BY <1>1, <1>3 DEF MigrationInv, NamesAreTrue, ReadsRight, NamesIn
<1> QED BY <1>2, <1>4, <1>5, <1>6 DEF MigrationInv, SourceHasEvents, SinceIsAfter

\* The schema did not exist, so nobody has reported a move of it and nothing
\* has been written to it.
LEMMA MoveIsSafe ==
    ASSUME MigrationInv, NEW m \in Migrators, Move(m) PROVE MigrationInv'
<1>1. /\ moving[m].at = "look" /\ ~target.exists
      /\ target' = moving[m].copy /\ history' = {moving[m].copy}
      /\ Stands(m, "done") \/ Fails(m)
      /\ UNCHANGED <<source, since, second, runs>>
  BY DEF Move
<1>2. /\ moving[m].copy \in Copy /\ IsFiniteSet(moving[m].copy.events)
      /\ NamesIn(moving[m].copy, moving[m].quiet)
  BY <1>1 DEF MigrationInv, ReadsRight, Reading, MoveHolding, Inside
<1>3. /\ moving' \in [Migrators -> [at : Stages, copy : Copy \cup {Absent},
                                    keeps : BOOLEAN, quiet : BOOLEAN]]
      /\ \/ moving'[m].at = "failed"
         \/ moving'[m].at = "done" /\ moving'[m].copy = moving[m].copy
            /\ moving'[m].quiet = moving[m].quiet
      /\ \A n \in Migrators : n # m => moving'[n] = moving[n]
  BY <1>1, FailsTyped, StandsTyped DEF MigrationInv, Stages
<1>4. target'.exists
  BY <1>1, <1>2 DEF Copy
<1>5. \A n \in Migrators : moving[n].at # "done"
  BY <1>1 DEF MigrationInv, MovedIsThere
<1>6. since = {}
  BY <1>1 DEF MigrationInv, SinceIsAfter
<1>7. MigrationTypeOK'
  BY <1>1, <1>2, <1>3 DEF MigrationInv, MigrationTypeOK
<1>8. ReadsRight'
  BY <1>1, <1>2, <1>3, <1>4 DEF MigrationInv, ReadsRight, Reading, MoveHolding, Inside, Comparing
<1>9. MovedIsThere'
  BY <1>1, <1>3, <1>4, <1>5, <1>6 DEF MovedIsThere
<1>10. NamesAreTrue'
  BY <1>1, <1>2, <1>3, <1>5 DEF NamesAreTrue, NamesIn
<1> QED BY <1>1, <1>4, <1>7, <1>8, <1>9, <1>10 DEF MigrationInv, SourceHasEvents, SinceIsAfter

LEMMA CompareBackIsSafe ==
    ASSUME MigrationInv, NEW m \in Migrators, CompareBack(m) PROVE MigrationInv'
<1>1. moving[m].at \in Comparing /\ UNCHANGED <<source, target, history, since, second, runs>>
  BY DEF CompareBack, Compare, Comparing
<1>2. moving[m].at \in MoveHolding /\ target.exists
  BY <1>1 DEF MigrationInv, ReadsRight, Comparing, MoveHolding, Inside
<1>3. CASE Fails(m)
  BY <1>1, <1>3, FailureIsSafe DEF MigrationInv, MigrationTypeOK
<1>4. CASE Stands(m, "compare replays")
  BY <1>1, <1>2, <1>4, StandsIsSafe DEF Comparing, MoveHolding, Inside
<1>5. CASE Stands(m, "done") /\ target.events = moving[m].copy.events
                            /\ target.replays = moving[m].copy.replays
  BY <1>1, <1>2, <1>5, StandsIsSafe DEF Comparing, MoveHolding
<1> QED BY <1>3, <1>4, <1>5 DEF CompareBack, Compare

LEMMA MigrationNextInv ==
    ASSUME MigrationInv, [MigrationNext]_migrationVars PROVE MigrationInv'
<1>1. ASSUME NEW change \in StoreChanges, NEW at \in 0..LastSecond, ChangeSource(change, at)
      PROVE  MigrationInv'
  <2>1. at \in Nat
    BY MigrationAssumption
  <2> QED BY <1>1, <2>1, SourceChangeIsSafe
<1>2. ASSUME NEW change \in StoreChanges, ChangeTarget(change) PROVE MigrationInv'
  BY <1>2, TargetChangeIsSafe
<1>3. CASE UpgradeSource
  BY <1>3, UpgradeIsSafe
<1>4. ASSUME NEW m \in Migrators,
             ReadStates(m) \/ ReadEvents(m) \/ ReadReplays(m) \/ Move(m) \/ CompareBack(m)
      PROVE  MigrationInv'
  BY <1>4, ReadStatesIsSafe, ReadEventsIsSafe, ReadReplaysIsSafe, MoveIsSafe, CompareBackIsSafe
<1>5. ASSUME NEW m \in Migrators, TakeMigrationLock(m) PROVE MigrationInv'
  BY <1>5, StandsIsSafe DEF TakeMigrationLock, MoveHolding, Inside, Comparing
<1>6. ASSUME NEW m \in Migrators, FindHistory(m) PROVE MigrationInv'
  <2>1. CASE Fails(m)
    BY <1>6, <2>1, FailureIsSafe DEF FindHistory, MigrationInv, MigrationTypeOK
  <2>2. CASE Stands(m, "compare states")
    BY <1>6, <2>2, StandsIsSafe DEF FindHistory, MoveHolding, Inside
  <2> QED BY <1>6, <2>1, <2>2 DEF FindHistory
<1>7. ASSUME NEW m \in Migrators, Abort(m) PROVE MigrationInv'
  BY <1>7, FailureIsSafe DEF Abort, MigrationInv, MigrationTypeOK
<1>8. CASE UNCHANGED migrationVars
  BY <1>8 DEF migrationVars, MigrationInv, MigrationTypeOK, SourceHasEvents, ReadsRight, NamesIn,
              SinceIsAfter, MovedIsThere, NamesAreTrue
<1> QED BY <1>1, <1>2, <1>3, <1>4, <1>5, <1>6, <1>7, <1>8 DEF MigrationNext

\* The state of the stores and of the migrations is well-typed, every stage of
\* a migration holds what it needs, and MovedIsThere and NamesAreTrue, the
\* parts of MigrationKeepsAll about loss and names, hold
\* (readSqliteGatewayMigrationSnapshot, migrateSqliteGatewayToPostgres).
THEOREM MigrationInvariant == MigrationSpec => []MigrationInv
<1>1. MigrationInit => MigrationInv
  BY MigrationInitInv
<1>2. MigrationInv /\ [MigrationNext]_migrationVars => MigrationInv'
  BY MigrationNextInv
<1> QED BY <1>1, <1>2, PTL DEF MigrationSpec

\* No migration and no write of the new gateway loses a row that was reported
\* as moved, and no second migration what was written since.
THEOREM WhatMovedIsThere == MigrationSpec => []MovedIsThere
<1>1. MigrationInv => MovedIsThere
  BY DEF MigrationInv
<1> QED BY <1>1, MigrationInvariant, PTL

\* A replay whose result was kept names the event of its own request, and
\* without a kept result it does if the source was left alone meanwhile.
THEOREM WhatMovedIsNamed == MigrationSpec => []NamesAreTrue
<1>1. MigrationInv => NamesAreTrue
  BY DEF MigrationInv
<1> QED BY <1>1, MigrationInvariant, PTL
-----------------------------------------------------------------------------
(* The states that were moved.                                             *)

MadeIn(s, events)    == {e \in events : e.change \in Creations /\ e.change[2] = s}
ChangedIn(s, events) == {e \in events : e.change \in StatusChanges /\ e.change[2] = s}

\* The states follow from the events.
StatusFollows(status, events) ==
    \A s \in Subjects :
        status[s] = IF s \notin MovedTenants /\ MadeIn(s, events) = {} THEN "absent"
                    ELSE IF Cardinality(ChangedIn(s, events)) % 2 = 0 THEN "active" ELSE "suspended"

Numbered(events) == \A e \in events : e.id <= Cardinality(events)

\* The states of the source follow from its events, and so do those that were
\* read of it as long as nobody has written to it in between.
StatesInv ==
    /\ StatusFollows(source.status, source.events) /\ Numbered(source.events)
    /\ \A m \in Migrators : moving[m].quiet =>
          /\ moving[m].at = "events" =>
                /\ moving[m].copy.status = source.status
                /\ moving[m].copy.acked = Acked(source.events)
          /\ moving[m].at \in {"replays"} \cup MoveHolding => StatesFollow(moving[m].copy)

LEMMA FollowsFollow ==
    ASSUME NEW db
    PROVE  StatesFollow(db) <=> db.acked = Acked(db.events) /\ StatusFollows(db.status, db.events)
BY DEF StatesFollow, StatusFollows, MadeIn, ChangedIn

LEMMA Parity == ASSUME NEW n \in Nat PROVE n % 2 = 0 <=> (n + 1) % 2 # 0
OBVIOUS

\* A change of the source: its event is a new one, and moves the state as it says.
LEMMA ChangeFollows ==
    ASSUME MigrationTypeOK, StatusFollows(source.status, source.events), Numbered(source.events),
           NEW change \in StoreChanges, NEW at \in Nat, MayChange(source, change)
    PROVE  /\ StatusFollows(After(source, change), source.events \cup {NewEvent(source, change, at)})
           /\ Numbered(source.events \cup {NewEvent(source, change, at)})
<1> DEFINE events == source.events
           e      == NewEvent(source, change, at)
           t      == change[2]
<1>1. /\ source.status \in [Subjects -> Statuses] /\ events \in SUBSET StoreEvent
      /\ IsFiniteSet(events) /\ Cardinality(events) \in Nat
  BY FS_CardinalityType DEF MigrationTypeOK
<1>2. t \in Subjects /\ e.change = change /\ e.id = Cardinality(events) + 1 /\ e \notin events
  BY <1>1, SubjectsChange DEF NewEvent, Numbered
<1>3. \A f \in events : f.id \in Nat /\ f.change \in StoreChanges
  BY <1>1 DEF StoreEvent
<1>4. Numbered(events \cup {e})
  <2>1. Cardinality(events \cup {e}) = Cardinality(events) + 1
    BY <1>1, <1>2, FS_AddElement
  <2> HIDE DEF e
  <2> QED BY <1>1, <1>2, <1>3, <2>1 DEF Numbered
<1> HIDE DEF e
<1>5. /\ \A s \in Subjects : s # t => /\ MadeIn(s, events \cup {e}) = MadeIn(s, events)
                                      /\ ChangedIn(s, events \cup {e}) = ChangedIn(s, events)
      /\ change \notin StatusChanges =>
            \A s \in Subjects : ChangedIn(s, events \cup {e}) = ChangedIn(s, events)
      /\ change \notin Creations =>
            \A s \in Subjects : MadeIn(s, events \cup {e}) = MadeIn(s, events)
  BY <1>2 DEF MadeIn, ChangedIn
<1>6. \A s \in Subjects \ MovedTenants : ChangedIn(s, events \cup {e}) = {}
  BY <1>2, <1>3 DEF ChangedIn, StatusChanges
<1>7. ASSUME NEW s \in Subjects
      PROVE  After(source, change)[s] =
                IF s \notin MovedTenants /\ MadeIn(s, events \cup {e}) = {} THEN "absent"
                ELSE IF Cardinality(ChangedIn(s, events \cup {e})) % 2 = 0 THEN "active" ELSE "suspended"
  <2>0. source.status[s] =
           IF s \notin MovedTenants /\ MadeIn(s, events) = {} THEN "absent"
           ELSE IF Cardinality(ChangedIn(s, events)) % 2 = 0 THEN "active" ELSE "suspended"
    BY DEF StatusFollows
  <2>1. CASE change \in Creations
    <3>1. After(source, change) = [source.status EXCEPT ![t] = "active"] /\ source.status[t] = "absent"
      BY <2>1 DEF After, MayChange
    <3>2. CASE s = t
      <4>1. s \notin MovedTenants /\ After(source, change)[s] = "active"
        BY <1>1, <2>0, <3>1, <3>2
      <4>2. e \in MadeIn(s, events \cup {e})
        BY <1>2, <2>1, <3>2 DEF MadeIn
      <4>3. Cardinality(ChangedIn(s, events \cup {e})) = 0
        BY <1>6, <4>1, FS_EmptySet
      <4> QED BY <4>1, <4>2, <4>3
    <3>3. CASE s # t
      <4>1. After(source, change)[s] = source.status[s]
        BY <1>1, <3>1, <3>3
      <4> QED BY <1>5, <2>0, <3>3, <4>1
    <3> QED BY <3>2, <3>3
  <2>2. CASE change \in StatusChanges
    <3>1. t \in MovedTenants /\ change \notin Creations /\ change \notin Acks
      BY <2>2 DEF StatusChanges, Creations, Acks
    <3>2. After(source, change) =
             [source.status EXCEPT ![t] = IF @ = "active" THEN "suspended" ELSE "active"]
      BY <2>2, <3>1 DEF After
    <3>3. CASE s = t
      <4>1. ChangedIn(s, events \cup {e}) = ChangedIn(s, events) \cup {e} /\ e \notin ChangedIn(s, events)
        BY <1>2, <2>2, <3>3 DEF ChangedIn
      <4>2. IsFiniteSet(ChangedIn(s, events))
        BY <1>1, FS_Subset DEF ChangedIn
      <4> DEFINE n == Cardinality(ChangedIn(s, events))
      <4>3. n \in Nat /\ Cardinality(ChangedIn(s, events \cup {e})) = n + 1
        BY <4>1, <4>2, FS_CardinalityType, FS_AddElement
      <4>4. n % 2 = 0 <=> (n + 1) % 2 # 0
        BY <4>3, Parity
      <4>5. source.status[s] = IF n % 2 = 0 THEN "active" ELSE "suspended"
        BY <2>0, <3>1, <3>3
      <4>6. After(source, change)[s] = IF source.status[s] = "active" THEN "suspended" ELSE "active"
        BY <1>1, <3>2, <3>3
      <4> HIDE DEF n
      <4> QED BY <3>1, <3>3, <4>3, <4>4, <4>5, <4>6
    <3>4. CASE s # t
      <4>1. After(source, change)[s] = source.status[s]
        BY <1>1, <3>2, <3>4
      <4> QED BY <1>5, <2>0, <3>4, <4>1
    <3> QED BY <3>3, <3>4
  <2>3. CASE change \in Acks
    <3>1. change \notin Creations /\ change \notin StatusChanges
      BY <2>3 DEF Acks, Creations, StatusChanges
    <3>2. After(source, change) = source.status
      BY <2>3, <3>1 DEF After
    <3> QED BY <1>5, <2>0, <3>1, <3>2
  <2> QED BY <2>1, <2>2, <2>3 DEF StoreChanges
<1> HIDE DEF events
<1>8. StatusFollows(After(source, change), events \cup {e})
  BY <1>7 DEF StatusFollows
<1> QED BY <1>4, <1>8 DEF events, e

\* The source stays, and one migration goes on.
LEMMA MigratorKeeps ==
    ASSUME StatesInv, NEW m \in Migrators, UNCHANGED source,
           \A n \in Migrators : n # m => moving'[n] = moving[n],
           moving'[m].quiet =>
               /\ moving'[m].at = "events" =>
                     /\ moving'[m].copy.status = source.status
                     /\ moving'[m].copy.acked = Acked(source.events)
               /\ moving'[m].at \in {"replays"} \cup MoveHolding => StatesFollow(moving'[m].copy)
    PROVE  StatesInv'
<1>1. \A n \in Migrators : moving'[n].quiet =>
          /\ moving'[n].at = "events" =>
                /\ moving'[n].copy.status = source.status
                /\ moving'[n].copy.acked = Acked(source.events)
          /\ moving'[n].at \in {"replays"} \cup MoveHolding => StatesFollow(moving'[n].copy)
  BY DEF StatesInv
<1>2. StatusFollows(source.status, source.events)' /\ Numbered(source.events)' /\ Acked(source.events)' = Acked(source.events)
  BY DEF StatesInv, StatusFollows, Numbered, MadeIn, ChangedIn, Acked
<1>3. \A n \in Migrators : StatesFollow(moving'[n].copy) <=> StatesFollow(moving[n].copy)'
  BY DEF StatesFollow, Acked
<1> QED BY <1>1, <1>2, <1>3 DEF StatesInv

LEMMA FailKeepsStates ==
    ASSUME MigrationTypeOK, StatesInv, NEW m \in Migrators, UNCHANGED source, Fails(m)
    PROVE  StatesInv'
<1>1. /\ moving'[m].at = "failed"
      /\ \A n \in Migrators : n # m => moving'[n] = moving[n]
  BY FailsTyped
<1> QED BY <1>1, MigratorKeeps DEF MoveHolding, Inside

LEMMA StandKeepsStates ==
    ASSUME MigrationTypeOK, StatesInv, NEW m \in Migrators, UNCHANGED source,
           moving[m].at \in MoveHolding, NEW at \in MoveHolding, Stands(m, at)
    PROVE  StatesInv'
<1>1. /\ moving'[m].at = at /\ moving'[m].copy = moving[m].copy /\ moving'[m].quiet = moving[m].quiet
      /\ \A n \in Migrators : n # m => moving'[n] = moving[n]
  BY StandsTyped DEF MoveHolding, Inside, Stages
<1>2. at # "events"
  BY DEF MoveHolding, Inside
<1>3. moving[m].quiet => StatesFollow(moving[m].copy)
  BY DEF StatesInv
<1> QED BY <1>1, <1>2, <1>3, MigratorKeeps

\* What falls into a read that is under way is known of.
LEMMA SourceKeepsStates ==
    ASSUME MigrationTypeOK, StatesInv, Disturb,
           StatusFollows(source'.status, source'.events), Numbered(source'.events)
    PROVE  StatesInv'
<1>1. \A m \in Migrators :
         /\ moving'[m].at = moving[m].at /\ moving'[m].copy = moving[m].copy
         /\ moving[m].at \in Reading => ~moving'[m].quiet
         /\ moving[m].at \notin Reading => moving'[m].quiet = moving[m].quiet
  BY DisturbKeeps
<1>2. \A m \in Migrators : moving'[m].quiet =>
          moving'[m].at \notin Reading /\ (moving'[m].at \in MoveHolding => StatesFollow(moving'[m].copy))
  BY <1>1 DEF StatesInv
<1>3. \A m \in Migrators : StatesFollow(moving'[m].copy) => StatesFollow(moving[m].copy)'
  BY DEF StatesFollow, Acked
<1>4. StatusFollows(source.status, source.events)' /\ Numbered(source.events)'
  BY DEF StatusFollows, Numbered, MadeIn, ChangedIn
<1> QED BY <1>2, <1>3, <1>4 DEF StatesInv, Reading

LEMMA StatesStep ==
    ASSUME MigrationInv, StatesInv, [MigrationNext]_migrationVars PROVE StatesInv'
<1>0. MigrationTypeOK
  BY DEF MigrationInv
<1>1. ASSUME NEW change \in StoreChanges, NEW at \in 0..LastSecond, ChangeSource(change, at) PROVE StatesInv'
  <2>1. at \in Nat /\ MayChange(source, change) /\ Disturb
    BY <1>1, MigrationAssumption DEF ChangeSource
  <2>2. source \in [status : [Subjects -> Statuses], events : SUBSET StoreEvent,
                    replays : SUBSET StoreReplay, keeps : BOOLEAN]
    BY <1>0 DEF MigrationTypeOK
  <2>3. /\ source'.status = After(source, change)
        /\ source'.events = source.events \cup {NewEvent(source, change, at)}
    BY <1>1, <2>2 DEF ChangeSource
  <2>4. StatusFollows(source'.status, source'.events) /\ Numbered(source'.events)
    BY <1>0, <2>1, <2>3, ChangeFollows DEF StatesInv
  <2> QED BY <1>0, <2>1, <2>4, SourceKeepsStates
<1>2. ASSUME NEW change \in StoreChanges, ChangeTarget(change) PROVE StatesInv'
  BY <1>2 DEF ChangeTarget, StatesInv, StatusFollows, Numbered, MadeIn, ChangedIn, StatesFollow, Acked
<1>3. CASE UpgradeSource
  <2>1. source'.status = source.status /\ source'.events = source.events /\ Disturb
    BY <1>0, <1>3 DEF UpgradeSource, MigrationTypeOK
  <2> QED BY <1>0, <2>1, SourceKeepsStates DEF StatesInv
<1>4. ASSUME NEW m \in Migrators, ReadStates(m) PROVE StatesInv'
  <2>1. /\ UNCHANGED source /\ moving'[m].at = "events" /\ moving'[m].copy.status = source.status
        /\ moving'[m].copy.acked = Acked(source.events)
        /\ \A n \in Migrators : n # m => moving'[n] = moving[n]
    BY <1>0, <1>4 DEF ReadStates, MigrationTypeOK
  <2> QED BY <2>1, MigratorKeeps DEF MoveHolding, Inside
<1>5. ASSUME NEW m \in Migrators, ReadEvents(m) PROVE StatesInv'
  <2> DEFINE copy == [moving[m].copy EXCEPT !.events = source.events]
  <2>1. /\ moving[m].at = "events" /\ UNCHANGED source /\ moving[m].copy \in Copy
        /\ moving' = [moving EXCEPT ![m].copy.events = source.events, ![m].at = "replays"]
        /\ moving \in [Migrators -> [at : Stages, copy : Copy \cup {Absent}, keeps : BOOLEAN, quiet : BOOLEAN]]
    BY <1>5 DEF ReadEvents, MigrationInv, MigrationTypeOK, ReadsRight, Reading
  <2>2. moving'[m] = [moving[m] EXCEPT !.copy = copy, !.at = "replays"]
        /\ \A n \in Migrators : n # m => moving'[n] = moving[n]
    BY <2>1
  <2>3. /\ copy.events = source.events /\ copy.status = moving[m].copy.status
        /\ copy.acked = moving[m].copy.acked
    BY <2>1 DEF Copy
  <2> HIDE DEF copy
  <2>4. moving'[m].copy = copy /\ moving'[m].at = "replays" /\ moving'[m].quiet = moving[m].quiet
    BY <2>1, <2>2
  <2>5. moving[m].quiet => StatesFollow(copy)
    BY <2>1, <2>3, FollowsFollow DEF StatesInv
  <2> QED BY <2>1, <2>2, <2>4, <2>5, MigratorKeeps DEF MoveHolding, Inside
<1>6. ASSUME NEW m \in Migrators, ReadReplays(m) PROVE StatesInv'
  <2>1. moving[m].at = "replays" /\ UNCHANGED source /\ moving[m].copy \in Copy
    BY <1>6 DEF ReadReplays, MigrationInv, ReadsRight, Reading
  <2>2. CASE Fails(m)
    BY <1>0, <2>1, <2>2, FailKeepsStates
  <2>3. ASSUME NEW named, moving' = [moving EXCEPT ![m].copy.replays = named, ![m].at = "lock"]
        PROVE  StatesInv'
    <3> DEFINE copy == [moving[m].copy EXCEPT !.replays = named]
    <3>1. moving \in [Migrators -> [at : Stages, copy : Copy \cup {Absent}, keeps : BOOLEAN, quiet : BOOLEAN]]
      BY <1>0 DEF MigrationTypeOK
    <3>2. moving'[m] = [moving[m] EXCEPT !.copy = copy, !.at = "lock"]
          /\ \A n \in Migrators : n # m => moving'[n] = moving[n]
      BY <2>3, <3>1
    <3>3. /\ copy.events = moving[m].copy.events /\ copy.status = moving[m].copy.status
          /\ copy.acked = moving[m].copy.acked
      BY <2>1 DEF Copy
    <3> HIDE DEF copy
    <3>4. moving'[m].copy = copy /\ moving'[m].at = "lock" /\ moving'[m].quiet = moving[m].quiet
      BY <3>1, <3>2
    <3>5. moving[m].quiet => StatesFollow(copy)
      BY <2>1, <3>3, FollowsFollow DEF StatesInv
    <3> QED BY <2>1, <3>2, <3>4, <3>5, MigratorKeeps
  <2> QED BY <1>6, <2>2, <2>3 DEF ReadReplays
<1>7. ASSUME NEW m \in Migrators, TakeMigrationLock(m) \/ Move(m) \/ FindHistory(m) \/ CompareBack(m)
      PROVE  StatesInv'
  <2>1. /\ UNCHANGED source /\ moving[m].at \in MoveHolding
        /\ Fails(m) \/ \E at \in MoveHolding : Stands(m, at)
    BY <1>7 DEF TakeMigrationLock, Move, FindHistory, CompareBack, Compare, MoveHolding, Inside
  <2> QED BY <1>0, <2>1, FailKeepsStates, StandKeepsStates
<1>8. ASSUME NEW m \in Migrators, Abort(m) PROVE StatesInv'
  BY <1>0, <1>8, FailKeepsStates DEF Abort
<1>9. CASE UNCHANGED migrationVars
  BY <1>9 DEF migrationVars, StatesInv, StatusFollows, Numbered, MadeIn, ChangedIn, StatesFollow, Acked
<1> QED BY <1>1, <1>2, <1>3, <1>4, <1>5, <1>6, <1>7, <1>8, <1>9 DEF MigrationNext

LEMMA StatesInitially == MigrationInit => StatesInv
<1> SUFFICES ASSUME MigrationInit PROVE StatesInv
  OBVIOUS
<1>1. \A s \in Subjects : MadeIn(s, {}) = {} /\ ChangedIn(s, {}) = {}
  BY DEF MadeIn, ChangedIn
<1>2. Cardinality({}) = 0
  BY FS_EmptySet
<1>3. StatusFollows(source.status, source.events) /\ Numbered(source.events)
  BY <1>1, <1>2 DEF MigrationInit, StatusFollows, Numbered
<1> QED BY <1>3 DEF MigrationInit, StatesInv, AtRest, MoveHolding, Inside

\* A move that is reported as done loses nothing, names what the replays belong
\* to, and if the source was left alone it is of a state the source was in.
THEOREM MoveKeepsAll == MigrationSpec => []MigrationKeepsAll
<1>1. MigrationInv /\ StatesInv => MigrationKeepsAll
  BY DEF MigrationInv, StatesInv, MigrationKeepsAll, MoveHolding
<1>2. MigrationInv /\ StatesInv /\ [MigrationNext]_migrationVars => StatesInv'
  BY StatesStep
<1> QED BY <1>1, <1>2, StatesInitially, MigrationInvariant, PTL DEF MigrationSpec

-----------------------------------------------------------------------------
(***************************************************************************)
(* That the portal's shared state (SharedStore) holds every change once.   *)
(*                                                                         *)
(* The inductive invariant says who has the row and what it knows: at most *)
(* one transaction is open, what it read is the newest document, and a     *)
(* replica that has not given up stands where its worker stands.           *)
(***************************************************************************)

\* SELECT ... FOR UPDATE lets one transaction have the row.
OneHasTheRow == \A v, w \in StoreWorkers : storeWorkers[v].open /\ storeWorkers[w].open => v = w

\* Whoever has it holds the newest document, or that and the change of its key.
HoldersAreCurrent ==
    \A w \in StoreWorkers :
        /\ storeWorkers[w].command \in {"read", "commit"} => storeWorkers[w].open
        /\ storeWorkers[w].open =>
              /\ storeWorkers[w].key \notin sharedKeys
              /\ storeWorkers[w].doc = IF storeWorkers[w].command = "commit"
                                       THEN [sharedDoc EXCEPT ![storeWorkers[w].key] = @ + 1]
                                       ELSE sharedDoc

\* A replica that has not given up has a worker that lives and stands where the
\* replica takes it to stand.
ReplicasKnow ==
    \A r \in Replicas :
        /\ replicas[r].failed => replicas[r].at = "idle"
        /\ ~replicas[r].failed => Worker(r).life = "up"
        /\ replicas[r].at = "changing" => Worker(r).open /\ Worker(r).command = "none"
        /\ replicas[r].at \in {"idle", "undoing"} /\ ~replicas[r].failed =>
              ~Worker(r).open /\ Worker(r).command = "none"

SharedInv == SharedTypeOK /\ OneHasTheRow /\ HoldersAreCurrent /\ ReplicasKnow /\ EachChangeOnce

-----------------------------------------------------------------------------
Lives    == {"none", "up", "ending", "gone"}
Commands == {"none", "begin", "read", "commit", "rollback"}
WorkerState  == [life : Lives, command : Commands, key : ChangeKeys, doc : [ChangeKeys -> Nat],
                 open : BOOLEAN]
ReplicaState == [at : {"idle", "waiting", "changing", "undoing"}, worker : 1..MaxWorkers,
                 failed : BOOLEAN]
Resting(l)   == [IdleWorker EXCEPT !.life = l]

LEMMA SharedStatesTyped ==
    ASSUME SharedInv
    PROVE  /\ storeWorkers \in [StoreWorkers -> WorkerState]
           /\ replicas \in [Replicas -> ReplicaState]
           /\ sharedDoc \in [ChangeKeys -> Nat] /\ sharedKeys \subseteq ChangeKeys
           /\ promised \subseteq ChangeKeys
           /\ \A r \in Replicas : <<r, replicas[r].worker>> \in StoreWorkers
           /\ \A w \in StoreWorkers : w = <<w[1], w[2]>> /\ w[1] \in Replicas /\ w[2] \in 1..MaxWorkers
BY DEF SharedInv, SharedTypeOK, WorkerState, ReplicaState, StoreWorkers, Lives, Commands

LEMMA IdleTyped ==
    ASSUME NEW l \in Lives
    PROVE  /\ IdleWorker \in WorkerState
           /\ IdleWorker.life = "up" /\ IdleWorker.command = "none" /\ ~IdleWorker.open
           /\ Resting(l) \in WorkerState
           /\ Resting(l).life = l /\ Resting(l).command = "none" /\ ~Resting(l).open
<1>1. AnyKey \in ChangeKeys
  BY SharedAssumption DEF AnyKey
<1>2. NoDoc \in [ChangeKeys -> Nat]
  BY DEF NoDoc
<1>3. /\ IdleWorker \in WorkerState
      /\ IdleWorker.life = "up" /\ IdleWorker.command = "none" /\ ~IdleWorker.open
  BY <1>1, <1>2 DEF IdleWorker, WorkerState, Lives, Commands
<1> QED BY <1>3 DEF Resting, WorkerState

\* The replica of a worker hears of it, or nobody does.
LEMMA WakesTyped ==
    ASSUME SharedInv, NEW w \in StoreWorkers,
           NEW at \in {"idle", "waiting", "changing", "undoing"}, Wakes(w, at)
    PROVE  /\ replicas' \in [Replicas -> ReplicaState]
           /\ \A r \in Replicas :
                 /\ replicas'[r].worker = replicas[r].worker /\ replicas'[r].failed = replicas[r].failed
                 /\ IF w = <<r, replicas[r].worker>> /\ replicas[r].at = "waiting"
                    THEN replicas'[r].at = at ELSE replicas'[r].at = replicas[r].at
<1>1. w = <<w[1], w[2]>> /\ w[1] \in Replicas /\ replicas \in [Replicas -> ReplicaState]
  BY SharedStatesTyped
<1>2. replicas' = [replicas EXCEPT ![w[1]].at = IF Listens(w) THEN at ELSE @]
  BY DEF Wakes
<1>3. replicas' \in [Replicas -> ReplicaState]
  BY <1>1, <1>2 DEF ReplicaState
<1>4. ASSUME NEW r \in Replicas
      PROVE  /\ replicas'[r].worker = replicas[r].worker /\ replicas'[r].failed = replicas[r].failed
             /\ IF w = <<r, replicas[r].worker>> /\ replicas[r].at = "waiting"
                THEN replicas'[r].at = at ELSE replicas'[r].at = replicas[r].at
  <2>1. CASE r = w[1]
    BY <1>1, <1>2, <2>1 DEF ReplicaState, Listens
  <2>2. CASE r # w[1]
    BY <1>1, <1>2, <2>2 DEF ReplicaState
  <2> QED BY <2>1, <2>2
<1> QED BY <1>3, <1>4

\* Who listens to a worker that runs a command, or that is to end, is not in
\* the middle of a change.
LEMMA BusyIsAwaited ==
    ASSUME SharedInv, NEW w \in StoreWorkers, NEW r \in Replicas, w = <<r, replicas[r].worker>>,
           storeWorkers[w].command # "none" \/ storeWorkers[w].life # "up"
    PROVE  /\ replicas[r].at # "changing"
           /\ replicas[r].at = "idle" => replicas[r].failed
           /\ storeWorkers[w].life # "up" => replicas[r].failed
BY DEF SharedInv, ReplicasKnow, Worker

\* What a replica that has not given up knows of its worker.
Knows(at, failed, worker) ==
    /\ failed => at = "idle"
    /\ ~failed => worker.life = "up"
    /\ at = "changing" => worker.open /\ worker.command = "none"
    /\ at \in {"idle", "undoing"} /\ ~failed => ~worker.open /\ worker.command = "none"

\* A step moves one worker: only its replica has to look.
LEMMA OneWorkerMoves ==
    ASSUME SharedInv, NEW w \in StoreWorkers,
           replicas' \in [Replicas -> ReplicaState],
           \A v \in StoreWorkers : v # w => storeWorkers'[v] = storeWorkers[v],
           \A r \in Replicas :
              IF w = <<r, replicas'[r].worker>>
              THEN Knows(replicas'[r].at, replicas'[r].failed, storeWorkers'[w])
              ELSE /\ replicas'[r].worker = replicas[r].worker
                   /\ replicas'[r].failed = replicas[r].failed /\ replicas'[r].at = replicas[r].at
    PROVE  ReplicasKnow'
<1> SUFFICES ASSUME NEW r \in Replicas
             PROVE  Knows(replicas'[r].at, replicas'[r].failed, storeWorkers'[<<r, replicas'[r].worker>>])
  BY DEF ReplicasKnow, Knows, Worker
<1>1. CASE w = <<r, replicas'[r].worker>>
  BY <1>1
<1>2. CASE w # <<r, replicas'[r].worker>>
  <2>1. <<r, replicas'[r].worker>> \in StoreWorkers
    BY DEF ReplicaState, StoreWorkers
  <2> QED BY <1>2, <2>1 DEF SharedInv, ReplicasKnow, Knows, Worker
<1> QED BY <1>1, <1>2

\* A worker that comes to rest, whatever it was doing: it keeps nothing.
LEMMA RestKeeps ==
    ASSUME SharedInv, NEW w \in StoreWorkers, NEW l \in Lives, Becomes(w, Resting(l)), KeepStored,
           storeWorkers[w].command # "none" \/ storeWorkers[w].life # "up",
           storeWorkers[w].life = "up" => l = "up",
           \/ UNCHANGED replicas
           \/ \E at \in {"idle", "undoing"} : Wakes(w, at),
           promised' \subseteq sharedKeys
    PROVE  SharedInv'
<1>1. /\ storeWorkers' \in [StoreWorkers -> WorkerState] /\ storeWorkers'[w] = Resting(l)
      /\ \A v \in StoreWorkers : v # w => storeWorkers'[v] = storeWorkers[v]
  BY SharedStatesTyped, IdleTyped DEF Becomes
<1>2. ~storeWorkers'[w].open /\ storeWorkers'[w].command = "none" /\ storeWorkers'[w].life = l
  BY <1>1, IdleTyped
<1>3. /\ replicas' \in [Replicas -> ReplicaState]
      /\ \A r \in Replicas :
            /\ replicas'[r].worker = replicas[r].worker /\ replicas'[r].failed = replicas[r].failed
            /\ replicas'[r].at = replicas[r].at \/
                  (w = <<r, replicas[r].worker>> /\ replicas[r].at = "waiting"
                      /\ replicas'[r].at \in {"idle", "undoing"})
  BY SharedStatesTyped, WakesTyped
<1>4. SharedTypeOK'
  BY <1>1, <1>3, SharedStatesTyped DEF SharedTypeOK, WorkerState, ReplicaState, KeepStored, Lives, Commands
<1>5. OneHasTheRow'
  BY <1>1, <1>2 DEF SharedInv, OneHasTheRow
<1>6. HoldersAreCurrent'
  BY <1>1, <1>2 DEF SharedInv, HoldersAreCurrent, KeepStored
<1>7. ReplicasKnow'
  <2>1. \A r \in Replicas : w = <<r, replicas[r].worker>> =>
           Knows(replicas'[r].at, replicas'[r].failed, storeWorkers'[w])
    BY <1>2, <1>3, BusyIsAwaited DEF SharedInv, ReplicasKnow, Worker, Knows
  <2> QED BY <1>1, <1>3, <2>1, OneWorkerMoves
<1>8. EachChangeOnce'
  BY DEF SharedInv, EachChangeOnce, KeepStored
<1> QED BY <1>4, <1>5, <1>6, <1>7, <1>8 DEF SharedInv

LEMMA BeginsKeeps == ASSUME SharedInv, NEW w \in StoreWorkers, WorkerBegins(w) PROVE SharedInv'
<1>1. storeWorkers[w].command = "begin" /\ RowIsFree /\ KeepStored /\ storeWorkers[w] \in WorkerState
  BY SharedStatesTyped DEF WorkerBegins, Runs
<1>2. CASE /\ storeWorkers[w].key \in sharedKeys /\ Becomes(w, Resting(storeWorkers[w].life))
           /\ Wakes(w, "idle") /\ Promises(w)
  <2>1. promised' \subseteq sharedKeys
    BY <1>2 DEF Promises, SharedInv, EachChangeOnce
  <2> QED BY <1>1, <1>2, <2>1, RestKeeps DEF WorkerState
<1>3. CASE /\ storeWorkers[w].key \notin sharedKeys
           /\ Becomes(w, [storeWorkers[w] EXCEPT !.command = "none", !.open = TRUE, !.doc = sharedDoc])
           /\ Wakes(w, "changing") /\ UNCHANGED promised
  <2> DEFINE to == [storeWorkers[w] EXCEPT !.command = "none", !.open = TRUE, !.doc = sharedDoc]
  <2>1. /\ to \in WorkerState /\ to.command = "none" /\ to.open /\ to.doc = sharedDoc
        /\ to.key = storeWorkers[w].key /\ to.life = storeWorkers[w].life
    BY <1>1, SharedStatesTyped DEF WorkerState, Commands
  <2>2. /\ storeWorkers' \in [StoreWorkers -> WorkerState] /\ storeWorkers'[w] = to
        /\ \A v \in StoreWorkers : v # w => storeWorkers'[v] = storeWorkers[v]
    BY <1>3, <2>1, SharedStatesTyped DEF Becomes
  <2> HIDE DEF to
  <2>3. /\ replicas' \in [Replicas -> ReplicaState]
        /\ \A r \in Replicas :
              /\ replicas'[r].worker = replicas[r].worker /\ replicas'[r].failed = replicas[r].failed
              /\ IF w = <<r, replicas[r].worker>> /\ replicas[r].at = "waiting"
                 THEN replicas'[r].at = "changing" ELSE replicas'[r].at = replicas[r].at
    BY <1>3, WakesTyped
  <2>4. SharedTypeOK'
    BY <1>1, <1>3, <2>2, <2>3, SharedStatesTyped
    DEF SharedTypeOK, WorkerState, ReplicaState, KeepStored, Lives, Commands
  <2>5. OneHasTheRow'
    BY <1>1, <2>2 DEF OneHasTheRow, RowIsFree
  <2>6. HoldersAreCurrent'
    BY <1>1, <1>3, <2>1, <2>2 DEF SharedInv, HoldersAreCurrent, KeepStored
  <2>7. ReplicasKnow'
    <3>1. \A r \in Replicas : w = <<r, replicas[r].worker>> =>
             Knows(replicas'[r].at, replicas'[r].failed, storeWorkers'[w])
      BY <1>1, <2>1, <2>2, <2>3, BusyIsAwaited DEF SharedInv, ReplicasKnow, Worker, Knows
    <3> QED BY <2>2, <2>3, <3>1, OneWorkerMoves
  <2>8. EachChangeOnce'
    BY <1>1, <1>3 DEF SharedInv, EachChangeOnce, KeepStored
  <2> QED BY <2>4, <2>5, <2>6, <2>7, <2>8 DEF SharedInv
<1> QED BY <1>2, <1>3 DEF WorkerBegins, Resting

LEMMA ReadsKeeps == ASSUME SharedInv, NEW w \in StoreWorkers, WorkerReads(w) PROVE SharedInv'
<1> DEFINE to == [storeWorkers[w] EXCEPT !.command = "none"]
<1>1. /\ storeWorkers[w].command = "read" /\ Becomes(w, to) /\ Wakes(w, "changing") /\ KeepStored
      /\ UNCHANGED promised /\ storeWorkers[w] \in WorkerState
  BY SharedStatesTyped DEF WorkerReads, Runs
<1>2. storeWorkers[w].open
  BY <1>1 DEF SharedInv, HoldersAreCurrent
<1>3. /\ to \in WorkerState /\ to.command = "none" /\ to.open /\ to.doc = storeWorkers[w].doc
      /\ to.key = storeWorkers[w].key /\ to.life = storeWorkers[w].life
  BY <1>1, <1>2 DEF WorkerState, Commands
<1>4. /\ storeWorkers' \in [StoreWorkers -> WorkerState] /\ storeWorkers'[w] = to
      /\ \A v \in StoreWorkers : v # w => storeWorkers'[v] = storeWorkers[v]
  BY <1>1, <1>3, SharedStatesTyped DEF Becomes
<1> HIDE DEF to
<1>5. /\ replicas' \in [Replicas -> ReplicaState]
      /\ \A r \in Replicas :
            /\ replicas'[r].worker = replicas[r].worker /\ replicas'[r].failed = replicas[r].failed
            /\ IF w = <<r, replicas[r].worker>> /\ replicas[r].at = "waiting"
               THEN replicas'[r].at = "changing" ELSE replicas'[r].at = replicas[r].at
  BY <1>1, WakesTyped
<1>6. SharedTypeOK'
  BY <1>1, <1>4, <1>5, SharedStatesTyped
  DEF SharedTypeOK, WorkerState, ReplicaState, KeepStored, Lives, Commands
<1>7. OneHasTheRow'
  BY <1>2, <1>4 DEF SharedInv, OneHasTheRow
<1>8. HoldersAreCurrent'
  BY <1>1, <1>2, <1>3, <1>4 DEF SharedInv, HoldersAreCurrent, KeepStored
<1>9. \A r \in Replicas : w = <<r, replicas[r].worker>> =>
         Knows(replicas'[r].at, replicas'[r].failed, storeWorkers'[w])
  BY <1>1, <1>3, <1>4, <1>5, BusyIsAwaited DEF SharedInv, ReplicasKnow, Worker, Knows
<1>10. ReplicasKnow'
  BY <1>4, <1>5, <1>9, OneWorkerMoves
<1>11. EachChangeOnce'
  BY <1>1 DEF SharedInv, EachChangeOnce, KeepStored
<1> QED BY <1>6, <1>7, <1>8, <1>10, <1>11 DEF SharedInv

\* The only transaction writes the newest document with one change more, the
\* one of its key.
LEMMA CommitsKeeps == ASSUME SharedInv, NEW w \in StoreWorkers, WorkerCommits(w) PROVE SharedInv'
<1> DEFINE k  == storeWorkers[w].key
           to == Resting(storeWorkers[w].life)
<1>1. /\ storeWorkers[w].command = "commit" /\ storeWorkers[w] \in WorkerState /\ k \in ChangeKeys
      /\ sharedDoc' = storeWorkers[w].doc /\ sharedKeys' = sharedKeys \cup {k} /\ Becomes(w, to)
      /\ \E at \in {"idle", "undoing"} : Wakes(w, at)
      /\ promised' = promised \/ Promises(w)
  BY SharedStatesTyped DEF WorkerCommits, Runs, Resting, WorkerState
<1>2. /\ storeWorkers[w].open /\ k \notin sharedKeys
      /\ sharedDoc' = [sharedDoc EXCEPT ![k] = @ + 1]
  BY <1>1 DEF SharedInv, HoldersAreCurrent
<1>3. \A v \in StoreWorkers : v # w => ~storeWorkers[v].open
  BY <1>2 DEF SharedInv, OneHasTheRow
<1>4. to \in WorkerState /\ to.command = "none" /\ ~to.open /\ to.life = storeWorkers[w].life
  BY <1>1, IdleTyped DEF WorkerState
<1> HIDE DEF to
<1>5. /\ storeWorkers' \in [StoreWorkers -> WorkerState] /\ storeWorkers'[w] = to
      /\ \A v \in StoreWorkers : v # w => storeWorkers'[v] = storeWorkers[v]
  BY <1>1, <1>4, SharedStatesTyped DEF Becomes
<1>6. /\ replicas' \in [Replicas -> ReplicaState]
      /\ \A r \in Replicas :
            /\ replicas'[r].worker = replicas[r].worker /\ replicas'[r].failed = replicas[r].failed
            /\ replicas'[r].at = replicas[r].at \/
                  (w = <<r, replicas[r].worker>> /\ replicas[r].at = "waiting"
                      /\ replicas'[r].at \in {"idle", "undoing"})
  BY <1>1, WakesTyped
<1>7. sharedDoc' \in [ChangeKeys -> Nat] /\ sharedKeys' \subseteq ChangeKeys /\ promised' \subseteq sharedKeys'
  BY <1>1, <1>2, SharedStatesTyped DEF Promises, SharedInv, EachChangeOnce
<1>8. SharedTypeOK'
  BY <1>5, <1>6, <1>7 DEF SharedTypeOK, WorkerState, ReplicaState, Lives, Commands
<1>9. OneHasTheRow' /\ HoldersAreCurrent'
  BY <1>3, <1>4, <1>5 DEF SharedInv, OneHasTheRow, HoldersAreCurrent
<1>10. \A r \in Replicas : w = <<r, replicas[r].worker>> =>
          Knows(replicas'[r].at, replicas'[r].failed, storeWorkers'[w])
  BY <1>1, <1>4, <1>5, <1>6, BusyIsAwaited DEF SharedInv, ReplicasKnow, Worker, Knows
<1>11. ReplicasKnow'
  BY <1>5, <1>6, <1>10, OneWorkerMoves
<1>12. EachChangeOnce'
  BY <1>1, <1>2, <1>7, SharedStatesTyped DEF SharedInv, EachChangeOnce
<1> QED BY <1>8, <1>9, <1>11, <1>12 DEF SharedInv

LEMMA RollsBackKeeps == ASSUME SharedInv, NEW w \in StoreWorkers, WorkerRollsBack(w) PROVE SharedInv'
<1>1. /\ storeWorkers[w].command # "none" /\ storeWorkers[w].life \in Lives
      /\ Becomes(w, Resting(storeWorkers[w].life)) /\ KeepStored
      /\ \E at \in {"idle", "undoing"} : Wakes(w, at)
      /\ promised' \subseteq sharedKeys
  BY SharedStatesTyped DEF WorkerRollsBack, Runs, Resting, WorkerState, SharedInv, EachChangeOnce
<1> QED BY <1>1, RestKeeps

LEMMA EndsKeeps == ASSUME SharedInv, NEW w \in StoreWorkers, WorkerEnds(w) PROVE SharedInv'
<1>1. /\ storeWorkers[w].life = "ending" /\ Becomes(w, Resting("gone")) /\ KeepStored
      /\ UNCHANGED replicas /\ promised' \subseteq sharedKeys
  BY DEF WorkerEnds, Resting, SharedInv, EachChangeOnce
<1> QED BY <1>1, RestKeeps DEF Lives

-----------------------------------------------------------------------------
\* A replica that sends its worker a command: with "read" and "commit" the
\* worker has the row, and what it holds is the newest document or that and its
\* change.
LEMMA SendKeeps ==
    ASSUME SharedInv, NEW r \in Replicas, ~replicas[r].failed, NEW to \in WorkerState,
           NEW w \in StoreWorkers, w = <<r, replicas[r].worker>>,
           replicas' = [replicas EXCEPT ![r].at = "waiting"],
           Becomes(w, to), KeepStored, UNCHANGED promised,
           to.life = storeWorkers[w].life, to.open = storeWorkers[w].open,
           to.command \in {"read", "commit"} => to.open,
           to.open => /\ to.key \notin sharedKeys
                      /\ to.doc = IF to.command = "commit" THEN [sharedDoc EXCEPT ![to.key] = @ + 1]
                                  ELSE sharedDoc
    PROVE  SharedInv'
<1>1. /\ storeWorkers' \in [StoreWorkers -> WorkerState] /\ storeWorkers'[w] = to
      /\ \A v \in StoreWorkers : v # w => storeWorkers'[v] = storeWorkers[v]
  BY SharedStatesTyped DEF Becomes
<1>2. /\ replicas' \in [Replicas -> ReplicaState] /\ replicas'[r].at = "waiting"
      /\ replicas'[r].worker = replicas[r].worker /\ replicas'[r].failed = replicas[r].failed
      /\ \A q \in Replicas : q # r => replicas'[q] = replicas[q]
  BY SharedStatesTyped DEF ReplicaState
<1>3. SharedTypeOK'
  BY <1>1, <1>2, SharedStatesTyped DEF SharedTypeOK, WorkerState, ReplicaState, KeepStored, Lives, Commands
<1>4. OneHasTheRow'
  BY <1>1 DEF SharedInv, OneHasTheRow
<1>5. HoldersAreCurrent'
  <2>1. ASSUME NEW v \in StoreWorkers
        PROVE  /\ storeWorkers'[v].command \in {"read", "commit"} => storeWorkers'[v].open
               /\ storeWorkers'[v].open =>
                     /\ storeWorkers'[v].key \notin sharedKeys
                     /\ storeWorkers'[v].doc = IF storeWorkers'[v].command = "commit"
                                              THEN [sharedDoc EXCEPT ![storeWorkers'[v].key] = @ + 1]
                                              ELSE sharedDoc
    <3>1. CASE v = w
      BY <1>1, <3>1
    <3>2. CASE v # w
      BY <1>1, <3>2 DEF SharedInv, HoldersAreCurrent
    <3> QED BY <3>1, <3>2
  <2> QED BY <2>1 DEF HoldersAreCurrent, KeepStored
<1>6. storeWorkers[w].life = "up"
  BY DEF SharedInv, ReplicasKnow, Worker
<1>7. ReplicasKnow'
  BY <1>1, <1>2, <1>6, OneWorkerMoves DEF Knows
<1> QED BY <1>3, <1>4, <1>5, <1>7 DEF SharedInv, EachChangeOnce, KeepStored

LEMMA ReplicaKeeps ==
    ASSUME SharedInv, NEW r \in Replicas, \/ \E k \in ChangeKeys : BeginChange(r, k)
                                          \/ ReadWithin(r) \/ CommitChange(r) \/ UndoChange(r)
    PROVE  SharedInv'
<1> DEFINE w == <<r, replicas[r].worker>>
<1>1. w \in StoreWorkers /\ storeWorkers[w] \in WorkerState /\ Worker(r) = storeWorkers[w]
  BY SharedStatesTyped DEF Worker
<1>2. /\ storeWorkers[w].open =>
            /\ storeWorkers[w].key \notin sharedKeys
            /\ storeWorkers[w].command # "commit" => storeWorkers[w].doc = sharedDoc
  BY <1>1 DEF SharedInv, HoldersAreCurrent
<1>3. replicas[r].at # "idle" => ~replicas[r].failed
  BY DEF SharedInv, ReplicasKnow
<1>4. replicas[r].at = "changing" => storeWorkers[w].open /\ storeWorkers[w].command = "none"
  BY <1>1 DEF SharedInv, ReplicasKnow
<1>5. ASSUME NEW k \in ChangeKeys, BeginChange(r, k) PROVE SharedInv'
  <2> DEFINE to == [[Worker(r) EXCEPT !.key = k] EXCEPT !.command = "begin"]
  <2>1. ~storeWorkers[w].open
    BY <1>1, <1>5 DEF SharedInv, ReplicasKnow, BeginChange
  <2>2. /\ to \in WorkerState /\ ~to.open /\ to.open = storeWorkers[w].open
        /\ to.life = storeWorkers[w].life /\ to.command = "begin"
    BY <1>1, <2>1 DEF WorkerState, Commands
  <2>3. /\ ~replicas[r].failed /\ replicas' = [replicas EXCEPT ![r].at = "waiting"]
        /\ Becomes(w, to) /\ KeepStored /\ UNCHANGED promised
    BY <1>5 DEF BeginChange, Sends
  <2> HIDE DEF to, w
  <2> QED BY <1>1, <2>1, <2>2, <2>3, SendKeeps DEF w
<1>6. CASE ReadWithin(r)
  <2> DEFINE to == [Worker(r) EXCEPT !.command = "read"]
  <2>1. /\ to \in WorkerState /\ to.open /\ to.life = storeWorkers[w].life /\ to.command = "read"
        /\ to.key = storeWorkers[w].key /\ to.doc = storeWorkers[w].doc
    BY <1>1, <1>4, <1>6 DEF WorkerState, Commands, ReadWithin
  <2> QED BY <1>1, <1>2, <1>3, <1>4, <1>6, <2>1, SendKeeps DEF ReadWithin, Sends
<1>7. CASE CommitChange(r)
  <2> DEFINE k    == storeWorkers[w].key
             made == [Worker(r) EXCEPT !.doc[Worker(r).key] = @ + 1]
             to   == [made EXCEPT !.command = "commit"]
  <2>1. k \in ChangeKeys /\ storeWorkers[w].doc = sharedDoc /\ storeWorkers[w].open
        /\ sharedDoc \in [ChangeKeys -> Nat]
    BY <1>1, <1>2, <1>4, <1>7, SharedStatesTyped DEF WorkerState, CommitChange
  <2>2. /\ made \in WorkerState /\ made.open /\ made.life = storeWorkers[w].life
        /\ made.key = k /\ made.doc = [sharedDoc EXCEPT ![k] = @ + 1]
    BY <1>1, <2>1 DEF WorkerState
  <2> HIDE DEF made
  <2>3. /\ to \in WorkerState /\ to.open /\ to.life = storeWorkers[w].life /\ to.command = "commit"
        /\ to.key = k /\ to.doc = [sharedDoc EXCEPT ![k] = @ + 1]
    BY <2>2 DEF WorkerState, Commands
  <2>4. Sends(r, "commit", made) /\ replicas[r].at = "changing"
    BY <1>7 DEF CommitChange, made
  <2>5. /\ ~replicas[r].failed /\ replicas' = [replicas EXCEPT ![r].at = "waiting"]
        /\ Becomes(w, to) /\ KeepStored /\ UNCHANGED promised
    BY <1>3, <2>4 DEF Sends
  <2> HIDE DEF to, w
  <2> QED BY <1>1, <1>2, <2>1, <2>3, <2>5, SendKeeps DEF w
<1>8. CASE UndoChange(r)
  <2> DEFINE to == [Worker(r) EXCEPT !.command = "rollback"]
  <2>1. /\ to \in WorkerState /\ to.open = storeWorkers[w].open /\ to.life = storeWorkers[w].life
        /\ to.command = "rollback" /\ to.key = storeWorkers[w].key /\ to.doc = storeWorkers[w].doc
    BY <1>1 DEF WorkerState, Commands
  <2>2. storeWorkers[w].open => storeWorkers[w].command # "commit"
    BY <1>1, <1>3, <1>4, <1>8 DEF UndoChange, SharedInv, ReplicasKnow
  <2>3. /\ ~replicas[r].failed /\ replicas' = [replicas EXCEPT ![r].at = "waiting"]
        /\ Becomes(w, to) /\ KeepStored /\ UNCHANGED promised
    BY <1>3, <1>8 DEF UndoChange, Sends
  <2> HIDE DEF to, w
  <2> QED BY <1>1, <1>2, <2>1, <2>2, <2>3, SendKeeps DEF w
<1> QED BY <1>5, <1>6, <1>7, <1>8

LEMMA GivesUpKeeps == ASSUME SharedInv, NEW r \in Replicas, GivesUp(r) PROVE SharedInv'
<1> DEFINE w  == <<r, replicas[r].worker>>
           to == [storeWorkers[w] EXCEPT !.life = "ending"]
<1>1. /\ w \in StoreWorkers /\ storeWorkers[w] \in WorkerState
      /\ Becomes(w, to) /\ KeepStored /\ UNCHANGED promised
      /\ replicas' = [replicas EXCEPT ![r].at = "idle", ![r].failed = TRUE]
  BY SharedStatesTyped DEF GivesUp, Worker
<1>2. /\ to \in WorkerState /\ to.command = storeWorkers[w].command /\ to.open = storeWorkers[w].open
      /\ to.key = storeWorkers[w].key /\ to.doc = storeWorkers[w].doc
  BY <1>1 DEF WorkerState, Lives
<1> HIDE DEF to
<1>3. /\ storeWorkers' \in [StoreWorkers -> WorkerState] /\ storeWorkers'[w] = to
      /\ \A v \in StoreWorkers : v # w => storeWorkers'[v] = storeWorkers[v]
  BY <1>1, <1>2, SharedStatesTyped DEF Becomes
<1>4. /\ replicas' \in [Replicas -> ReplicaState]
      /\ replicas'[r].at = "idle" /\ replicas'[r].failed /\ replicas'[r].worker = replicas[r].worker
      /\ \A q \in Replicas : q # r => replicas'[q] = replicas[q]
  BY <1>1, SharedStatesTyped DEF ReplicaState
<1>5. SharedTypeOK'
  BY <1>1, <1>3, <1>4, SharedStatesTyped
  DEF SharedTypeOK, WorkerState, ReplicaState, KeepStored, Lives, Commands
<1>6. \A v \in StoreWorkers :
         /\ storeWorkers'[v].command = storeWorkers[v].command /\ storeWorkers'[v].open = storeWorkers[v].open
         /\ storeWorkers'[v].key = storeWorkers[v].key /\ storeWorkers'[v].doc = storeWorkers[v].doc
  BY <1>2, <1>3
<1>7. OneHasTheRow' /\ HoldersAreCurrent'
  BY <1>1, <1>6 DEF SharedInv, OneHasTheRow, HoldersAreCurrent, KeepStored
<1> HIDE DEF w
<1>8. ReplicasKnow'
  BY <1>1, <1>3, <1>4, OneWorkerMoves DEF Knows, w
<1> QED BY <1>1, <1>5, <1>7, <1>8 DEF SharedInv, EachChangeOnce, KeepStored

\* The new worker has nothing; the old one is nobody's any more.
LEMMA StartsKeeps == ASSUME SharedInv, NEW r \in Replicas, StartsWorker(r) PROVE SharedInv'
<1> DEFINE w == <<r, replicas[r].worker + 1>>
<1>1. /\ replicas[r] \in ReplicaState /\ replicas[r].failed /\ replicas[r].worker < MaxWorkers
      /\ replicas' = [replicas EXCEPT ![r].failed = FALSE, ![r].worker = @ + 1]
      /\ Becomes(w, IdleWorker) /\ KeepStored /\ UNCHANGED promised
  BY SharedStatesTyped DEF StartsWorker
<1>2. w \in StoreWorkers /\ replicas[r].worker + 1 \in 1..MaxWorkers
  BY <1>1, SharedAssumption DEF StoreWorkers, ReplicaState
<1>3. IdleWorker \in WorkerState /\ IdleWorker.command = "none" /\ ~IdleWorker.open /\ IdleWorker.life = "up"
  BY IdleTyped DEF Lives
<1>4. /\ storeWorkers' \in [StoreWorkers -> WorkerState] /\ storeWorkers'[w] = IdleWorker
      /\ \A v \in StoreWorkers : v # w => storeWorkers'[v] = storeWorkers[v]
  BY <1>1, <1>2, <1>3, SharedStatesTyped DEF Becomes
<1>5. /\ replicas' \in [Replicas -> ReplicaState]
      /\ replicas'[r].at = "idle" /\ ~replicas'[r].failed /\ replicas'[r].worker = replicas[r].worker + 1
      /\ \A q \in Replicas : q # r => replicas'[q] = replicas[q]
  BY <1>1, <1>2, SharedStatesTyped DEF ReplicaState, SharedInv, ReplicasKnow
<1>6. SharedTypeOK'
  BY <1>1, <1>4, <1>5, SharedStatesTyped
  DEF SharedTypeOK, WorkerState, ReplicaState, KeepStored, Lives, Commands
<1>7. OneHasTheRow'
  BY <1>3, <1>4 DEF SharedInv, OneHasTheRow
<1>8. HoldersAreCurrent'
  BY <1>1, <1>3, <1>4 DEF SharedInv, HoldersAreCurrent, KeepStored
<1>9. ReplicasKnow'
  <2>1. ASSUME NEW q \in Replicas
        PROVE Knows(replicas'[q].at, replicas'[q].failed, storeWorkers'[<<q, replicas'[q].worker>>])
    <3>1. CASE q = r
      BY <1>3, <1>4, <1>5, <3>1 DEF Knows
    <3>2. CASE q # r
      <4>1. <<q, replicas[q].worker>> \in StoreWorkers /\ <<q, replicas[q].worker>> # w
        BY <3>2, SharedStatesTyped
      <4> QED BY <1>4, <1>5, <3>2, <4>1 DEF Knows, SharedInv, ReplicasKnow, Worker
    <3> QED BY <3>1, <3>2
  <2> QED BY <2>1 DEF ReplicasKnow, Knows, Worker
<1> QED BY <1>1, <1>6, <1>7, <1>8, <1>9 DEF SharedInv, EachChangeOnce, KeepStored

-----------------------------------------------------------------------------
LEMMA SharedInitInv == SharedInit => SharedInv
<1> SUFFICES ASSUME SharedInit PROVE SharedInv
  OBVIOUS
<1>1. /\ IdleWorker \in WorkerState /\ IdleWorker.command = "none" /\ ~IdleWorker.open
      /\ IdleWorker.life = "up"
  BY IdleTyped DEF Lives
<1>2. /\ Resting("none") \in WorkerState /\ Resting("none").command = "none" /\ ~Resting("none").open
  BY IdleTyped DEF Lives
<1>3. /\ storeWorkers \in [StoreWorkers -> WorkerState]
      /\ \A w \in StoreWorkers : storeWorkers[w].command = "none" /\ ~storeWorkers[w].open
      /\ \A w \in StoreWorkers : w[2] = 1 => storeWorkers[w] = IdleWorker
  BY <1>1, <1>2 DEF SharedInit, Resting
<1>4. /\ replicas \in [Replicas -> ReplicaState]
      /\ \A r \in Replicas : replicas[r].at = "idle" /\ replicas[r].worker = 1 /\ ~replicas[r].failed
  BY SharedAssumption DEF SharedInit, IdleReplica, ReplicaState
<1>5. \A r \in Replicas : <<r, 1>> \in StoreWorkers
  BY SharedAssumption DEF StoreWorkers
<1>6. SharedTypeOK
  BY <1>3, <1>4 DEF SharedInit, SharedTypeOK, WorkerState, ReplicaState, Lives, Commands, NoDoc
<1>7. OneHasTheRow /\ HoldersAreCurrent
  BY <1>3 DEF OneHasTheRow, HoldersAreCurrent
<1>8. ReplicasKnow
  BY <1>1, <1>3, <1>4, <1>5 DEF ReplicasKnow, Worker
<1>9. EachChangeOnce
  BY DEF SharedInit, EachChangeOnce, NoDoc
<1> QED BY <1>6, <1>7, <1>8, <1>9 DEF SharedInv

LEMMA SharedNextInv == SharedInv /\ [SharedNext]_sharedVars => SharedInv'
<1> SUFFICES ASSUME SharedInv, [SharedNext]_sharedVars PROVE SharedInv'
  OBVIOUS
<1>1. CASE UNCHANGED sharedVars
  BY <1>1 DEF sharedVars, SharedInv, SharedTypeOK, OneHasTheRow, HoldersAreCurrent, ReplicasKnow,
     EachChangeOnce, Worker
<1>2. ASSUME NEW w \in StoreWorkers, WorkerBegins(w) \/ WorkerReads(w) \/ WorkerCommits(w)
                                       \/ WorkerRollsBack(w) \/ WorkerEnds(w)
      PROVE  SharedInv'
  BY <1>2, BeginsKeeps, ReadsKeeps, CommitsKeeps, RollsBackKeeps, EndsKeeps
<1>3. ASSUME NEW r \in Replicas,
             \/ \E k \in ChangeKeys : BeginChange(r, k)
             \/ ReadWithin(r) \/ CommitChange(r) \/ UndoChange(r) \/ GivesUp(r) \/ StartsWorker(r)
      PROVE  SharedInv'
  BY <1>3, ReplicaKeeps, GivesUpKeeps, StartsKeeps
<1> QED BY <1>1, <1>2, <1>3 DEF SharedNext

\* Whatever the replicas give up and their workers end late, one transaction has
\* the portal's row, and a replica that has not given up knows where its worker
\* stands (PostgresSyncBridge.call and the worker's handlers).
THEOREM SharedInvariant == SharedSpec => []SharedInv
BY SharedInitInv, SharedNextInv, PTL DEF SharedSpec

\* A change of the portal's state is in it once if its key is known and not at
\* all otherwise, and what was answered as made is in it, however often a replica
\* gave up, another repeated the change, or a worker ended what nobody awaited
\* (mutate of postgres-stores.ts, begin and commit of postgres-worker.ts).
THEOREM ChangesAreMadeOnce == SharedSpec => []EachChangeOnce
BY SharedInvariant, PTL DEF SharedInv

-----------------------------------------------------------------------------
(***************************************************************************)
(* That the making of the state settles (StateInitializer).                *)
(*                                                                         *)
(* The inductive invariant says which files a process has at each of its   *)
(* steps, and what one that works alone has found out about the files the  *)
(* dead have left: it never meets a name it has not dealt with.            *)
(***************************************************************************)

Trying  == {"idle", "temps", "create", "write", "link", "stale", "unlink stale"}
RootHolding == {"hold", "check", "fill", "recheck", "rename", "release", "unlink lock"}
Told    == {"release", "unlink lock", "ended"}

\* The files of a process, the state if it has made it, and what it is told.
ProcessStands(p) ==
    LET at      == initializing[p].at
        outcome == initializing[p].outcome
    IN  /\ at \in (Trying \cup RootHolding) \ {"write", "link", "hold"} => temps[p] = "none"
        /\ at = "write" => temps[p] = "empty"
        /\ at \in {"link", "hold"} => temps[p] = "written"
        /\ lockFile = p => at \notin Trying /\ temps[p] # "empty"
        /\ at \notin {"fill", "recheck", "rename", "dead"} => stagings[p] = "none"
        /\ stateDir = p => at \in Told \cup {"dead"} /\ outcome \notin {"lock_conflict", "state_exists"}
        /\ at \in Told /\ outcome = "success" => stateDir = p
        /\ at \in Told /\ outcome = "state_exists" => stateDir \notin {p, NoFile}
        /\ at # "ended" => outcome \notin {"lock_conflict", "cleanup_failed"}
        /\ at = "idle" => ~initializing[p].alone

\* A process that is alone: the others are dead, done or not begun, the files
\* they have written are removed before its own is, and the lock is gone after
\* one attempt at the most.
AloneStands(p) ==
    LET at == initializing[p].at
    IN  /\ \A q \in Initializers \ {p} : ~Living(q)
        /\ at = "temps" =>
              /\ p \notin initializing[p].unseen /\ \A q \in initializing[p].unseen : temps[q] # "none"
              /\ \A q \in Initializers \ {p} : temps[q] = "written" => q \in initializing[p].unseen
        /\ at \in {"create", "write", "link", "stale", "unlink stale"} =>
              \A q \in Initializers \ {p} : temps[q] # "written"
        /\ at \in {"temps", "create", "write", "link"} =>
              initializing[p].attempt = 1 \/ lockFile = NoFile
        /\ at \in {"stale", "unlink stale"} => lockFile # NoFile /\ initializing[p].attempt = 1
        /\ at \in RootHolding => lockFile = p
        /\ at = "ended" => /\ initializing[p].outcome \notin {"lock_conflict", "cleanup_failed"}
                           /\ lockFile = NoFile /\ temps[p] = "none"

InitializerInv ==
    /\ InitializerTypeOK
    /\ \A p \in Initializers : ProcessStands(p)
    /\ \A p \in Initializers : initializing[p].alone => AloneStands(p)

-----------------------------------------------------------------------------
Begun == [at : Stage, attempt : 1..MaxAttempts, unseen : SUBSET Initializers, outcome : Outcome,
          alone : BOOLEAN]

LEMMA RootStatesTyped ==
    ASSUME InitializerInv
    PROVE  /\ lockFile \in Initializers \cup {NoFile} /\ stateDir \in Initializers \cup {NoFile}
           /\ temps \in [Initializers -> {"none", "empty", "written"}]
           /\ stagings \in [Initializers -> {"none", "partial", "whole"}]
           /\ initializing \in [Initializers -> Begun]
           /\ NoFile \notin Initializers
BY InitializerAssumption DEF InitializerInv, InitializerTypeOK, Begun

FilesTyped ==
    /\ lockFile \in Initializers \cup {NoFile} /\ stateDir \in Initializers \cup {NoFile}
    /\ temps \in [Initializers -> {"none", "empty", "written"}]
    /\ stagings \in [Initializers -> {"none", "partial", "whole"}]

\* One process takes a step: of the others' files it removes at most those of
\* the dead, and it names none after them.
LEMMA StepKeeps ==
    ASSUME InitializerInv, NEW p \in Initializers, FilesTyped',
           initializing' \in [Initializers -> Begun],
           \A q \in Initializers \ {p} :
              /\ initializing'[q].at = initializing[q].at
              /\ initializing'[q].outcome = initializing[q].outcome
              /\ ~initializing'[q].alone
              /\ stagings'[q] = stagings[q]
              /\ temps'[q] = temps[q] \/ (temps'[q] = "none" /\ ~Living(q))
              /\ lockFile' = q => lockFile = q,
           stateDir' = stateDir \/ (stateDir = NoFile /\ stateDir' = p),
           ProcessStands(p)', initializing'[p].alone => AloneStands(p)'
    PROVE  InitializerInv'
<1>1. InitializerTypeOK'
  BY DEF InitializerTypeOK, FilesTyped, Begun
<1>2. ASSUME NEW q \in Initializers PROVE ProcessStands(q)'
  <2>1. CASE q = p
    BY <2>1
  <2>2. CASE q # p
    <3>1. ProcessStands(q) /\ NoFile \notin Initializers
      BY RootStatesTyped DEF InitializerInv
    <3>2. ~Living(q) => initializing[q].at \in {"idle", "ended", "dead"}
      BY DEF Living
    <3>3. /\ initializing'[q].at = initializing[q].at /\ initializing'[q].outcome = initializing[q].outcome
          /\ ~initializing'[q].alone /\ stagings'[q] = stagings[q]
          /\ temps'[q] = temps[q] \/ (temps'[q] = "none" /\ ~Living(q))
          /\ lockFile' = q => lockFile = q
      BY <2>2
    <3>4. /\ stateDir' = q => stateDir = q
          /\ stateDir = q => stateDir' = q
          /\ stateDir \notin {q, NoFile} => stateDir' \notin {q, NoFile}
      BY <2>2, <3>1
    <3> QED BY <3>1, <3>2, <3>3, <3>4 DEF ProcessStands, Trying, RootHolding, Told
  <2> QED BY <2>1, <2>2
<1> QED BY <1>1, <1>2 DEF InitializerInv

\* As long as a process works, no other one is alone.
LEMMA OthersAreNotAlone ==
    ASSUME InitializerInv, NEW p \in Initializers, Living(p)
    PROVE  \A q \in Initializers \ {p} : ~initializing[q].alone
BY DEF InitializerInv, AloneStands

\* What a step that moves one process does to the others.
LEMMA OneMoves ==
    ASSUME InitializerInv, NEW p \in Initializers, Living(p), NEW to \in Begun,
           initializing' = [initializing EXCEPT ![p] = to]
    PROVE  /\ initializing' \in [Initializers -> Begun] /\ initializing'[p] = to
           /\ \A q \in Initializers \ {p} :
                 /\ initializing'[q].at = initializing[q].at
                 /\ initializing'[q].outcome = initializing[q].outcome
                 /\ ~initializing'[q].alone
           /\ \A q \in Initializers \ {p} : ~Living(q) => ~Living(q)'
BY RootStatesTyped, OthersAreNotAlone DEF Living

LEMMA MovesMoves ==
    ASSUME InitializerInv, NEW p \in Initializers, Living(p), NEW stage \in Stage, Moves(p, stage)
    PROVE  /\ initializing' \in [Initializers -> Begun]
           /\ initializing'[p].at = stage /\ initializing'[p].outcome = initializing[p].outcome
           /\ initializing'[p].attempt = initializing[p].attempt
           /\ initializing'[p].unseen = initializing[p].unseen
           /\ initializing'[p].alone = initializing[p].alone
           /\ \A q \in Initializers \ {p} :
                 /\ initializing'[q].at = initializing[q].at
                 /\ initializing'[q].outcome = initializing[q].outcome
                 /\ ~initializing'[q].alone
           /\ \A q \in Initializers \ {p} : ~Living(q) => ~Living(q)'
<1> DEFINE to == [initializing[p] EXCEPT !.at = stage]
<1>1. /\ to \in Begun /\ to.at = stage /\ to.outcome = initializing[p].outcome
      /\ to.attempt = initializing[p].attempt /\ to.unseen = initializing[p].unseen
      /\ to.alone = initializing[p].alone
  BY RootStatesTyped DEF Begun
<1>2. initializing' = [initializing EXCEPT ![p] = to]
  BY DEF Moves
<1> HIDE DEF to
<1> QED BY <1>1, <1>2, OneMoves

\* A process that is told of its end, or that it has to release the lock first.
LEMMA TellMoves ==
    ASSUME InitializerInv, NEW p \in Initializers, Living(p), NEW stage \in Stage, NEW outcome \in Outcome,
           initializing' = [initializing EXCEPT ![p] = [@ EXCEPT !.at = stage, !.outcome = outcome]]
    PROVE  /\ initializing' \in [Initializers -> Begun]
           /\ initializing'[p].at = stage /\ initializing'[p].outcome = outcome
           /\ initializing'[p].alone = initializing[p].alone
           /\ \A q \in Initializers \ {p} :
                 /\ initializing'[q].at = initializing[q].at
                 /\ initializing'[q].outcome = initializing[q].outcome
                 /\ ~initializing'[q].alone
           /\ \A q \in Initializers \ {p} : ~Living(q) => ~Living(q)'
<1> DEFINE to == [initializing[p] EXCEPT !.at = stage, !.outcome = outcome]
<1>1. to \in Begun /\ to.at = stage /\ to.outcome = outcome /\ to.alone = initializing[p].alone
  <2>1. initializing[p] \in Begun
    BY RootStatesTyped
  <2>2. \A one \in Begun : /\ [one EXCEPT !.at = stage] \in Begun
                           /\ [one EXCEPT !.at = stage].at = stage
                           /\ [one EXCEPT !.at = stage].alone = one.alone
    BY DEF Begun
  <2>3. \A one \in Begun : /\ [one EXCEPT !.outcome = outcome] \in Begun
                           /\ [one EXCEPT !.outcome = outcome].outcome = outcome
                           /\ [one EXCEPT !.outcome = outcome].at = one.at
                           /\ [one EXCEPT !.outcome = outcome].alone = one.alone
    BY DEF Begun
  <2> QED BY <2>1, <2>2, <2>3
<1>2. initializing' = [initializing EXCEPT ![p] = to]
  BY RootStatesTyped
<1> HIDE DEF to
<1> QED BY <1>1, <1>2, OneMoves

\* What is known of a process that is at a step.
LEMMA RootStands ==
    ASSUME InitializerInv, NEW p \in Initializers
    PROVE  ProcessStands(p) /\ (initializing[p].alone => AloneStands(p))
BY DEF InitializerInv

-----------------------------------------------------------------------------
(* Taking the lock.                                                        *)

LEMMA BeginKeeps == ASSUME InitializerInv, NEW p \in Initializers, Begin(p) PROVE InitializerInv'
<1> DEFINE byItself == \A r \in Initializers : ~Living(r)
           own == [NotBegun EXCEPT !.at = "temps", !.unseen = Named, !.alone = byItself]
<1>0. NotBegun \in Begun /\ byItself \in BOOLEAN /\ Named \in SUBSET Initializers /\ "temps" \in Stage
  BY InitializerAssumption DEF NotBegun, Begun, Stage, Outcome, Named
<1> HIDE DEF byItself
<1>1. /\ own \in Begun /\ own.at = "temps" /\ own.unseen = Named /\ own.attempt = 1
      /\ own.alone = byItself /\ own.outcome = "success"
  BY <1>0 DEF NotBegun, Begun
<1>2. /\ initializing' = [q \in Initializers |->
             IF q = p THEN own ELSE [initializing[q] EXCEPT !.alone = FALSE]]
      /\ UNCHANGED <<lockFile, temps, stagings, stateDir>> /\ initializing[p].at = "idle"
  BY DEF Begin, At, byItself
<1> HIDE DEF own
<1>3. \A q \in Initializers : /\ [initializing[q] EXCEPT !.alone = FALSE] \in Begun
                              /\ [initializing[q] EXCEPT !.alone = FALSE].at = initializing[q].at
                              /\ [initializing[q] EXCEPT !.alone = FALSE].outcome = initializing[q].outcome
                              /\ [initializing[q] EXCEPT !.alone = FALSE].alone = FALSE
  <2>1. ASSUME NEW q \in Initializers PROVE initializing[q] \in Begun
    BY RootStatesTyped
  <2>2. \A one \in Begun : /\ [one EXCEPT !.alone = FALSE] \in Begun
                           /\ [one EXCEPT !.alone = FALSE].at = one.at
                           /\ [one EXCEPT !.alone = FALSE].outcome = one.outcome
                           /\ [one EXCEPT !.alone = FALSE].alone = FALSE
    BY DEF Begun
  <2> QED BY <2>1, <2>2
<1>4. /\ initializing' \in [Initializers -> Begun] /\ initializing'[p] = own
      /\ \A q \in Initializers \ {p} :
            /\ initializing'[q].at = initializing[q].at
            /\ initializing'[q].outcome = initializing[q].outcome
            /\ ~initializing'[q].alone
  BY <1>1, <1>2, <1>3
<1>5. ProcessStands(p)'
  BY <1>1, <1>2, <1>4, RootStands DEF ProcessStands, Trying, RootHolding, Told
<1>6. own.alone => AloneStands(p)'
  <2>1. p \notin Named
    BY <1>2, RootStands DEF Named, ProcessStands, Trying
  <2>2. own.alone => \A q \in Initializers \ {p} : ~Living(q)'
    BY <1>1, <1>4 DEF Living, byItself
  <2> QED BY <1>1, <1>2, <1>4, <2>1, <2>2, RootStatesTyped DEF AloneStands, Named, RootHolding
<1>7. FilesTyped'
  BY <1>2, RootStatesTyped DEF FilesTyped
<1> QED BY <1>2, <1>4, <1>5, <1>6, <1>7, StepKeeps

LEMMA CleanKeeps == ASSUME InitializerInv, NEW p \in Initializers, CleanTemps(p) PROVE InitializerInv'
<1>1. /\ initializing[p].at = "temps" /\ Living(p) /\ UNCHANGED <<lockFile, stagings, stateDir>>
      /\ initializing[p] \in Begun
  BY RootStatesTyped DEF CleanTemps, At, Living
<1>2. CASE initializing[p].unseen = {} /\ Moves(p, "create") /\ UNCHANGED temps
  <2>1. /\ initializing' \in [Initializers -> Begun] /\ initializing'[p].at = "create"
        /\ initializing'[p].attempt = initializing[p].attempt
        /\ initializing'[p].alone = initializing[p].alone
        /\ initializing'[p].outcome = initializing[p].outcome
        /\ \A q \in Initializers \ {p} :
              /\ initializing'[q].at = initializing[q].at
              /\ initializing'[q].outcome = initializing[q].outcome
              /\ ~initializing'[q].alone
        /\ \A q \in Initializers \ {p} : ~Living(q) => ~Living(q)'
    BY <1>1, <1>2, MovesMoves DEF Stage
  <2>2. ProcessStands(p)'
    BY <1>1, <1>2, <2>1, RootStands DEF ProcessStands, Trying, RootHolding, Told
  <2>3. initializing'[p].alone => AloneStands(p)'
    BY <1>1, <1>2, <2>1, RootStands DEF AloneStands, RootHolding
  <2> QED BY <1>1, <1>2, <2>1, <2>2, <2>3, RootStatesTyped, StepKeeps DEF FilesTyped
<1>3. ASSUME NEW q \in initializing[p].unseen, temps[q] = "none", Ends(p, "lock_conflict"), UNCHANGED temps
      PROVE  InitializerInv'
  <2>1. /\ initializing' \in [Initializers -> Begun] /\ initializing'[p].at = "ended"
        /\ initializing'[p].outcome = "lock_conflict" /\ initializing'[p].alone = initializing[p].alone
        /\ \A r \in Initializers \ {p} :
              /\ initializing'[r].at = initializing[r].at
              /\ initializing'[r].outcome = initializing[r].outcome
              /\ ~initializing'[r].alone
    BY <1>1, <1>3, TellMoves DEF Stage, Outcome, Ends
  <2>2. ~initializing[p].alone
    BY <1>1, <1>3, RootStands DEF AloneStands
  <2>3. ProcessStands(p)'
    BY <1>1, <1>3, <2>1, RootStands DEF ProcessStands, Trying, RootHolding, Told
  <2> QED BY <1>1, <1>3, <2>1, <2>2, <2>3, RootStatesTyped, StepKeeps DEF FilesTyped
<1>4. ASSUME NEW q \in initializing[p].unseen, temps[q] # "none",
             initializing' = [initializing EXCEPT ![p].unseen = @ \ {q}],
             temps' = IF Abandoned(q) THEN [temps EXCEPT ![q] = "none"] ELSE temps
      PROVE  InitializerInv'
  <2> DEFINE to == [initializing[p] EXCEPT !.unseen = @ \ {q}]
  <2>1. /\ to \in Begun /\ to.at = "temps" /\ to.unseen = initializing[p].unseen \ {q}
        /\ to.attempt = initializing[p].attempt /\ to.alone = initializing[p].alone
        /\ to.outcome = initializing[p].outcome
    BY <1>1 DEF Begun
  <2>2. initializing' = [initializing EXCEPT ![p] = to]
    BY <1>4
  <2> HIDE DEF to
  <2>3. /\ initializing' \in [Initializers -> Begun] /\ initializing'[p] = to
        /\ \A r \in Initializers \ {p} :
              /\ initializing'[r].at = initializing[r].at
              /\ initializing'[r].outcome = initializing[r].outcome
              /\ ~initializing'[r].alone
        /\ \A r \in Initializers \ {p} : ~Living(r) => ~Living(r)'
    BY <1>1, <2>1, <2>2, OneMoves
  <2>4. q \in Initializers
    BY <1>1 DEF Begun
  <2>5. /\ temps' \in [Initializers -> {"none", "empty", "written"}]
        /\ \A r \in Initializers : r # q => temps'[r] = temps[r]
        /\ Abandoned(q) => temps'[q] = "none"
        /\ ~Abandoned(q) => temps'[q] = temps[q]
    BY <1>4, <2>4, RootStatesTyped
  <2>6. Abandoned(q) => q # p /\ ~Living(q) /\ temps[q] = "written"
    BY <1>1 DEF Abandoned
  <2>7. temps'[p] = temps[p]
    BY <2>5, <2>6
  <2>8. ProcessStands(p)'
    BY <1>1, <2>1, <2>3, <2>7, RootStands DEF ProcessStands, Trying, RootHolding, Told
  <2>9. ASSUME initializing'[p].alone PROVE AloneStands(p)'
    <3>1. AloneStands(p) /\ to.alone
      BY <2>1, <2>3, <2>9, RootStands
    <3>2. q # p /\ \A r \in Initializers \ {p} : ~Living(r)
      BY <1>1, <3>1 DEF AloneStands
    <3>3. \A r \in Initializers \ {p} : temps'[r] = "written" => r \in to.unseen
      BY <1>1, <2>1, <2>5, <3>1, <3>2 DEF AloneStands, Abandoned
    <3>4. \A r \in to.unseen : temps'[r] # "none"
      BY <1>1, <2>1, <2>5, <3>1 DEF AloneStands, Begun
    <3> QED BY <1>1, <2>1, <2>3, <3>1, <3>2, <3>3, <3>4 DEF AloneStands, RootHolding
  <2> QED BY <1>1, <2>3, <2>5, <2>6, <2>8, <2>9, RootStatesTyped, StepKeeps DEF FilesTyped
<1> QED BY <1>2, <1>3, <1>4 DEF CleanTemps

LEMMA CreateKeeps == ASSUME InitializerInv, NEW p \in Initializers, CreateTemp(p) PROVE InitializerInv'
<1>1. /\ initializing[p].at = "create" /\ Living(p) /\ Moves(p, "write")
      /\ UNCHANGED <<lockFile, stagings, stateDir>>
      /\ temps' = [temps EXCEPT ![p] = "empty"]
  BY DEF CreateTemp, At, Living
<1>2. /\ initializing' \in [Initializers -> Begun] /\ initializing'[p].at = "write"
      /\ initializing'[p].outcome = initializing[p].outcome
      /\ initializing'[p].attempt = initializing[p].attempt
      /\ initializing'[p].alone = initializing[p].alone
      /\ \A q \in Initializers \ {p} :
            /\ initializing'[q].at = initializing[q].at
            /\ initializing'[q].outcome = initializing[q].outcome
            /\ ~initializing'[q].alone
      /\ \A q \in Initializers \ {p} : ~Living(q) => ~Living(q)'
  BY <1>1, MovesMoves DEF Stage
<1>3. FilesTyped' /\ temps'[p] = "empty" /\ \A q \in Initializers \ {p} : temps'[q] = temps[q]
  BY <1>1, RootStatesTyped DEF FilesTyped
<1>4. ProcessStands(p)'
  BY <1>1, <1>2, <1>3, RootStands DEF ProcessStands, Trying, RootHolding, Told
<1>5. ASSUME initializing'[p].alone PROVE AloneStands(p)'
  <2>1. AloneStands(p)
    BY <1>2, <1>5, RootStands
  <2>2. \A q \in Initializers \ {p} : ~Living(q)' /\ temps'[q] # "written"
    BY <1>1, <1>2, <1>3, <2>1 DEF AloneStands
  <2>3. initializing'[p].attempt = 1 \/ lockFile' = NoFile
    BY <1>1, <1>2, <2>1 DEF AloneStands
  <2> QED BY <1>2, <2>2, <2>3 DEF AloneStands, RootHolding
<1> QED BY <1>1, <1>2, <1>3, <1>4, <1>5, StepKeeps

LEMMA WriteKeeps == ASSUME InitializerInv, NEW p \in Initializers, WriteTemp(p) PROVE InitializerInv'
<1>1. /\ initializing[p].at = "write" /\ Living(p) /\ Moves(p, "link")
      /\ UNCHANGED <<lockFile, stagings, stateDir>>
      /\ temps' = [temps EXCEPT ![p] = "written"]
  BY DEF WriteTemp, At, Living
<1>2. /\ initializing' \in [Initializers -> Begun] /\ initializing'[p].at = "link"
      /\ initializing'[p].outcome = initializing[p].outcome
      /\ initializing'[p].attempt = initializing[p].attempt
      /\ initializing'[p].alone = initializing[p].alone
      /\ \A q \in Initializers \ {p} :
            /\ initializing'[q].at = initializing[q].at
            /\ initializing'[q].outcome = initializing[q].outcome
            /\ ~initializing'[q].alone
      /\ \A q \in Initializers \ {p} : ~Living(q) => ~Living(q)'
  BY <1>1, MovesMoves DEF Stage
<1>3. FilesTyped' /\ temps'[p] = "written" /\ \A q \in Initializers \ {p} : temps'[q] = temps[q]
  BY <1>1, RootStatesTyped DEF FilesTyped
<1>4. ProcessStands(p)'
  BY <1>1, <1>2, <1>3, RootStands DEF ProcessStands, Trying, RootHolding, Told
<1>5. ASSUME initializing'[p].alone PROVE AloneStands(p)'
  <2>1. AloneStands(p)
    BY <1>2, <1>5, RootStands
  <2>2. \A q \in Initializers \ {p} : ~Living(q)' /\ temps'[q] # "written"
    BY <1>1, <1>2, <1>3, <2>1 DEF AloneStands
  <2>3. initializing'[p].attempt = 1 \/ lockFile' = NoFile
    BY <1>1, <1>2, <2>1 DEF AloneStands
  <2> QED BY <1>2, <2>2, <2>3 DEF AloneStands, RootHolding
<1> QED BY <1>1, <1>2, <1>3, <1>4, <1>5, StepKeeps

LEMMA LinkKeeps == ASSUME InitializerInv, NEW p \in Initializers, LinkLock(p) PROVE InitializerInv'
<1>1. /\ initializing[p].at = "link" /\ Living(p) /\ UNCHANGED <<stagings, stateDir>>
  BY DEF LinkLock, At, Living
<1>2. CASE lockFile = NoFile
  <2>1. lockFile' = p /\ Moves(p, "hold") /\ UNCHANGED temps
    BY <1>2 DEF LinkLock
  <2>2. /\ initializing' \in [Initializers -> Begun] /\ initializing'[p].at = "hold"
        /\ initializing'[p].outcome = initializing[p].outcome
        /\ initializing'[p].alone = initializing[p].alone
        /\ \A q \in Initializers \ {p} :
              /\ initializing'[q].at = initializing[q].at
              /\ initializing'[q].outcome = initializing[q].outcome
              /\ ~initializing'[q].alone
        /\ \A q \in Initializers \ {p} : ~Living(q) => ~Living(q)'
    BY <1>1, <2>1, MovesMoves DEF Stage
  <2>3. FilesTyped'
    BY <1>1, <2>1, RootStatesTyped DEF FilesTyped
  <2>4. ProcessStands(p)'
    BY <1>1, <2>1, <2>2, RootStands DEF ProcessStands, Trying, RootHolding, Told
  <2>5. initializing'[p].alone => AloneStands(p)'
    BY <1>1, <2>1, <2>2, RootStands DEF AloneStands, RootHolding
  <2> QED BY <1>1, <2>1, <2>2, <2>3, <2>4, <2>5, StepKeeps
<1>3. CASE lockFile # NoFile
  <2>1. temps' = [temps EXCEPT ![p] = "none"] /\ Moves(p, "stale") /\ UNCHANGED lockFile
    BY <1>3 DEF LinkLock
  <2>2. /\ initializing' \in [Initializers -> Begun] /\ initializing'[p].at = "stale"
        /\ initializing'[p].outcome = initializing[p].outcome
        /\ initializing'[p].attempt = initializing[p].attempt
        /\ initializing'[p].alone = initializing[p].alone
        /\ \A q \in Initializers \ {p} :
              /\ initializing'[q].at = initializing[q].at
              /\ initializing'[q].outcome = initializing[q].outcome
              /\ ~initializing'[q].alone
        /\ \A q \in Initializers \ {p} : ~Living(q) => ~Living(q)'
    BY <1>1, <2>1, MovesMoves DEF Stage
  <2>3. FilesTyped' /\ temps'[p] = "none" /\ \A q \in Initializers \ {p} : temps'[q] = temps[q]
    BY <1>1, <2>1, RootStatesTyped DEF FilesTyped
  <2>4. ProcessStands(p)'
    BY <1>1, <2>1, <2>2, <2>3, RootStands DEF ProcessStands, Trying, RootHolding, Told
  <2>5. initializing'[p].alone => AloneStands(p)'
    BY <1>1, <1>3, <2>1, <2>2, <2>3, RootStands DEF AloneStands, RootHolding
  <2> QED BY <1>1, <2>1, <2>2, <2>3, <2>4, <2>5, StepKeeps
<1> QED BY <1>2, <1>3

\* A process comes to its end, told so: nothing of the others changes.
LEMMA EndKeeps ==
    ASSUME InitializerInv, NEW p \in Initializers, Living(p), NEW outcome \in Outcome,
           Ends(p, outcome), UNCHANGED <<stagings, stateDir>>, FilesTyped',
           initializing[p].at \notin {"fill", "recheck", "rename"},
           \A q \in Initializers \ {p} : temps'[q] = temps[q] /\ (lockFile' = q => lockFile = q),
           lockFile' = p => temps'[p] # "empty",
           outcome = "success" => stateDir = p,
           outcome = "state_exists" => stateDir \notin {p, NoFile},
           stateDir = p => outcome \notin {"lock_conflict", "state_exists"},
           initializing[p].alone => /\ outcome \notin {"lock_conflict", "cleanup_failed"}
                                    /\ lockFile' = NoFile /\ temps'[p] = "none"
    PROVE  InitializerInv'
<1>1. /\ initializing' \in [Initializers -> Begun] /\ initializing'[p].at = "ended"
      /\ initializing'[p].outcome = outcome
      /\ initializing'[p].alone = initializing[p].alone
      /\ \A q \in Initializers \ {p} :
            /\ initializing'[q].at = initializing[q].at
            /\ initializing'[q].outcome = initializing[q].outcome
            /\ ~initializing'[q].alone
      /\ \A q \in Initializers \ {p} : ~Living(q) => ~Living(q)'
  BY TellMoves DEF Stage, Ends
<1>2. ProcessStands(p)'
  BY <1>1, RootStands DEF ProcessStands, Trying, RootHolding, Told, Living
<1>3. initializing'[p].alone => AloneStands(p)'
  BY <1>1, RootStands DEF AloneStands, RootHolding
<1> QED BY <1>1, <1>2, <1>3, StepKeeps


LEMMA HoldKeeps == ASSUME InitializerInv, NEW p \in Initializers, HoldLock(p) PROVE InitializerInv'
<1>1. /\ initializing[p].at = "hold" /\ Living(p) /\ UNCHANGED <<lockFile, stagings, stateDir>>
      /\ temps' = IF lockFile \in {p, NoFile} THEN [temps EXCEPT ![p] = "none"] ELSE temps
  BY DEF HoldLock, At, Living
<1>2. /\ FilesTyped' /\ \A q \in Initializers \ {p} : temps'[q] = temps[q]
      /\ lockFile \in {p, NoFile} => temps'[p] = "none"
      /\ NoFile \notin Initializers
  BY <1>1, RootStatesTyped DEF FilesTyped
<1>3. /\ stagings[p] = "none" /\ stateDir # p
      /\ initializing[p].alone => lockFile = p
  BY <1>1, RootStands DEF ProcessStands, AloneStands, Trying, RootHolding, Told
<1>4. CASE lockFile = p /\ Moves(p, "check")
  <2>1. /\ initializing' \in [Initializers -> Begun] /\ initializing'[p].at = "check"
        /\ initializing'[p].outcome = initializing[p].outcome
        /\ initializing'[p].alone = initializing[p].alone
        /\ \A q \in Initializers \ {p} :
              /\ initializing'[q].at = initializing[q].at
              /\ initializing'[q].outcome = initializing[q].outcome
              /\ ~initializing'[q].alone
        /\ \A q \in Initializers \ {p} : ~Living(q) => ~Living(q)'
    BY <1>1, <1>4, MovesMoves DEF Stage
  <2>2. ProcessStands(p)'
    BY <1>1, <1>2, <1>3, <1>4, <2>1, RootStands DEF ProcessStands, Trying, RootHolding, Told
  <2>3. initializing'[p].alone => AloneStands(p)'
    BY <1>1, <1>2, <1>4, <2>1, RootStands DEF AloneStands, RootHolding
  <2> QED BY <1>1, <1>2, <2>1, <2>2, <2>3, StepKeeps
<1>5. CASE lockFile = NoFile /\ Ends(p, "initialization_failed")
  BY <1>1, <1>2, <1>3, <1>5, EndKeeps DEF Outcome
<1>6. CASE lockFile \notin {p, NoFile} /\ Ends(p, "cleanup_failed")
  BY <1>1, <1>2, <1>3, <1>6, EndKeeps DEF Outcome
<1>7. \/ lockFile = p /\ Moves(p, "check")
      \/ lockFile = NoFile /\ Ends(p, "initialization_failed")
      \/ lockFile \notin {p, NoFile} /\ Ends(p, "cleanup_failed")
  BY <1>2 DEF HoldLock
<1> QED BY <1>4, <1>5, <1>6, <1>7

LEMMA FindKeeps == ASSUME InitializerInv, NEW p \in Initializers, FindStale(p) PROVE InitializerInv'
<1>1. /\ initializing[p].at = "stale" /\ Living(p) /\ UNCHANGED <<lockFile, temps, stagings, stateDir>>
  BY DEF FindStale, At, Living
<1>2. FilesTyped' /\ NoFile \notin Initializers
  BY <1>1, RootStatesTyped DEF FilesTyped
<1>3. temps[p] = "none" /\ lockFile # p /\ stagings[p] = "none" /\ stateDir # p
  BY <1>1, RootStands DEF ProcessStands, Trying, RootHolding, Told
<1>4. CASE Moves(p, "unlink stale")
  <2>1. /\ initializing' \in [Initializers -> Begun] /\ initializing'[p].at = "unlink stale"
        /\ initializing'[p].outcome = initializing[p].outcome
        /\ initializing'[p].attempt = initializing[p].attempt
        /\ initializing'[p].alone = initializing[p].alone
        /\ \A q \in Initializers \ {p} :
              /\ initializing'[q].at = initializing[q].at
              /\ initializing'[q].outcome = initializing[q].outcome
              /\ ~initializing'[q].alone
        /\ \A q \in Initializers \ {p} : ~Living(q) => ~Living(q)'
    BY <1>1, <1>4, MovesMoves DEF Stage
  <2>2. ProcessStands(p)'
    BY <1>1, <1>3, <2>1, RootStands DEF ProcessStands, Trying, RootHolding, Told
  <2>3. initializing'[p].alone => AloneStands(p)'
    BY <1>1, <2>1, RootStands DEF AloneStands, RootHolding
  <2> QED BY <1>1, <1>2, <2>1, <2>2, <2>3, StepKeeps
<1>5. CASE ~(lockFile # NoFile /\ temps[lockFile] = "none" /\ ~Living(lockFile)) /\ Ends(p, "lock_conflict")
  <2>1. ~initializing[p].alone
    <3> SUFFICES ASSUME initializing[p].alone PROVE FALSE
      OBVIOUS
    <3>1. AloneStands(p)
      BY RootStands
    <3>2. lockFile \in Initializers \ {p}
      BY <1>1, <1>3, <3>1, RootStatesTyped DEF AloneStands
    <3>3. ~Living(lockFile) /\ temps[lockFile] # "written"
      BY <1>1, <3>1, <3>2 DEF AloneStands
    <3>4. temps[lockFile] \in {"none", "empty"}
      BY <3>2, <3>3, RootStatesTyped
    <3>5. temps[lockFile] # "empty"
      BY <3>2, RootStands DEF ProcessStands
    <3> QED BY <1>5, <3>2, <3>3, <3>4, <3>5, RootStatesTyped
  <2> QED BY <1>1, <1>2, <1>3, <1>5, <2>1, EndKeeps DEF Outcome
<1> QED BY <1>4, <1>5 DEF FindStale

LEMMA UnlinkStaleKeeps == ASSUME InitializerInv, NEW p \in Initializers, UnlinkStale(p) PROVE InitializerInv'
<1>1. /\ initializing[p].at = "unlink stale" /\ Living(p) /\ UNCHANGED <<temps, stagings, stateDir>>
      /\ lockFile' = NoFile
  BY DEF UnlinkStale, At, Living
<1>2. FilesTyped' /\ NoFile \notin Initializers
  BY <1>1, RootStatesTyped DEF FilesTyped
<1>3. temps[p] = "none" /\ stagings[p] = "none" /\ stateDir # p
  BY <1>1, RootStands DEF ProcessStands, Trying, RootHolding, Told
<1>4. initializing[p].alone => lockFile # NoFile /\ initializing[p].attempt = 1
  BY <1>1, RootStands DEF AloneStands
<1>5. CASE (lockFile = NoFile \/ initializing[p].attempt = MaxAttempts) /\ Ends(p, "lock_conflict")
  <2>1. ~initializing[p].alone
    BY <1>4, <1>5, InitializerAssumption
  <2> QED BY <1>1, <1>2, <1>3, <1>5, <2>1, EndKeeps DEF Outcome
<1>6. ASSUME lockFile # NoFile, initializing[p].attempt # MaxAttempts,
             initializing' = [initializing EXCEPT
                 ![p] = [@ EXCEPT !.at = "temps", !.unseen = Named,
                                  !.attempt = initializing[p].attempt + 1]]
      PROVE  InitializerInv'
  <2> DEFINE to == [initializing[p] EXCEPT !.at = "temps", !.unseen = Named, !.attempt = @ + 1]
  <2>1. initializing[p] \in Begun /\ Named \in SUBSET Initializers /\ "temps" \in Stage
    BY RootStatesTyped DEF Named, Stage
  <2>2. /\ to.at = "temps" /\ to.unseen = Named /\ to.outcome = initializing[p].outcome
        /\ to.alone = initializing[p].alone
    BY <2>1 DEF Begun
  <2>3. to \in Begun
    <3>1. initializing[p].attempt + 1 \in 1..MaxAttempts
      BY <1>6, <2>1, InitializerAssumption DEF Begun
    <3>2. \A one \in Begun, next \in 1..MaxAttempts :
             [one EXCEPT !.at = "temps", !.unseen = Named, !.attempt = next] \in Begun
      BY <2>1 DEF Begun
    <3> QED BY <2>1, <3>1, <3>2
  <2>4. initializing' = [initializing EXCEPT ![p] = to]
    BY <1>6
  <2> HIDE DEF to
  <2>5. /\ initializing' \in [Initializers -> Begun] /\ initializing'[p] = to
        /\ \A q \in Initializers \ {p} :
              /\ initializing'[q].at = initializing[q].at
              /\ initializing'[q].outcome = initializing[q].outcome
              /\ ~initializing'[q].alone
        /\ \A q \in Initializers \ {p} : ~Living(q) => ~Living(q)'
    BY <1>1, <2>3, <2>4, OneMoves
  <2>6. ProcessStands(p)'
    BY <1>1, <1>2, <1>3, <2>2, <2>5, RootStands DEF ProcessStands, Trying, RootHolding, Told
  <2>7. to.alone => AloneStands(p)'
    <3>1. p \notin Named /\ \A q \in Named : temps[q] # "none"
      BY <1>3 DEF Named
    <3>2. \A q \in Initializers : temps[q] = "written" => q \in Named
      BY DEF Named
    <3> QED BY <1>1, <2>2, <2>5, <3>1, <3>2, RootStands DEF AloneStands, RootHolding
  <2> QED BY <1>1, <1>2, <2>5, <2>6, <2>7, StepKeeps
<1> QED BY <1>5, <1>6 DEF UnlinkStale

-----------------------------------------------------------------------------
(* Building the state.                                                     *)

\* A process that holds the lock goes on, or gives up and goes to release it.
LEMMA HolderKeeps ==
    ASSUME InitializerInv, NEW p \in Initializers, Living(p), initializing[p].at \in RootHolding \ {"hold"},
           NEW stage \in RootHolding \ {"hold"}, NEW outcome \in Outcome \ {"lock_conflict", "cleanup_failed"},
           initializing' \in [Initializers -> Begun],
           initializing'[p].at = stage, initializing'[p].outcome = outcome,
           initializing'[p].alone = initializing[p].alone,
           \A q \in Initializers \ {p} : /\ initializing'[q].at = initializing[q].at
                                         /\ initializing'[q].outcome = initializing[q].outcome
                                         /\ ~initializing'[q].alone,
           \A q \in Initializers \ {p} : ~Living(q) => ~Living(q)',
           UNCHANGED <<lockFile, temps>>, FilesTyped',
           \A q \in Initializers \ {p} : stagings'[q] = stagings[q],
           stage \in {"check", "release", "unlink lock"} => stagings'[p] = "none",
           stateDir' = stateDir \/ (stateDir = NoFile /\ stateDir' = p),
           stateDir' = p => stage \in Told /\ outcome \notin {"lock_conflict", "state_exists"},
           stage \in Told /\ outcome = "success" => stateDir' = p,
           stage \in Told /\ outcome = "state_exists" => stateDir' \notin {p, NoFile}
    PROVE  InitializerInv'
<1>1. temps[p] = "none"
  BY RootStands DEF ProcessStands, RootHolding
<1>2. ProcessStands(p)'
  BY <1>1 DEF ProcessStands, Trying, RootHolding, Told
<1>3. initializing'[p].alone => AloneStands(p)'
  BY RootStands DEF AloneStands, RootHolding
<1> QED BY <1>2, <1>3, StepKeeps


\* What is known after a holder of the lock went to another step, and after it
\* went to release the lock.
GoesFacts(p, stage) ==
    /\ initializing' \in [Initializers -> Begun] /\ initializing'[p].at = stage
    /\ initializing'[p].outcome = initializing[p].outcome
    /\ initializing'[p].alone = initializing[p].alone
    /\ \A q \in Initializers \ {p} : /\ initializing'[q].at = initializing[q].at
                                     /\ initializing'[q].outcome = initializing[q].outcome
                                     /\ ~initializing'[q].alone
    /\ \A q \in Initializers \ {p} : ~Living(q) => ~Living(q)'

LeavesFacts(p, outcome) ==
    /\ initializing' \in [Initializers -> Begun] /\ initializing'[p].at = "release"
    /\ initializing'[p].outcome = outcome
    /\ initializing'[p].alone = initializing[p].alone
    /\ \A q \in Initializers \ {p} : /\ initializing'[q].at = initializing[q].at
                                     /\ initializing'[q].outcome = initializing[q].outcome
                                     /\ ~initializing'[q].alone
    /\ \A q \in Initializers \ {p} : ~Living(q) => ~Living(q)'

LEMMA GoesMoves ==
    ASSUME InitializerInv, NEW p \in Initializers, Living(p), NEW stage \in Stage, Moves(p, stage)
    PROVE  GoesFacts(p, stage)
BY MovesMoves DEF GoesFacts

LEMMA LeavesMoves ==
    ASSUME InitializerInv, NEW p \in Initializers, Living(p), NEW outcome \in Outcome, Leaves(p, outcome)
    PROVE  LeavesFacts(p, outcome)
BY TellMoves DEF LeavesFacts, Leaves, Stage

LEMMA CheckKeeps == ASSUME InitializerInv, NEW p \in Initializers, CheckState(p) PROVE InitializerInv'
<1>1. /\ initializing[p].at = "check" /\ Living(p) /\ UNCHANGED <<lockFile, temps, stateDir>>
      /\ stagings[p] = "none" /\ stateDir # p /\ initializing[p] \in Begun
      /\ initializing[p].outcome \notin {"lock_conflict", "cleanup_failed"}
  BY RootStands, RootStatesTyped DEF CheckState, At, Living, ProcessStands, Told
<1>2. CASE stateDir # NoFile /\ Leaves(p, "state_exists") /\ UNCHANGED stagings
  <2>1. LeavesFacts(p, "state_exists")
    BY <1>1, <1>2, LeavesMoves DEF Outcome
  <2> QED BY <1>1, <1>2, <2>1, RootStatesTyped, HolderKeeps DEF LeavesFacts, RootHolding, Outcome, FilesTyped
<1>3. CASE stateDir = NoFile /\ Moves(p, "fill") /\ stagings' = [stagings EXCEPT ![p] = "partial"]
  <2>1. GoesFacts(p, "fill")
    BY <1>1, <1>3, GoesMoves DEF Stage
  <2>2. FilesTyped' /\ \A q \in Initializers \ {p} : stagings'[q] = stagings[q]
    BY <1>1, <1>3, RootStatesTyped DEF FilesTyped
  <2> QED BY <1>1, <1>3, <2>1, <2>2, RootStatesTyped, HolderKeeps DEF GoesFacts, RootHolding, Told, Begun
<1> QED BY <1>2, <1>3 DEF CheckState

LEMMA FillKeeps == ASSUME InitializerInv, NEW p \in Initializers, FillStaging(p) PROVE InitializerInv'
<1>1. /\ initializing[p].at = "fill" /\ Living(p) /\ UNCHANGED <<lockFile, temps, stateDir>>
      /\ stateDir # p /\ initializing[p] \in Begun
      /\ initializing[p].outcome \notin {"lock_conflict", "cleanup_failed"}
  BY RootStands, RootStatesTyped DEF FillStaging, At, Living, ProcessStands, Told
<1>2. CASE Moves(p, "recheck") /\ stagings' = [stagings EXCEPT ![p] = "whole"]
  <2>1. GoesFacts(p, "recheck")
    BY <1>1, <1>2, GoesMoves DEF Stage
  <2>2. FilesTyped' /\ \A q \in Initializers \ {p} : stagings'[q] = stagings[q]
    BY <1>1, <1>2, RootStatesTyped DEF FilesTyped
  <2> QED BY <1>1, <1>2, <2>1, <2>2, HolderKeeps DEF GoesFacts, RootHolding, Told, Begun
<1>3. CASE Leaves(p, "initialization_failed") /\ stagings' = [stagings EXCEPT ![p] = "none"]
  <2>1. LeavesFacts(p, "initialization_failed")
    BY <1>1, <1>3, LeavesMoves DEF Outcome
  <2>2. FilesTyped' /\ stagings'[p] = "none" /\ \A q \in Initializers \ {p} : stagings'[q] = stagings[q]
    BY <1>1, <1>3, RootStatesTyped DEF FilesTyped
  <2> QED BY <1>1, <1>3, <2>1, <2>2, HolderKeeps DEF LeavesFacts, RootHolding, Outcome
<1> QED BY <1>2, <1>3 DEF FillStaging

LEMMA RecheckKeeps == ASSUME InitializerInv, NEW p \in Initializers, RecheckState(p) PROVE InitializerInv'
<1>1. /\ initializing[p].at = "recheck" /\ Living(p) /\ UNCHANGED <<lockFile, temps, stateDir>>
      /\ stateDir # p /\ initializing[p] \in Begun
      /\ initializing[p].outcome \notin {"lock_conflict", "cleanup_failed"}
  BY RootStands, RootStatesTyped DEF RecheckState, At, Living, ProcessStands, Told
<1>2. CASE stateDir = NoFile /\ Moves(p, "rename") /\ UNCHANGED stagings
  <2>1. GoesFacts(p, "rename")
    BY <1>1, <1>2, GoesMoves DEF Stage
  <2>2. FilesTyped'
    BY <1>1, <1>2, RootStatesTyped DEF FilesTyped
  <2> QED BY <1>1, <1>2, <2>1, <2>2, HolderKeeps DEF GoesFacts, RootHolding, Told, Begun
<1>3. CASE stateDir # NoFile /\ Leaves(p, "state_exists") /\ stagings' = [stagings EXCEPT ![p] = "none"]
  <2>1. LeavesFacts(p, "state_exists")
    BY <1>1, <1>3, LeavesMoves DEF Outcome
  <2>2. FilesTyped' /\ stagings'[p] = "none" /\ \A q \in Initializers \ {p} : stagings'[q] = stagings[q]
    BY <1>1, <1>3, RootStatesTyped DEF FilesTyped
  <2> QED BY <1>1, <1>3, <2>1, <2>2, HolderKeeps DEF LeavesFacts, RootHolding, Outcome
<1> QED BY <1>2, <1>3 DEF RecheckState

LEMMA PublishKeeps == ASSUME InitializerInv, NEW p \in Initializers, PublishState(p) PROVE InitializerInv'
<1>1. /\ initializing[p].at = "rename" /\ Living(p) /\ UNCHANGED <<lockFile, temps>>
      /\ stateDir # p /\ stagings' = [stagings EXCEPT ![p] = "none"]
  BY RootStands DEF PublishState, At, Living, ProcessStands, Told
<1>2. PICK outcome \in {"success", "initialization_failed"} :
         /\ Leaves(p, outcome)
         /\ (stateDir = NoFile /\ stateDir' = p) \/ (stateDir' = stateDir /\ outcome = "initialization_failed")
  BY DEF PublishState
<1>3. LeavesFacts(p, outcome) /\ outcome \in Outcome
  BY <1>1, <1>2, LeavesMoves DEF Outcome
<1>4. FilesTyped' /\ stagings'[p] = "none" /\ \A q \in Initializers \ {p} : stagings'[q] = stagings[q]
  BY <1>1, <1>2, RootStatesTyped DEF FilesTyped
<1> QED BY <1>1, <1>2, <1>3, <1>4, HolderKeeps DEF LeavesFacts, RootHolding, Told

LEMMA VerifyKeeps == ASSUME InitializerInv, NEW p \in Initializers, VerifyLock(p) PROVE InitializerInv'
<1>1. /\ initializing[p].at = "release" /\ Living(p) /\ UNCHANGED <<lockFile, temps, stagings, stateDir>>
      /\ initializing[p] \in Begun
  BY RootStatesTyped DEF VerifyLock, At, Living
<1>2. FilesTyped'
  BY <1>1, RootStatesTyped DEF FilesTyped
<1>3. /\ temps[p] = "none" /\ stagings[p] = "none"
      /\ stateDir = p => initializing[p].outcome \notin {"lock_conflict", "state_exists"}
      /\ initializing[p].outcome = "success" => stateDir = p
      /\ initializing[p].outcome = "state_exists" => stateDir \notin {p, NoFile}
  BY <1>1, RootStands DEF ProcessStands, Trying, RootHolding, Told
<1>4. initializing[p].alone => lockFile = p
  BY <1>1, RootStands DEF AloneStands, RootHolding
<1>5. CASE Moves(p, "unlink lock")
  <2>1. GoesFacts(p, "unlink lock")
    BY <1>1, <1>5, GoesMoves DEF Stage
  <2>2. initializing[p].outcome \in Outcome \ {"lock_conflict", "cleanup_failed"}
    BY <1>1, RootStands DEF Begun, ProcessStands
  <2> QED BY <1>1, <1>2, <1>3, <2>1, <2>2, HolderKeeps DEF GoesFacts, RootHolding, Told
<1>6. CASE lockFile # p /\ Ends(p, "cleanup_failed")
  BY <1>1, <1>2, <1>3, <1>4, <1>6, EndKeeps DEF Outcome
<1> QED BY <1>5, <1>6 DEF VerifyLock

LEMMA UnlinkKeeps == ASSUME InitializerInv, NEW p \in Initializers, UnlinkLock(p) PROVE InitializerInv'
<1> DEFINE outcome == IF lockFile = NoFile THEN "cleanup_failed" ELSE initializing[p].outcome
<1>1. /\ initializing[p].at = "unlink lock" /\ Living(p) /\ UNCHANGED <<temps, stagings, stateDir>>
      /\ initializing[p] \in Begun /\ lockFile' = NoFile /\ Ends(p, outcome)
  BY RootStatesTyped DEF UnlinkLock, At, Living
<1>2. FilesTyped' /\ NoFile \notin Initializers
  BY <1>1, RootStatesTyped DEF FilesTyped
<1>3. /\ temps[p] = "none" /\ stagings[p] = "none"
      /\ stateDir = p => initializing[p].outcome \notin {"lock_conflict", "state_exists"}
      /\ initializing[p].outcome = "success" => stateDir = p
      /\ initializing[p].outcome = "state_exists" => stateDir \notin {p, NoFile}
  BY <1>1, RootStands DEF ProcessStands, Trying, RootHolding, Told
<1>4. /\ initializing[p].alone => lockFile = p
      /\ initializing[p].outcome \notin {"lock_conflict", "cleanup_failed"}
  BY <1>1, RootStands DEF AloneStands, ProcessStands, RootHolding
<1>5. outcome \in Outcome
  BY <1>1 DEF Begun, Outcome
<1>6. /\ outcome = "success" => stateDir = p
      /\ outcome = "state_exists" => stateDir \notin {p, NoFile}
      /\ stateDir = p => outcome \notin {"lock_conflict", "state_exists"}
      /\ initializing[p].alone => outcome \notin {"lock_conflict", "cleanup_failed"}
  BY <1>2, <1>3, <1>4
<1> HIDE DEF outcome
<1> QED BY <1>1, <1>2, <1>3, <1>5, <1>6, EndKeeps

LEMMA StopKeeps == ASSUME InitializerInv, NEW p \in Initializers, StopInitializer(p) PROVE InitializerInv'
<1>1. Living(p) /\ Moves(p, "dead") /\ UNCHANGED <<lockFile, temps, stagings, stateDir>>
  BY DEF StopInitializer
<1>2. GoesFacts(p, "dead")
  BY <1>1, GoesMoves DEF Stage
<1>3. FilesTyped'
  BY <1>1, RootStatesTyped DEF FilesTyped
<1>4. ProcessStands(p)'
  BY <1>1, <1>2, RootStands DEF GoesFacts, ProcessStands, Trying, RootHolding, Told, Living
<1>5. initializing'[p].alone => AloneStands(p)'
  BY <1>1, <1>2, RootStands DEF GoesFacts, AloneStands, RootHolding
<1> QED BY <1>1, <1>2, <1>3, <1>4, <1>5, StepKeeps DEF GoesFacts

-----------------------------------------------------------------------------
LEMMA InitialInitializers == ASSUME InitializerInit PROVE InitializerInv
<1>1. NotBegun \in Begun /\ NotBegun.at = "idle" /\ ~NotBegun.alone /\ NotBegun.outcome = "success"
  BY InitializerAssumption DEF NotBegun, Begun, Stage, Outcome
<1>2. \A p \in Initializers : initializing[p] = NotBegun
  BY DEF InitializerInit
<1>3. InitializerTypeOK
  BY <1>1 DEF InitializerInit, InitializerTypeOK, Begun
<1>4. ASSUME NEW p \in Initializers PROVE ProcessStands(p)
  BY <1>1, <1>2, InitializerAssumption DEF InitializerInit, ProcessStands, Trying, RootHolding, Told
<1> QED BY <1>1, <1>2, <1>3, <1>4 DEF InitializerInv

LEMMA InitializerStep == ASSUME InitializerInv, [InitializerNext]_initializerVars PROVE InitializerInv'
<1>1. CASE UNCHANGED initializerVars
  BY <1>1 DEF InitializerInv, InitializerTypeOK, ProcessStands, AloneStands, Living, initializerVars
<1>2. ASSUME NEW p \in Initializers,
             \/ Begin(p) \/ CleanTemps(p) \/ CreateTemp(p) \/ WriteTemp(p) \/ LinkLock(p) \/ HoldLock(p)
             \/ FindStale(p) \/ UnlinkStale(p)
             \/ CheckState(p) \/ FillStaging(p) \/ RecheckState(p) \/ PublishState(p)
             \/ VerifyLock(p) \/ UnlinkLock(p) \/ StopInitializer(p)
      PROVE  InitializerInv'
  BY <1>2, BeginKeeps, CleanKeeps, CreateKeeps, WriteKeeps, LinkKeeps, HoldKeeps, FindKeeps,
     UnlinkStaleKeeps, CheckKeeps, FillKeeps, RecheckKeeps, PublishKeeps, VerifyKeeps, UnlinkKeeps, StopKeeps
<1> QED BY <1>1, <1>2 DEF InitializerNext

\* The invariant of the making of the state: which files every process has, and
\* what one that works alone has found out about those of the dead.
THEOREM InitializerInvariant == InitializerSpec => []InitializerInv
<1>1. InitializerInit => InitializerInv
  BY InitialInitializers
<1>2. InitializerInv /\ [InitializerNext]_initializerVars => InitializerInv'
  BY InitializerStep
<1> QED BY <1>1, <1>2, PTL DEF InitializerSpec

\* With any number of processes, stopped at any point: who is told that the
\* state was made has made it, no one is told that another made what is his,
\* and one that works alone takes the lock whatever the dead have left and
\* leaves nothing (initializeSqliteControlState, acquireInitializerLock).
THEOREM InitializerStaysSettled == InitializerSpec => []InitializerSettles
<1>1. InitializerInv => InitializerSettles
  BY DEF InitializerInv, InitializerSettles, ProcessStands, AloneStands, At, Trying, RootHolding, Told
<1> QED BY <1>1, InitializerInvariant, PTL

=============================================================================
