------------------------- MODULE ControlPlaneProofs -------------------------
(***************************************************************************)
(* Proofs about the control plane, for every set of operators, modules,    *)
(* previews and keys and every bound: the types, that the gate serves only *)
(* what the durable store has verified, that gate and store agree whenever *)
(* a healthy runtime is at rest, that a managed runtime is never idle over *)
(* an unfinished deployment, that the plane implements ReleaseLine, and    *)
(* that the verifier never refuses what the service itself writes.         *)
(***************************************************************************)
EXTENDS ControlPlane, FiniteSetTheorems, Sequences, TLAPS

-----------------------------------------------------------------------------
(* The writes of the store keep the types of the tables.                   *)

\* The last event moves, the rows stay.
LEMMA EventType ==
    ASSUME NEW d \in Database, NEW t \in Nat
    PROVE  WithEvent(d, t) \in Database
BY DEF WithEvent, Database

\* A registration adds one module set.
LEMMA RegisterType ==
    ASSUME NEW d \in Database, NEW t \in Nat, NEW m \in ModuleSets
    PROVE  RegisterModule(d, m, t) \in Database
BY DEF RegisterModule, WithEvent, Database

\* A preview is inserted once.
LEMMA InsertPreviewType ==
    ASSUME NEW d \in Database, NEW t \in Nat, NEW p \in Previews, NEW row \in PreviewRow
    PROVE  InsertPreview(d, p, row, t) \in Database
BY DEF InsertPreview, WithEvent, Database

\* An approval is inserted once.
LEMMA InsertApprovalType ==
    ASSUME NEW d \in Database, NEW t \in Nat, NEW p \in Previews, NEW row \in ApprovalRow
    PROVE  InsertApproval(d, p, row, t) \in Database
BY DEF InsertApproval, WithEvent, Database

\* A publish inserts the release and consumes its preview and approval.
LEMMA PublishType ==
    ASSUME NEW d \in Database, NEW t \in Nat, NEW k \in Keys, NEW r \in Releases,
           NEW p \in Previews, d.previews[p] # None, d.approvals[p] # None
    PROVE  PublishRelease(d, k, p, r, t) \in Database
<1> DEFINE irow == [status |-> "domain_committed", release |-> r,
                    outcome |-> None, createdAt |-> t]
           prow == [d.previews[p] EXCEPT !.consumed = TRUE]
           arow == [d.approvals[p] EXCEPT !.consumed = TRUE]
           rrow == [status       |-> "pending",
                    revision     |-> d.previews[p].baseRevision + 1,
                    previous     |-> d.previews[p].base,
                    preview      |-> p,
                    desired      |-> d.previews[p].desired,
                    createdAt    |-> t,
                    outcome      |-> None,
                    supersededBy |-> None]
           e == [d EXCEPT !.idem[k] = irow, !.previews[p] = prow,
                          !.approvals[p] = arow, !.releases[r] = rrow]
<1>1. d.previews[p] \in PreviewRow /\ d.approvals[p] \in ApprovalRow
  BY DEF Database
<1>2. irow \in IdempotencyRow
  BY DEF IdempotencyRow
<1>3. prow \in PreviewRow /\ arow \in ApprovalRow
  BY <1>1 DEF PreviewRow, ApprovalRow
<1>4. rrow \in ReleaseRow
  BY <1>1 DEF ReleaseRow, PreviewRow, Unresolved
<1>5. e \in Database
  <2> HIDE DEF irow, prow, arow, rrow
  <2> QED BY <1>2, <1>3, <1>4 DEF Database
<1>6. PublishRelease(d, k, p, r, t) = WithEvent(e, t)
  BY DEF PublishRelease, Database
<1> QED BY <1>5, <1>6, EventType

\* A claim files the attempt, and for a reconcile its idempotency row.
LEMMA ClaimType ==
    ASSUME NEW d \in Database, NEW t \in Nat, NEW k \in Keys, NEW r \in Releases,
           NEW b \in Nat
    PROVE  ClaimAttempt(d, k, r, b, t) \in Database
<1> DEFINE irow == [status |-> "domain_committed", release |-> r,
                    outcome |-> None, createdAt |-> t]
           row  == [phase |-> "claimed", release |-> r, boot |-> b,
                    claimedAt |-> t, outcome |-> None]
           new  == IF k \in PublishKeys THEN d.idem[k] ELSE irow
           e    == [d EXCEPT !.idem = [d.idem EXCEPT ![k] = new],
                             !.attempts = [d.attempts EXCEPT ![k] = row]]
<1>1. irow \in IdempotencyRow
  BY DEF IdempotencyRow
<1>2. row \in AttemptRow
  BY DEF AttemptRow
<1>3. new \in IdempotencyRow \cup {None}
  BY <1>1 DEF Database
<1>4. ClaimAttempt(d, k, r, b, t) = e
  BY DEF ClaimAttempt, Database
<1>5. e \in Database
  <2> HIDE DEF row, new
  <2> QED BY <1>2, <1>3 DEF Database
<1> QED BY <1>4, <1>5

\* The verifier leaves at most one verified release, and it is the active one.
LEMMA ActiveIs ==
    ASSUME NEW d \in Database, LineVerifies(d)
    PROVE  /\ \A r \in WithStatus(d, {"verified"}) : ActiveRelease(d) = r
           /\ WithStatus(d, {"verified"}) = {} => ActiveRelease(d) = None
           /\ ActiveRelease(d) # None => ActiveRelease(d) \in WithStatus(d, {"verified"})
<1> DEFINE V == WithStatus(d, {"verified"})
<1>1. V = {} => ActiveRelease(d) = None
  BY DEF ActiveRelease, Newest
<1>2. ASSUME NEW r \in V
      PROVE  ActiveRelease(d) = r
  <2>1. V = {r}
    BY <1>2 DEF LineVerifies
  <2>2. Revision(d, r) \in Nat
    BY <1>2, StoreAssumption DEF Revision, WithStatus, Existing, Database, ReleaseRow
  <2>3. ActiveRelease(d) = CHOOSE x \in V : \A s \in V : Revision(d, s) <= Revision(d, x)
    BY <1>2 DEF ActiveRelease, Newest
  <2>4. \A s \in V : Revision(d, s) <= Revision(d, r)
    BY <2>1, <2>2
  <2> HIDE DEF V
  <2> QED BY <2>1, <2>3, <2>4
<1> QED BY <1>1, <1>2

\* Two databases with the same verified releases have the same snapshot.
LEMMA ActiveSame ==
    ASSUME NEW d \in Database, LineVerifies(d), NEW e \in Database, LineVerifies(e),
           WithStatus(d, {"verified"}) = WithStatus(e, {"verified"}),
           \A r \in WithStatus(d, {"verified"}) :
              /\ d.releases[r].revision = e.releases[r].revision
              /\ d.releases[r].desired = e.releases[r].desired
    PROVE  ActiveSnapshot(d) = ActiveSnapshot(e)
<1>1. ActiveRelease(d) = ActiveRelease(e)
  BY ActiveIs
<1>2. ActiveRelease(d) # None => ActiveRelease(d) \in WithStatus(d, {"verified"})
  BY ActiveIs
<1> QED BY <1>1, <1>2 DEF ActiveSnapshot

\* The snapshot of a database is of a verified release, or Inactive.
LEMMA ActiveSnapshotServes ==
    ASSUME NEW d \in Database, LineVerifies(d), ActiveSnapshot(d) # Inactive
    PROVE  LET s == ActiveSnapshot(d) IN
           /\ s.release = ActiveRelease(d)
           /\ s.release \in WithStatus(d, {"verified"})
           /\ s.revision = d.releases[s.release].revision
           /\ s.desired = d.releases[s.release].desired
<1>1. ActiveRelease(d) \in WithStatus(d, {"verified"})
  BY ActiveIs DEF ActiveSnapshot
<1> QED BY <1>1, StoreAssumption DEF ActiveSnapshot, WithStatus, Existing

\* A readback rewrites its release and the one it supersedes.
LEMMA ResolvedType ==
    ASSUME NEW d \in Database, LineVerifies(d), NEW r \in Existing(d), NEW o \in Outcomes
    PROVE  Resolved(d, r, o) \in [Releases -> ReleaseRow \cup {None}]
<1>1. \A s \in Releases : d.releases[s] \in ReleaseRow \cup {None}
  BY DEF Database
<1>2. r \in Releases /\ d.releases[r] \in ReleaseRow
  BY DEF Database, Existing
<1>3. [d.releases[r] EXCEPT !.status = IF o = "verified" THEN "verified" ELSE "manual_review",
                            !.outcome = o] \in ReleaseRow
  BY <1>2 DEF ReleaseRow, Settled, Unresolved
<1>4. ASSUME NEW s \in Releases, s = ActiveRelease(d)
      PROVE  [d.releases[s] EXCEPT !.status = "superseded", !.supersededBy = r]
                \in ReleaseRow
  <2>1. s # None
    BY StoreAssumption
  <2>2. d.releases[s] \in ReleaseRow
    BY <1>1, <1>4, <2>1, ActiveIs DEF WithStatus, Existing
  <2> QED BY <1>2, <2>2 DEF ReleaseRow, Settled, Unresolved
<1> QED BY <1>1, <1>3, <1>4 DEF Resolved

\* A finalized readback rewrites attempt, idempotency row and releases.
LEMMA FinalizeType ==
    ASSUME NEW d \in Database, LineVerifies(d), NEW t \in Nat, NEW o \in Outcomes,
           NEW k \in Keys, d.attempts[k] # None, d.idem[k] # None,
           d.attempts[k].release \in Existing(d)
    PROVE  FinalizeAttempt(d, k, o, t) \in Database
<1> DEFINE r    == d.attempts[k].release
           brow == [attempt |-> k, outcome |-> o, checkedAt |-> t]
           arow == [d.attempts[k] EXCEPT !.phase = "finalized", !.outcome = o]
           irow == [d.idem[k] EXCEPT !.status = "completed", !.outcome = o]
           rels == Resolved(d, r, o)
           e    == [d EXCEPT !.readbacks = [d.readbacks EXCEPT ![r] = brow],
                             !.releases = rels,
                             !.attempts = [d.attempts EXCEPT ![k] = arow],
                             !.idem = [d.idem EXCEPT ![k] = irow]]
<1>1. r \in Releases
  BY DEF Existing
<1>2. brow \in ReadbackRow
  BY DEF ReadbackRow
<1>3. arow \in AttemptRow /\ irow \in IdempotencyRow
  <2>1. d.attempts[k] \in AttemptRow /\ d.idem[k] \in IdempotencyRow
    BY DEF Database
  <2>2. arow \in AttemptRow
    BY <2>1 DEF AttemptRow
  <2>3. irow \in IdempotencyRow
    BY <2>1 DEF IdempotencyRow
  <2> QED BY <2>2, <2>3
<1>4. rels \in [Releases -> ReleaseRow \cup {None}]
  BY ResolvedType
<1>5. e \in Database
  <2> HIDE DEF r, brow, arow, irow, rels
  <2> QED BY <1>1, <1>2, <1>3, <1>4 DEF Database
<1>6. FinalizeAttempt(d, k, o, t) = WithEvent(e, t)
  BY DEF FinalizeAttempt, Database
<1> QED BY <1>5, <1>6, EventType

-----------------------------------------------------------------------------
(* The inductive invariant.  The gate's snapshot alone is not inductive:   *)
(* that it stays verified rests on the candidate being that of the         *)
(* operation in flight, on its readback being durable before it has the    *)
(* proof, and on the verifier accepting the database, which leaves at most *)
(* one verified release to restore from.                                   *)

SnapshotType ==
    [release : Releases \cup {None}, revision : Nat, desired : ModuleSets \cup {None}]

\* What the snapshot s says was verified in the database d.
Serves(d, s) ==
    s # Inactive =>
        /\ s.release \in WithStatus(d, Settled)
        /\ s.revision = d.releases[s.release].revision
        /\ s.desired = d.releases[s.release].desired

\* The operation in flight and the gate's candidate belong together.
OpOK ==
    /\ op.pc = "idle" => op = Idle
    /\ op.pc # "idle" => /\ up
                         /\ fatal = "none"
                         /\ op.key \in Keys
                         /\ op.release \in Existing(db)
    /\ op.pc \in {"idle", "stage"} => stage = None
    /\ op.pc \in {"observe", "commit"} =>
         /\ stage # None
         /\ stage.release = op.release
         /\ stage.revision = db.releases[op.release].revision
         /\ stage.desired = db.releases[op.release].desired
    /\ op.pc = "observe" => /\ ~stage.proof
                            /\ db.attempts[op.key] # None
                            /\ db.attempts[op.key].release = op.release
    /\ op.pc = "commit" /\ stage.proof => op.release \in WithStatus(db, {"verified"})

\* Only a proven candidate that waits for its commit is ahead of the gate.
GateOK ==
    (up /\ fatal = "none" /\ ~(op.pc = "commit" /\ stage.proof)) =>
        snapshot = ActiveSnapshot(db)

DownOK ==
    ~up => /\ boot < MaxBoot
           /\ fatal = "none"
           /\ snapshot = Inactive
           /\ op = Idle

IInv ==
    /\ TypeOK
    /\ Verifies(db)
    /\ OpOK
    /\ Serves(db, snapshot)
    /\ GateOK
    /\ DownOK

\* What every write keeps: what has been verified stays, settled, as it was.
Keeps(d, e) ==
    \A r \in WithStatus(d, Settled) :
        /\ r \in WithStatus(e, Settled)
        /\ e.releases[r].revision = d.releases[r].revision
        /\ e.releases[r].desired = d.releases[r].desired

\* What every write but a verified readback keeps: the active release.
KeepsActive(d, e) ==
    /\ WithStatus(d, {"verified"}) = WithStatus(e, {"verified"})
    /\ \A r \in WithStatus(d, {"verified"}) :
          /\ e.releases[r].revision = d.releases[r].revision
          /\ e.releases[r].desired = d.releases[r].desired

\* A snapshot that a database served is still served after a write.
LEMMA ServesKept ==
    ASSUME NEW d, NEW e, NEW s, Serves(d, s), Keeps(d, e)
    PROVE  Serves(e, s)
BY DEF Serves, Keeps

\* A write that leaves the releases alone keeps what has been verified.
LEMMA SameReleases ==
    ASSUME NEW d, NEW e, e.releases = d.releases
    PROVE  Keeps(d, e) /\ KeepsActive(d, e)
BY DEF Keeps, KeepsActive, WithStatus, Existing

\* The release a publish creates is new, and not verified.
LEMMA PublishKeeps ==
    ASSUME NEW d \in Database, NEW t \in Nat, NEW k \in Keys, NEW p \in Previews,
           NEW r \in Releases \ Existing(d), d.previews[p] # None
    PROVE  LET e == PublishRelease(d, k, p, r, t) IN
           /\ Keeps(d, e) /\ KeepsActive(d, e)
           /\ r \in Existing(e)
<1> DEFINE e == PublishRelease(d, k, p, r, t)
           row == [status       |-> "pending",
                   revision     |-> d.previews[p].baseRevision + 1,
                   previous     |-> d.previews[p].base,
                   preview      |-> p,
                   desired      |-> d.previews[p].desired,
                   createdAt    |-> t,
                   outcome      |-> None,
                   supersededBy |-> None]
<1>0. e.releases = [d.releases EXCEPT ![r] = row]
  BY DEF PublishRelease, WithEvent, Database
<1>1. /\ \A s \in Releases \ {r} : e.releases[s] = d.releases[s]
      /\ e.releases[r] = row /\ e.releases[r].status = "pending"
  BY <1>0 DEF Database
<1>8. row \in ReleaseRow
  <2>1. d.previews[p] \in PreviewRow
    BY DEF Database
  <2> QED BY <2>1 DEF ReleaseRow, PreviewRow, Unresolved
<1> HIDE DEF row
<1>2. d.releases[r] = None
  BY DEF Existing
<1> HIDE DEF e
<1>3. \A s \in Releases \ {r}, S \in SUBSET {"verified", "superseded"} :
        s \in WithStatus(d, S) <=> s \in WithStatus(e, S)
  BY <1>1 DEF WithStatus, Existing
<1>4. r \notin WithStatus(d, Settled) /\ r \notin WithStatus(d, {"verified"})
  BY <1>2 DEF WithStatus, Existing
<1>5. r \notin WithStatus(e, {"verified"})
  BY <1>1 DEF WithStatus
<1>6. Keeps(d, e)
  BY <1>1, <1>3, <1>4 DEF Keeps, WithStatus, Existing, Settled
<1>7. KeepsActive(d, e)
  BY <1>1, <1>3, <1>4, <1>5 DEF KeepsActive, WithStatus, Existing
<1>9. r \in Existing(e)
  BY <1>1, <1>8, RowAssumption DEF Existing
<1> QED BY <1>6, <1>7, <1>9 DEF e

\* The readback of an unresolved release verifies that release or none.
LEMMA FinalizeKeeps ==
    ASSUME NEW d \in Database, LineVerifies(d), NEW t \in Nat, NEW o \in Outcomes,
           NEW k \in Keys, NEW r \in Existing(d),
           d.attempts[k].release = r, d.releases[r].status \in Unresolved
    PROVE  LET e == FinalizeAttempt(d, k, o, t) IN
           /\ Keeps(d, e)
           /\ o # "verified" => KeepsActive(d, e)
           /\ o = "verified" => r \in WithStatus(e, {"verified"})
           /\ e.releases[r].revision = d.releases[r].revision
           /\ e.releases[r].desired = d.releases[r].desired
           /\ r \in Existing(e)
<1> DEFINE e == FinalizeAttempt(d, k, o, t)
           new == [d.releases[r] EXCEPT
                     !.status = IF o = "verified" THEN "verified" ELSE "manual_review",
                     !.outcome = o]
           old(s) == [d.releases[s] EXCEPT !.status = "superseded", !.supersededBy = r]
           a == ActiveRelease(d)
<1>1. e.releases = Resolved(d, r, o)
  BY DEF FinalizeAttempt, WithEvent, Database
<1>2. r \in Releases /\ d.releases[r] \in ReleaseRow
  BY DEF Database, Existing
<1>3. e.releases[r] = new
  BY <1>1, <1>2 DEF Resolved
<1>4. \A s \in Releases \ {r} :
        e.releases[s] = IF o = "verified" /\ s = a THEN old(s) ELSE d.releases[s]
  BY <1>1 DEF Resolved
<1>5. /\ new.status = IF o = "verified" THEN "verified" ELSE "manual_review"
      /\ new.revision = d.releases[r].revision
      /\ new.desired = d.releases[r].desired
      /\ new \in ReleaseRow
  BY <1>2 DEF ReleaseRow, Settled, Unresolved
<1>6. \A s \in Existing(d) :
        /\ old(s).status = "superseded"
        /\ old(s).revision = d.releases[s].revision
        /\ old(s).desired = d.releases[s].desired
        /\ old(s) \in ReleaseRow
  <2> TAKE s \in Existing(d)
  <2>1. s \in Releases /\ d.releases[s] \in ReleaseRow
    BY DEF Existing, Database
  <2> QED BY <1>2, <2>1 DEF ReleaseRow, Settled, Unresolved
<1>7. r \notin WithStatus(d, Settled) /\ r \notin WithStatus(d, {"verified"})
  BY DEF WithStatus, Settled, Unresolved
<1> HIDE DEF e, new, old, a
<1>8. Keeps(d, e)
  <2> SUFFICES ASSUME NEW s \in WithStatus(d, Settled)
               PROVE  /\ s \in WithStatus(e, Settled)
                      /\ e.releases[s].revision = d.releases[s].revision
                      /\ e.releases[s].desired = d.releases[s].desired
    BY DEF Keeps
  <2>1. s # r /\ s \in Existing(d) /\ s \in Releases /\ d.releases[s].status \in Settled
    BY <1>7 DEF WithStatus, Existing
  <2>2. CASE o = "verified" /\ s = a
    <3>1. e.releases[s] = old(s)
      BY <1>4, <2>1, <2>2
    <3> QED BY <1>6, <2>1, <3>1, RowAssumption DEF WithStatus, Existing, Settled
  <2>3. CASE ~(o = "verified" /\ s = a)
    <3>1. e.releases[s] = d.releases[s]
      BY <1>4, <2>1, <2>3
    <3> QED BY <2>1, <3>1 DEF WithStatus, Existing
  <2> QED BY <2>2, <2>3
<1>9. r \in Existing(e)
  BY <1>2, <1>3, <1>5, RowAssumption DEF Existing
<1>10. ASSUME o # "verified" PROVE KeepsActive(d, e)
  <2>1. \A s \in Releases \ {r} : e.releases[s] = d.releases[s]
    BY <1>4, <1>10
  <2>2. r \notin WithStatus(e, {"verified"})
    BY <1>3, <1>5, <1>10 DEF WithStatus
  <2> QED BY <1>7, <2>1, <2>2 DEF KeepsActive, WithStatus, Existing
<1>11. o = "verified" => r \in WithStatus(e, {"verified"})
  BY <1>3, <1>5, <1>9 DEF WithStatus
<1> QED BY <1>3, <1>5, <1>8, <1>9, <1>10, <1>11 DEF e

\* Keeping the active release keeps the snapshot of the database.
LEMMA KeepsSnapshot ==
    ASSUME NEW d \in Database, LineVerifies(d), NEW e \in Database, LineVerifies(e),
           KeepsActive(d, e)
    PROVE  ActiveSnapshot(d) = ActiveSnapshot(e)
BY ActiveSame DEF KeepsActive

\* The gate may be restored from any database the verifier accepts.
LEMMA RestoredServes ==
    ASSUME NEW d \in Database, LineVerifies(d)
    PROVE  ActiveSnapshot(d) \in SnapshotType /\ Serves(d, ActiveSnapshot(d))
<1> DEFINE s == ActiveSnapshot(d)
<1>1. CASE s = Inactive
  BY <1>1 DEF Serves, Inactive, SnapshotType
<1>2. CASE s # Inactive
  <2>1. /\ s.release = ActiveRelease(d)
        /\ s.release \in WithStatus(d, {"verified"})
        /\ s.revision = d.releases[s.release].revision
        /\ s.desired = d.releases[s.release].desired
    BY <1>2, ActiveSnapshotServes
  <2>2. s = [release |-> ActiveRelease(d), revision |-> d.releases[ActiveRelease(d)].revision,
             desired |-> d.releases[ActiveRelease(d)].desired]
    BY <1>2 DEF ActiveSnapshot
  <2>3. ActiveRelease(d) \in Releases /\ d.releases[ActiveRelease(d)] \in ReleaseRow
    BY <2>1 DEF WithStatus, Existing, Database
  <2>4. s \in SnapshotType
    BY <2>2, <2>3 DEF SnapshotType, ReleaseRow
  <2>5. s.release \in WithStatus(d, Settled)
    BY <2>1 DEF WithStatus, Settled
  <2>6. Serves(d, s)
    BY <2>1, <2>5 DEF Serves
  <2> QED BY <2>4, <2>6
<1> QED BY <1>1, <1>2

\* A transaction leaves the new database or fails, and then the old or the new.
LEMMA TransactionCases ==
    ASSUME NEW e, Transaction(e) \/ CriticalTransaction(e)
    PROVE  /\ fatal' \in Causes
           /\ \/ Verifies(e) /\ db' = e
              \/ db' = db /\ fatal' # "none"
BY DEF Transaction, CriticalTransaction, TripFatal, Causes

-----------------------------------------------------------------------------
(* One lemma for every step that leaves no operation in flight, then one   *)
(* per action that begins or continues one.                                *)

\* After a step that ends with the process up and idle the invariant follows
\* from what the step made of the database and of the gate.
LEMMA IdleStep ==
    ASSUME NEW e \in Database, Verifies(e), db' = e,
           boot' \in 1..MaxBoot, up' = TRUE, fatal' \in Causes,
           op' = Idle, stage' = None, clock' \in 0..MaxClock,
           snapshot' \in SnapshotType, Serves(e, snapshot'),
           fatal' = "none" => snapshot' = ActiveSnapshot(e)
    PROVE  IInv'
<1>1. Idle \in [pc : {"idle", "stage", "observe", "commit"}, kind : OpKinds,
                key : Keys \cup {None}, release : Releases \cup {None},
                at : 0..MaxClock, outcome : Outcomes \cup {"none"}]
  BY PlaneAssumption DEF Idle, OpKinds
<1>2. TypeOK'
  BY <1>1 DEF TypeOK, SnapshotType
<1>3. OpOK'
  BY DEF OpOK, Idle
<1>4. GateOK' /\ DownOK'
  BY DEF GateOK, DownOK
<1> QED BY <1>2, <1>3, <1>4 DEF IInv

\* Transactions that leave the releases alone, between two operations.
LEMMA WriteStep ==
    ASSUME IInv, Ready, NEW e \in Database, Transaction(e), e.releases = db.releases,
           UNCHANGED <<volatile, op>>
    PROVE  IInv'
<1> USE DEF IInv, volatile
<1>1. db \in Database /\ LineVerifies(db)
  BY DEF TypeOK, Verifies
<1>2. Keeps(db, e) /\ KeepsActive(db, e)
  BY SameReleases
<1>3. /\ boot' \in 1..MaxBoot /\ up' = TRUE /\ op' = Idle /\ stage' = None
      /\ clock' \in 0..MaxClock /\ snapshot' = snapshot /\ snapshot \in SnapshotType
      /\ snapshot = ActiveSnapshot(db)
  BY DEF Ready, TypeOK, OpOK, GateOK, SnapshotType, Idle
<1>4. fatal' \in Causes
  BY TransactionCases
<1>5. CASE Verifies(e) /\ db' = e
  <2>1. Serves(e, snapshot)
    BY <1>2, ServesKept
  <2>2. snapshot = ActiveSnapshot(e)
    BY <1>1, <1>2, <1>3, <1>5, KeepsSnapshot DEF Verifies
  <2> QED BY <1>3, <1>4, <1>5, <2>1, <2>2, IdleStep
<1>6. CASE db' = db
  BY <1>1, <1>3, <1>4, <1>6, IdleStep
<1> QED BY <1>5, <1>6, TransactionCases

\* A failure in whatever operation is under way ends it and keeps the rest.
LEMMA FailStep ==
    ASSUME IInv, up, db' = db, fatal' \in Causes \ {"none"}, op' = Idle, stage' = None,
           UNCHANGED <<boot, up, snapshot, clock>>
    PROVE  IInv'
BY IdleStep DEF IInv, TypeOK, SnapshotType

\* A failure between two operations.
LEMMA TripStep ==
    ASSUME IInv, Ready, NEW cause \in Causes \ {"none"}, TripFatal(cause),
           UNCHANGED <<volatile, op>>
    PROVE  IInv'
BY FailStep DEF Ready, TripFatal, volatile, IInv, OpOK, Idle

\* Registrations, previews and approvals leave the releases alone.
LEMMA PrepareStep ==
    ASSUME IInv, Prepare
    PROVE  IInv'
<1>1. db \in Database /\ clock \in Nat
  BY PlaneAssumption DEF IInv, TypeOK
<1>2. ASSUME NEW m \in ModuleSets, Register(m) PROVE IInv'
  <2>1. RegisterModule(db, m, clock) \in Database
    BY <1>1, RegisterType
  <2>2. RegisterModule(db, m, clock).releases = db.releases
    BY <1>1 DEF RegisterModule, WithEvent, Database
  <2> QED BY <1>2, <2>1, <2>2, WriteStep DEF Register
<1>3. ASSUME NEW p \in Previews, NEW a \in Actors, NEW m \in ModuleSets,
             NEW t \in Releases \cup {None}, CreatePreview(p, a, m, t)
      PROVE  IInv'
  <2> DEFINE row == [creator |-> a, base |-> snapshot.release,
                     baseRevision |-> snapshot.revision, desired |-> m,
                     target |-> t, expiresAt |-> clock + Ttl, consumed |-> FALSE]
             e == InsertPreview(db, p, row, clock)
  <2>1. CASE ~GateAgreesWith(db)
    BY <1>3, <2>1, TripStep DEF CreatePreview, Causes
  <2>2. CASE GateAgreesWith(db)
    <3>1. row \in PreviewRow
      <4>1. clock + Ttl \in Nat
        BY <1>1, StoreAssumption
      <4>2. snapshot.release \in Releases \cup {None} /\ snapshot.revision \in Nat
        BY DEF IInv, TypeOK
      <4> QED BY <4>1, <4>2 DEF PreviewRow
    <3> HIDE DEF row
    <3>2. e \in Database
      BY <1>1, <3>1, InsertPreviewType
    <3>3. e.releases = db.releases
      BY <1>1 DEF InsertPreview, WithEvent, Database
    <3>4. Ready /\ Transaction(e) /\ UNCHANGED <<volatile, op>>
      BY <1>3, <2>2 DEF CreatePreview, row
    <3> QED BY <3>2, <3>3, <3>4, WriteStep
  <2> QED BY <2>1, <2>2
<1>4. ASSUME NEW p \in Previews, NEW a \in Actors, NEW decision \in {"approve", "reject"},
             Decide(p, a, decision)
      PROVE  IInv'
  <2> DEFINE row == [approver |-> a, decision |-> decision, consumed |-> FALSE]
             e == InsertApproval(db, p, row, clock)
  <2>1. row \in ApprovalRow
    BY DEF ApprovalRow
  <2> HIDE DEF row
  <2>2. e \in Database
    BY <1>1, <2>1, InsertApprovalType
  <2>3. e.releases = db.releases
    BY <1>1 DEF InsertApproval, WithEvent, Database
  <2>4. Ready /\ Transaction(e) /\ UNCHANGED <<volatile, op>>
    BY <1>4 DEF Decide, row
  <2> QED BY <2>2, <2>3, <2>4, WriteStep
<1>5. ASSUME NEW p \in Previews, ReplayPreview(p) \/ ReplayDecision(p) PROVE IInv'
  BY <1>5, TripStep DEF ReplayPreview, ReplayDecision, Causes
<1> QED BY <1>2, <1>3, <1>4, <1>5 DEF Prepare

\* A publish creates a pending release, which the gate does not serve.
LEMMA PublishStep ==
    ASSUME IInv, NEW k \in PublishKeys, NEW p \in Previews, NEW q \in Previews,
           NEW r \in Releases, Publish(k, p, q, r)
    PROVE  IInv'
<1> DEFINE e == PublishRelease(db, k, p, r, clock)
<1>1. /\ db \in Database /\ LineVerifies(db) /\ clock \in 0..MaxClock /\ clock \in Nat
      /\ k \in Keys
  BY PlaneAssumption DEF IInv, TypeOK, Verifies, Keys
<1>2. Ready
  BY DEF Publish
<1>3. ASSUME NEW cause \in Causes \ {"none"}, TripFatal(cause), UNCHANGED op
      PROVE  IInv'
  BY <1>2, <1>3, TripStep DEF Publish, volatile
<1>4. CASE q # p
  BY <1>3, <1>4 DEF Publish, Causes
<1>5. CASE q = p /\ db.approvals[p].approver = db.previews[p].creator
  BY <1>3, <1>5 DEF Publish, Causes
<1>6. CASE q = p /\ db.approvals[p].approver # db.previews[p].creator /\ ~GateAgreesWith(db)
  BY <1>3, <1>6 DEF Publish, Causes
<1>7. CASE q = p /\ db.approvals[p].approver # db.previews[p].creator /\ GateAgreesWith(db)
  <2>1. /\ db.previews[p] # None /\ db.approvals[p] # None
        /\ r \in Releases \ Existing(db)
        /\ Transaction(e)
        /\ IF fatal' = "none" THEN Begin("publish", k, r) ELSE UNCHANGED op
        /\ UNCHANGED volatile
    BY <1>7 DEF Publish
  <2>2. e \in Database
    BY <1>1, <2>1, PublishType
  <2>3. Keeps(db, e) /\ KeepsActive(db, e) /\ r \in Existing(e)
    BY <1>1, <2>1, PublishKeeps
  <2> HIDE DEF e
  <2>4. fatal' \in Causes /\ ((Verifies(e) /\ db' = e) \/ (db' = db /\ fatal' # "none"))
    BY <2>1, TransactionCases
  <2>5. /\ boot' \in 1..MaxBoot /\ up' = TRUE /\ stage' = None
        /\ clock' \in 0..MaxClock /\ snapshot' = snapshot /\ snapshot \in SnapshotType
        /\ snapshot = ActiveSnapshot(db) /\ op = Idle
    BY <1>2, <2>1 DEF Ready, IInv, TypeOK, OpOK, GateOK, SnapshotType, Idle, volatile
  <2>6. CASE db' = db /\ fatal' # "none"
    BY <1>2, <2>1, <2>4, <2>5, <2>6, FailStep DEF Ready, volatile
  <2>7. ASSUME Verifies(e), db' = e
        PROVE  Serves(e, snapshot) /\ snapshot = ActiveSnapshot(e)
    <3>1. Serves(e, snapshot)
      BY <2>3, ServesKept DEF IInv
    <3>2. snapshot = ActiveSnapshot(e)
      BY <1>1, <2>2, <2>3, <2>5, <2>7, KeepsSnapshot DEF Verifies
    <3> QED BY <3>1, <3>2
  <2>8. CASE Verifies(e) /\ db' = e /\ fatal' # "none"
    BY <2>1, <2>2, <2>4, <2>5, <2>7, <2>8, IdleStep
  <2>9. CASE Verifies(e) /\ db' = e /\ fatal' = "none"
    <3>1. op' = [pc |-> "stage", kind |-> "publish", key |-> k, release |-> r,
                 at |-> clock, outcome |-> "none"]
      BY <2>1, <2>9 DEF Begin
    <3>2. TypeOK'
      BY <1>1, <2>2, <2>4, <2>5, <2>9, <3>1 DEF TypeOK, SnapshotType, OpKinds
    <3>3. OpOK'
      BY <1>1, <2>3, <2>5, <2>9, <3>1 DEF OpOK
    <3>4. GateOK' /\ DownOK'
      BY <2>5, <2>7, <2>9, <3>1 DEF GateOK, DownOK
    <3>5. Serves(db, snapshot)' /\ Verifies(db)'
      BY <2>5, <2>7, <2>9
    <3> QED BY <3>2, <3>3, <3>4, <3>5 DEF IInv
  <2> QED BY <2>4, <2>6, <2>8, <2>9
<1> QED BY <1>4, <1>5, <1>6, <1>7

\* Resume and reconcile write nothing before they stage.
LEMMA BeginStep ==
    ASSUME IInv, Ready, NEW kind \in OpKinds, NEW k \in Keys, NEW r \in Existing(db),
           Begin(kind, k, r), UNCHANGED <<db, fatal>>, UNCHANGED volatile
    PROVE  IInv'
<1>1. op' = [pc |-> "stage", kind |-> kind, key |-> k, release |-> r,
             at |-> clock, outcome |-> "none"]
  BY DEF Begin
<1>2. r \in Releases /\ clock \in 0..MaxClock
  BY DEF Existing, IInv, TypeOK
<1>3. TypeOK'
  BY <1>1, <1>2 DEF IInv, TypeOK, volatile
<1>4. OpOK'
  BY <1>1 DEF IInv, OpOK, Ready, Idle, volatile
<1>5. GateOK' /\ DownOK'
  BY <1>1 DEF IInv, GateOK, DownOK, Ready, Idle, volatile
<1> QED BY <1>3, <1>4, <1>5 DEF IInv, volatile

\* A failure in the critical section, with or without its write.
LEMMA EndStep ==
    ASSUME IInv, op.pc # "idle", NEW e \in Database, Keeps(db, e), CriticalTransaction(e),
           fatal' # "none", op' = Idle, stage' = None, UNCHANGED <<boot, up, snapshot, clock>>
    PROVE  IInv'
<1>1. /\ up /\ boot \in 1..MaxBoot /\ clock \in 0..MaxClock /\ snapshot \in SnapshotType
      /\ up \in BOOLEAN
  BY DEF IInv, OpOK, TypeOK, SnapshotType
<1>2. fatal' \in Causes
  BY TransactionCases
<1>3. CASE Verifies(e) /\ db' = e
  <2>1. Serves(e, snapshot)
    BY ServesKept DEF IInv
  <2> QED BY <1>1, <1>2, <1>3, <2>1, IdleStep
<1>4. CASE db' = db
  BY <1>1, <1>2, <1>4, FailStep
<1> QED BY <1>3, <1>4, TransactionCases

\* The claim is filed under its key and leaves the releases alone.
LEMMA ClaimKeeps ==
    ASSUME NEW d \in Database, NEW t \in Nat, NEW k \in Keys, NEW r \in Releases,
           NEW b \in Nat
    PROVE  LET e == ClaimAttempt(d, k, r, b, t) IN
           /\ e.releases = d.releases
           /\ e.attempts[k] # None
           /\ e.attempts[k].release = r
<1> DEFINE row == [phase |-> "claimed", release |-> r, boot |-> b,
                   claimedAt |-> t, outcome |-> None]
<1>1. row \in AttemptRow
  BY DEF AttemptRow
<1>2. ClaimAttempt(d, k, r, b, t).releases = d.releases
  BY DEF ClaimAttempt, Database
<1>3. ClaimAttempt(d, k, r, b, t).attempts[k] = row
  BY DEF ClaimAttempt, Database
<1> QED BY <1>1, <1>2, <1>3, RowAssumption

\* The claim leaves the releases alone; the candidate is the operation's.
LEMMA StageStep ==
    ASSUME IInv, StageAndClaim
    PROVE  IInv'
<1> DEFINE r == op.release
           e == ClaimAttempt(db, op.key, r, boot, op.at)
<1>1. /\ db \in Database /\ LineVerifies(db) /\ op.at \in Nat /\ boot \in Nat /\ boot \in 1..MaxBoot
      /\ op.key \in Keys /\ r \in Existing(db) /\ r \in Releases /\ up /\ up \in BOOLEAN
      /\ clock \in 0..MaxClock /\ snapshot \in SnapshotType /\ op.pc = "stage"
      /\ snapshot = ActiveSnapshot(db) /\ fatal = "none"
  BY PlaneAssumption
     DEF IInv, TypeOK, OpOK, GateOK, Verifies, StageAndClaim, SnapshotType, Existing
<1>2. e \in Database
  BY <1>1, ClaimType
<1>3. e.releases = db.releases /\ e.attempts[op.key] # None /\ e.attempts[op.key].release = r
  BY <1>1, ClaimKeeps
<1>4. Keeps(db, e) /\ KeepsActive(db, e)
  BY <1>3, SameReleases
<1>5. /\ Continue("observe", Candidate(db, r))
      /\ UNCHANGED <<boot, up, snapshot, clock>>
      /\ \/ CriticalTransaction(e)
         \/ TripFatal("clock") \/ TripFatal("disagreement")
  BY DEF StageAndClaim
<1> HIDE DEF e
<1>6. CASE TripFatal("clock") \/ TripFatal("disagreement")
  <2>1. db' = db /\ fatal' \in Causes \ {"none"}
    BY <1>6 DEF TripFatal, Causes
  <2>2. op' = Idle /\ stage' = None
    BY <1>5, <2>1 DEF Continue
  <2> QED BY <1>1, <1>5, <2>1, <2>2, FailStep
<1>7. CASE CriticalTransaction(e) /\ fatal' # "none"
  <2>1. op' = Idle /\ stage' = None
    BY <1>5, <1>7 DEF Continue
  <2> QED BY <1>1, <1>2, <1>4, <1>5, <1>7, <2>1, EndStep
<1>8. CASE CriticalTransaction(e) /\ fatal' = "none"
  <2>1. Verifies(e) /\ db' = e
    BY <1>8, TransactionCases
  <2>2. op' = [op EXCEPT !.pc = "observe"] /\ stage' = Candidate(db, r)
    BY <1>5, <1>8 DEF Continue
  <2>3. db.releases[r] \in ReleaseRow
    BY <1>1 DEF Existing, Database
  <2>4. stage' \in Candidates
    BY <1>1, <2>2, <2>3 DEF Candidate, Candidates, ReleaseRow
  <2>5. stage' # None
    BY <2>4, CandidateAssumption
  <2>6. op' \in [pc : {"idle", "stage", "observe", "commit"}, kind : OpKinds,
                 key : Keys \cup {None}, release : Releases \cup {None},
                 at : 0..MaxClock, outcome : Outcomes \cup {"none"}]
    BY <2>2 DEF IInv, TypeOK
  <2>7. /\ op'.pc = "observe" /\ op'.key = op.key /\ op'.release = r
    BY <2>2 DEF IInv, TypeOK
  <2>8. TypeOK'
    BY <1>1, <1>2, <1>5, <1>8, <2>1, <2>4, <2>6 DEF TypeOK, SnapshotType, Causes
  <2>9. /\ stage'.release = r /\ ~stage'.proof
        /\ stage'.revision = e.releases[r].revision /\ stage'.desired = e.releases[r].desired
    BY <1>3, <2>2 DEF Candidate
  <2>10. r \in Existing(e)
    BY <1>1, <1>3 DEF Existing
  <2>11. OpOK'
    BY <1>1, <1>3, <1>5, <1>8, <2>1, <2>5, <2>7, <2>9, <2>10 DEF OpOK
  <2>12. Serves(e, snapshot)
    BY <1>4, ServesKept DEF IInv
  <2>13. snapshot = ActiveSnapshot(e)
    BY <1>1, <1>2, <1>4, <2>1, KeepsSnapshot DEF Verifies
  <2>14. GateOK' /\ DownOK'
    BY <1>1, <1>5, <2>1, <2>13 DEF GateOK, DownOK
  <2> QED BY <1>5, <2>1, <2>8, <2>11, <2>12, <2>14 DEF IInv
<1> QED BY <1>5, <1>6, <1>7, <1>8

\* A verified readback makes the candidate's release the only verified one;
\* any other leaves the active release and gives the candidate no proof.
LEMMA ObserveStep ==
    ASSUME IInv, NEW o \in ReadbackOutcomes, ObserveAndFinalize(o)
    PROVE  IInv'
<1> DEFINE r == op.release
           k == op.key
           e == FinalizeAttempt(db, k, o, op.at)
<1>1. /\ db \in Database /\ LineVerifies(db) /\ op.at \in Nat /\ boot \in 1..MaxBoot
      /\ k \in Keys /\ r \in Existing(db) /\ r \in Releases /\ up /\ up \in BOOLEAN
      /\ clock \in 0..MaxClock /\ snapshot \in SnapshotType /\ op.pc = "observe"
      /\ snapshot = ActiveSnapshot(db) /\ fatal = "none" /\ o \in Outcomes
  BY PlaneAssumption
     DEF IInv, TypeOK, OpOK, GateOK, Verifies, ObserveAndFinalize, SnapshotType, Existing
<1>2. /\ db.attempts[k] # None /\ db.attempts[k].release = r /\ db.idem[k] # None
      /\ stage \in Candidates /\ stage.release = r
      /\ stage.revision = db.releases[r].revision /\ stage.desired = db.releases[r].desired
  BY <1>1 DEF IInv, TypeOK, OpOK, Verifies, AttemptVerifies
<1>3. /\ IF fatal' = "none"
         THEN /\ op' = [op EXCEPT !.pc = "commit", !.outcome = o]
              /\ stage' = [stage EXCEPT !.proof = (o = "verified")]
         ELSE op' = Idle /\ stage' = None
      /\ UNCHANGED <<boot, up, snapshot, clock>>
      /\ \/ TripFatal("clock")
         \/ db.releases[r].status \in Unresolved /\ CriticalTransaction(e)
  BY <1>2 DEF ObserveAndFinalize, OwnerCanFinalize, CanFinalize
<1>4. CASE TripFatal("clock")
  <2>1. db' = db /\ fatal' \in Causes \ {"none"}
    BY <1>4 DEF TripFatal, Causes
  <2> QED BY <1>1, <1>3, <2>1, FailStep
<1>5. CASE db.releases[r].status \in Unresolved /\ CriticalTransaction(e)
  <2>1. e \in Database
    BY <1>1, <1>2, FinalizeType
  <2>2. /\ Keeps(db, e)
        /\ o # "verified" => KeepsActive(db, e)
        /\ o = "verified" => r \in WithStatus(e, {"verified"})
        /\ e.releases[r].revision = db.releases[r].revision
        /\ e.releases[r].desired = db.releases[r].desired
        /\ r \in Existing(e)
    BY <1>1, <1>2, <1>5, FinalizeKeeps
  <2> HIDE DEF e
  <2>3. CASE fatal' # "none"
    BY <1>1, <1>3, <1>5, <2>1, <2>2, <2>3, EndStep
  <2>4. CASE fatal' = "none"
    <3>1. Verifies(e) /\ db' = e
      BY <1>5, <2>4, TransactionCases
    <3>2. /\ op' = [op EXCEPT !.pc = "commit", !.outcome = o]
          /\ stage' = [stage EXCEPT !.proof = (o = "verified")]
      BY <1>3, <2>4
    <3>3. /\ stage' \in Candidates /\ stage'.release = r
          /\ stage'.revision = stage.revision /\ stage'.desired = stage.desired
      BY <1>2, <3>2 DEF Candidates
    <3>4. stage'.proof = (o = "verified")
      BY <1>2, <3>2 DEF Candidates
    <3>5. /\ op' \in [pc : {"idle", "stage", "observe", "commit"}, kind : OpKinds,
                      key : Keys \cup {None}, release : Releases \cup {None},
                      at : 0..MaxClock, outcome : Outcomes \cup {"none"}]
          /\ op'.pc = "commit" /\ op'.key = k /\ op'.release = r
      BY <1>1, <3>2 DEF IInv, TypeOK
    <3>6. TypeOK'
      BY <1>1, <1>3, <2>1, <2>4, <3>1, <3>3, <3>5 DEF TypeOK, SnapshotType, Causes
    <3>7. OpOK'
      <4>1. stage' # None
        BY <3>3, CandidateAssumption
      <4>2. stage'.proof => r \in WithStatus(e, {"verified"})
        BY <2>2, <3>4
      <4> QED BY <1>1, <1>2, <1>3, <2>2, <2>4, <3>1, <3>3, <3>5, <4>1, <4>2 DEF OpOK
    <3>8. Serves(e, snapshot)
      BY <2>2, ServesKept DEF IInv
    <3>9. GateOK'
      <4>1. ~stage'.proof => snapshot = ActiveSnapshot(e)
        BY <1>1, <2>1, <2>2, <3>1, <3>4, KeepsSnapshot DEF Verifies
      <4> QED BY <1>3, <3>1, <3>5, <4>1 DEF GateOK
    <3>10. DownOK'
      BY <1>1, <1>3 DEF DownOK
    <3> QED BY <1>3, <3>1, <3>6, <3>7, <3>8, <3>9, <3>10 DEF IInv
  <2> QED BY <2>3, <2>4
<1> QED BY <1>3, <1>4, <1>5

\* With the proof the gate switches to the release that is active by then.
LEMMA CommitStep ==
    ASSUME IInv, CommitGate
    PROVE  IInv'
<1> DEFINE r == op.release
           proven == [release |-> stage.release, revision |-> stage.revision,
                      desired |-> stage.desired]
<1>1. /\ db \in Database /\ LineVerifies(db) /\ Verifies(db) /\ boot \in 1..MaxBoot
      /\ r \in Existing(db) /\ r \in Releases /\ up /\ up \in BOOLEAN
      /\ clock \in 0..MaxClock /\ snapshot \in SnapshotType /\ op.pc = "commit"
      /\ fatal = "none" /\ Serves(db, snapshot)
      /\ ~stage.proof => snapshot = ActiveSnapshot(db)
  BY DEF IInv, TypeOK, OpOK, GateOK, Verifies, CommitGate, SnapshotType, Existing
<1>2. op' = Idle /\ stage' = None /\ UNCHANGED <<boot, up, clock>>
  BY DEF CommitGate
<1>3. CASE op.kind # "resume" /\ LatestReadback(db) # r
  <2>1. db' = db /\ fatal' \in Causes \ {"none"} /\ snapshot' = snapshot
    BY <1>3 DEF CommitGate, TripFatal, Causes
  <2> QED BY <1>1, <1>2, <2>1, FailStep
<1>4. CASE ~(op.kind # "resume" /\ LatestReadback(db) # r)
  <2>1. db' = db /\ fatal' = fatal /\ snapshot' = IF stage.proof THEN proven ELSE snapshot
    BY <1>4 DEF CommitGate
  <2>2. ASSUME stage.proof
        PROVE  proven = ActiveSnapshot(db)
    <3>1. /\ r \in WithStatus(db, {"verified"})
          /\ stage.release = r
          /\ stage.revision = db.releases[r].revision
          /\ stage.desired = db.releases[r].desired
      BY <1>1, <2>2 DEF IInv, OpOK
    <3>2. ActiveRelease(db) = r
      BY <1>1, <3>1, ActiveIs
    <3> QED BY <1>1, <3>1, <3>2, StoreAssumption DEF ActiveSnapshot
  <2>3. snapshot' = ActiveSnapshot(db)
    BY <1>1, <2>1, <2>2
  <2>4. snapshot' \in SnapshotType /\ Serves(db, snapshot')
    BY <1>1, <2>3, RestoredServes
  <2>5. fatal' \in Causes
    BY <1>1, <2>1 DEF Causes
  <2> HIDE DEF proven
  <2> QED BY <1>1, <1>2, <2>1, <2>3, <2>4, <2>5, IdleStep
<1> QED BY <1>3, <1>4

\* Publish, reconcile and the critical section.
LEMMA DeployStep ==
    ASSUME IInv, Deploy
    PROVE  IInv'
<1>1. ASSUME NEW k \in PublishKeys, Resume(k) PROVE IInv'
  <2> DEFINE r == db.idem[k].release
  <2>1. /\ Ready /\ UNCHANGED volatile /\ k \in Keys
        /\ \/ /\ db.releases[r].status = "pending"
              /\ Begin("resume", k, r) /\ UNCHANGED <<db, fatal>>
           \/ TripFatal("disagreement") /\ UNCHANGED op
    BY <1>1 DEF Resume, Keys
  <2>2. CASE TripFatal("disagreement") /\ UNCHANGED op
    BY <2>1, <2>2, TripStep DEF Causes, volatile
  <2>3. CASE /\ db.releases[r].status = "pending"
             /\ Begin("resume", k, r) /\ UNCHANGED <<db, fatal>>
    <3>1. r \in Existing(db)
      <4>1. db.idem[k] # None /\ db.idem[k] \in IdempotencyRow
        BY <1>1, <2>1 DEF Resume, IInv, TypeOK, Database
      <4>2. db.releases[r] # None
        BY <2>1, <4>1 DEF IInv, Verifies, IdempotencyVerifies
      <4> QED BY <4>1, <4>2 DEF Existing, IdempotencyRow
    <3> QED BY <2>1, <2>3, <3>1, BeginStep DEF OpKinds
  <2> QED BY <2>1, <2>2, <2>3
<1>2. ASSUME NEW k \in ReconcileKeys, NEW r \in Releases, Reconcile(k, r) PROVE IInv'
  <2>1. /\ Ready /\ UNCHANGED volatile /\ k \in Keys /\ r \in Existing(db)
        /\ \/ Begin("reconcile", k, r) /\ UNCHANGED <<db, fatal>>
           \/ TripFatal("nothing_unresolved") /\ UNCHANGED op
           \/ TripFatal("disagreement") /\ UNCHANGED op
    BY <1>2 DEF Reconcile, Keys, Existing
  <2>2. CASE Begin("reconcile", k, r) /\ UNCHANGED <<db, fatal>>
    BY <2>1, <2>2, BeginStep DEF OpKinds
  <2>3. CASE (TripFatal("nothing_unresolved") \/ TripFatal("disagreement")) /\ UNCHANGED op
    BY <2>1, <2>3, TripStep DEF Causes, volatile
  <2> QED BY <2>1, <2>2, <2>3
<1>3. ASSUME NEW k \in Keys, ReplayPublish(k) \/ ReplayReconcile(k) PROVE IInv'
  BY <1>3, TripStep DEF ReplayPublish, ReplayReconcile, Causes
<1> QED BY <1>1, <1>2, <1>3, PublishStep, StageStep, ObserveStep, CommitStep DEF Deploy, Keys

-----------------------------------------------------------------------------
(* The process and the clock.                                              *)

\* What the recovery of a start leaves is a database the verifier accepts.
LEMMA RecoveredVerifies ==
    ASSUME IInv, CanRecover
    PROVE  Recovered \in Database /\ Verifies(Recovered)
<1>1. db \in Database /\ LineVerifies(db) /\ Verifies(db) /\ clock \in Nat
  BY PlaneAssumption DEF IInv, TypeOK, Verifies
<1>2. CASE ClaimedKeys(db) = {}
  BY <1>1, <1>2 DEF Recovered
<1>3. CASE ClaimedKeys(db) # {}
  <2>1. PICK k \in ClaimedKeys(db) : Recovered = FinalizeAttempt(db, k, "interrupted", clock)
    BY <1>3 DEF Recovered
  <2>2. /\ k \in Keys /\ db.attempts[k] # None /\ db.attempts[k] \in AttemptRow
    BY <1>1 DEF ClaimedKeys, Database
  <2>3. /\ db.idem[k] # None
        /\ db.attempts[k].release \in Existing(db)
    BY <1>1, <2>2 DEF Verifies, AttemptVerifies, Existing, AttemptRow
  <2>4. Verifies(FinalizeAttempt(db, k, "interrupted", clock))
    BY DEF CanRecover
  <2>5. "interrupted" \in Outcomes
    BY DEF Outcomes
  <2>6. FinalizeAttempt(db, k, "interrupted", clock) \in Database
    BY <1>1, <2>2, <2>3, <2>5, FinalizeType
  <2> QED BY <2>1, <2>4, <2>6
<1> QED BY <1>2, <1>3

\* A crash forgets everything but the database; a start restores the gate
\* from a database the verifier accepts, recovered or not.
LEMMA EnvironmentStep ==
    ASSUME IInv, Environment
    PROVE  IInv'
<1>1. CASE Crash
  <2>1. Inactive \in SnapshotType
    BY DEF Inactive, SnapshotType
  <2>2. Idle \in [pc : {"idle", "stage", "observe", "commit"}, kind : OpKinds,
                  key : Keys \cup {None}, release : Releases \cup {None},
                  at : 0..MaxClock, outcome : Outcomes \cup {"none"}]
    BY PlaneAssumption DEF Idle, OpKinds
  <2>3. TypeOK'
    BY <1>1, <2>1, <2>2 DEF Crash, IInv, TypeOK, SnapshotType, Causes
  <2>4. OpOK'
    BY <1>1 DEF Crash, OpOK, Idle
  <2>5. Serves(db, snapshot)' /\ GateOK' /\ DownOK'
    BY <1>1 DEF Crash, Serves, GateOK, DownOK
  <2> QED BY <1>1, <2>3, <2>4, <2>5 DEF Crash, IInv
<1>2. CASE Start
  <2>1. /\ db' = (IF NextIsManaged THEN Recovered ELSE db)
        /\ NextIsManaged => CanRecover
        /\ snapshot' = ActiveSnapshot(db') /\ boot' = boot + 1 /\ up' = TRUE
        /\ UNCHANGED <<fatal, stage, op, clock>>
    BY <1>2 DEF Start
  <2>2. /\ boot \in 1..MaxBoot /\ boot < MaxBoot /\ fatal = "none" /\ op = Idle /\ stage = None
        /\ clock \in 0..MaxClock
    BY <1>2 DEF Start, IInv, TypeOK, OpOK, DownOK, Idle
  <2>3. db' \in Database /\ Verifies(db')
    BY <2>1, RecoveredVerifies DEF IInv, TypeOK
  <2>4. PICK e \in Database : db' = e /\ Verifies(e)
    BY <2>3
  <2>5. snapshot' \in SnapshotType /\ Serves(e, snapshot')
    BY <2>1, <2>4, RestoredServes DEF Verifies
  <2>6. boot' \in 1..MaxBoot /\ fatal' \in Causes
    BY <2>1, <2>2, PlaneAssumption DEF Causes
  <2> QED BY <2>1, <2>2, <2>4, <2>5, <2>6, IdleStep
<1>3. CASE StartRefused
  <2>1. /\ ~up /\ db' = Recovered /\ CanRecover
        /\ UNCHANGED <<boot, up, fatal, snapshot, stage, op, clock>>
    BY <1>3 DEF StartRefused
  <2>2. db' \in Database /\ Verifies(db')
    BY <2>1, RecoveredVerifies
  <2>3. op = Idle /\ snapshot = Inactive
    BY <2>1 DEF IInv, DownOK
  <2>4. TypeOK' /\ DownOK'
    BY <2>1, <2>2 DEF IInv, TypeOK, DownOK
  <2>5. OpOK'
    BY <2>1, <2>3 DEF IInv, OpOK, Idle
  <2>6. Serves(db, snapshot)' /\ GateOK'
    BY <2>1, <2>3 DEF Serves, GateOK
  <2> QED BY <2>2, <2>4, <2>5, <2>6 DEF IInv
<1>4. CASE Tick
  <2>1. clock' \in 0..MaxClock /\ UNCHANGED <<db, boot, up, fatal, snapshot, stage, op>>
    BY <1>4, PlaneAssumption DEF Tick, IInv, TypeOK
  <2> QED BY <2>1 DEF IInv, TypeOK, OpOK, GateOK, DownOK
<1> QED BY <1>1, <1>2, <1>3, <1>4 DEF Environment

-----------------------------------------------------------------------------
(* The theorems.                                                           *)

\* The empty database and the inactive gate satisfy the invariant.
LEMMA InitInv ==
    Init => IInv
<1> SUFFICES ASSUME Init PROVE IInv
  OBVIOUS
<1>1. db = EmptyDatabase /\ boot = 1 /\ up = TRUE /\ fatal = "none" /\ snapshot = Inactive
      /\ stage = None /\ op = Idle /\ clock = 0
  BY DEF Init
<1>2. EmptyDatabase \in Database
  BY DEF EmptyDatabase, Database
<1>3. Verifies(EmptyDatabase)
  BY DEF Verifies, EmptyDatabase, LineVerifies, Existing, WithStatus
<1>4. ActiveSnapshot(EmptyDatabase) = Inactive
  BY DEF ActiveSnapshot, ActiveRelease, Newest, WithStatus, Existing, EmptyDatabase
<1>5. Serves(EmptyDatabase, Inactive)
  BY DEF Serves
<1>6. Inactive \in SnapshotType
  BY DEF Inactive, SnapshotType
<1>7. Idle \in [pc : {"idle", "stage", "observe", "commit"}, kind : OpKinds,
                key : Keys \cup {None}, release : Releases \cup {None},
                at : 0..MaxClock, outcome : Outcomes \cup {"none"}]
  BY PlaneAssumption DEF Idle, OpKinds
<1>8. TypeOK
  BY <1>1, <1>2, <1>6, <1>7, PlaneAssumption DEF TypeOK, SnapshotType, Causes
<1>9. OpOK
  BY <1>1 DEF OpOK, Idle
<1>10. GateOK /\ DownOK
  BY <1>1, <1>4 DEF GateOK, DownOK
<1> QED BY <1>1, <1>3, <1>5, <1>8, <1>9, <1>10 DEF IInv

\* Every operation of service.ts, every failure in it, every crash and every
\* start keep the invariant.
LEMMA NextInv ==
    IInv /\ [Next]_vars => IInv'
<1> SUFFICES ASSUME IInv, [Next]_vars PROVE IInv'
  OBVIOUS
<1>1. CASE UNCHANGED vars
  BY <1>1 DEF IInv, TypeOK, OpOK, GateOK, DownOK, vars
<1> QED BY <1>1, PrepareStep, DeployStep, EnvironmentStep DEF Next

\* The invariant holds in every state of every behaviour.
THEOREM Invariance == Spec => []IInv
BY InitInv, NextInv, PTL DEF Spec

\* The tables, the gate and the operation in flight keep their types: no row
\* of a release is rewritten before it exists, whatever failed before.
THEOREM TypeCorrect == Spec => []TypeOK
<1>1. IInv => TypeOK
  BY DEF IInv
<1> QED BY <1>1, Invariance, PTL

\* The gate never serves a release that is not durably verified
\* (stageCandidate, commitCandidate, restoreVerified).
THEOREM GateNeverAhead == Spec => []GateServesVerified
<1>1. IInv => GateServesVerified
  BY DEF IInv, Serves, GateServesVerified
<1> QED BY <1>1, Invariance, PTL

\* At rest the gate of a healthy runtime serves the active release of the
\* database, so that previewBaseAgreesWithRuntime never fails.
THEOREM GateAgreesAtRest == Spec => []GateAgrees
<1>1. IInv => GateAgrees
  BY DEF IInv, OpOK, GateOK, GateAgrees, Idle
<1> QED BY <1>1, Invariance, PTL

-----------------------------------------------------------------------------
(* That the managed runtime is never idle over an unfinished deployment.   *)
(* An operation leaves at most its own release pending and its own claim   *)
(* open, so that after a crash there is one claim to recover, and the      *)
(* start accepts the database only when that was all.                      *)

\* Nothing waits for a readback and none is under way.
NothingOpen(d) == WithStatus(d, {"pending"}) = {} /\ ClaimedKeys(d) = {}

\* At most one readback is claimed, whoever claimed it.
OneClaim(d) == \A j, k \in ClaimedKeys(d) : j = k

\* What the operation in flight has left open so far.
OpenIsOfOp ==
    up /\ fatal = "none" =>
      /\ op.pc \in {"idle", "commit"} => NothingOpen(db)
      /\ op.pc \in {"stage", "observe"} => WithStatus(db, {"pending"}) \subseteq {op.release}
      /\ op.pc = "stage" => ClaimedKeys(db) = {}
      /\ op.pc = "observe" => ClaimedKeys(db) \subseteq {op.key}

SettledInv == IInv /\ OneClaim(db) /\ OpenIsOfOp

\* Every boot runs the recovery of the managed runtime.
AllManaged == 1..MaxBoot \subseteq ManagedBoots

\* A write to other tables leaves open what was.
LEMMA SameOpen ==
    ASSUME NEW d, NEW e, e.releases = d.releases, e.attempts = d.attempts
    PROVE  /\ WithStatus(e, {"pending"}) = WithStatus(d, {"pending"})
           /\ ClaimedKeys(e) = ClaimedKeys(d)
BY DEF WithStatus, Existing, ClaimedKeys

\* A publish leaves its release pending and claims nothing.
LEMMA PublishOpens ==
    ASSUME NEW d \in Database, NEW t \in Nat, NEW k \in Keys, NEW p \in Previews,
           NEW r \in Releases
    PROVE  LET e == PublishRelease(d, k, p, r, t) IN
           /\ WithStatus(e, {"pending"}) \subseteq WithStatus(d, {"pending"}) \cup {r}
           /\ ClaimedKeys(e) = ClaimedKeys(d)
<1> DEFINE e == PublishRelease(d, k, p, r, t)
<1>1. e.attempts = d.attempts
  BY DEF PublishRelease, WithEvent, Database
<1>2. \A s \in Releases \ {r} : e.releases[s] = d.releases[s]
  BY DEF PublishRelease, WithEvent, Database
<1> HIDE DEF e
<1>3. WithStatus(e, {"pending"}) \subseteq WithStatus(d, {"pending"}) \cup {r}
  BY <1>2 DEF WithStatus, Existing
<1>4. ClaimedKeys(e) = ClaimedKeys(d)
  BY <1>1 DEF ClaimedKeys
<1> QED BY <1>3, <1>4 DEF e

\* A claim opens its key and changes no release.
LEMMA ClaimOpens ==
    ASSUME NEW d \in Database, NEW t \in Nat, NEW k \in Keys, NEW r \in Releases, NEW b \in Nat
    PROVE  LET e == ClaimAttempt(d, k, r, b, t) IN
           /\ WithStatus(e, {"pending"}) = WithStatus(d, {"pending"})
           /\ ClaimedKeys(e) \subseteq ClaimedKeys(d) \cup {k}
<1> DEFINE e == ClaimAttempt(d, k, r, b, t)
<1>1. e.releases = d.releases
  BY DEF ClaimAttempt, Database
<1>2. \A j \in Keys \ {k} : e.attempts[j] = d.attempts[j]
  BY DEF ClaimAttempt, Database
<1> HIDE DEF e
<1>3. WithStatus(e, {"pending"}) = WithStatus(d, {"pending"})
  BY <1>1 DEF WithStatus, Existing
<1>4. ClaimedKeys(e) \subseteq ClaimedKeys(d) \cup {k}
  BY <1>2 DEF ClaimedKeys
<1> QED BY <1>3, <1>4 DEF e

\* An outcome closes its claim, and its release waits no longer.
LEMMA FinalizeCloses ==
    ASSUME NEW d \in Database, LineVerifies(d), NEW t \in Nat, NEW o \in Outcomes,
           NEW k \in Keys, d.attempts[k] # None, d.attempts[k].release \in Existing(d)
    PROVE  LET e == FinalizeAttempt(d, k, o, t) IN
           /\ WithStatus(e, {"pending"}) \subseteq WithStatus(d, {"pending"}) \ {d.attempts[k].release}
           /\ ClaimedKeys(e) = ClaimedKeys(d) \ {k}
<1> DEFINE e == FinalizeAttempt(d, k, o, t)
           r == d.attempts[k].release
<1>1. e.releases = Resolved(d, r, o)
  BY DEF FinalizeAttempt, WithEvent, Database
<1>2. \A j \in Keys \ {k} : e.attempts[j] = d.attempts[j]
  BY DEF FinalizeAttempt, WithEvent, Database
<1>3. e.attempts[k].phase = "finalized"
  <2>1. e.attempts[k] = [d.attempts[k] EXCEPT !.phase = "finalized", !.outcome = o]
    BY DEF FinalizeAttempt, WithEvent, Database
  <2>2. d.attempts[k] \in AttemptRow
    BY DEF Database
  <2> QED BY <2>1, <2>2 DEF AttemptRow
<1>4. ClaimedKeys(e) = ClaimedKeys(d) \ {k}
  <2> HIDE DEF e
  <2> QED BY <1>2, <1>3 DEF ClaimedKeys
<1>5. r \in Releases /\ d.releases[r] \in ReleaseRow
  BY DEF Existing, Database
<1>6. e.releases[r].status # "pending"
  <2>1. e.releases[r] = [d.releases[r] EXCEPT
               !.status = IF o = "verified" THEN "verified" ELSE "manual_review",
               !.outcome = o]
    BY <1>1, <1>5 DEF Resolved
  <2> QED BY <1>5, <2>1 DEF ReleaseRow
<1>7. ASSUME NEW s \in WithStatus(e, {"pending"})
      PROVE  s \in WithStatus(d, {"pending"}) \ {r}
  <2>1. s \in Releases /\ s # r /\ e.releases[s] # None /\ e.releases[s].status = "pending"
    BY <1>6, <1>7 DEF WithStatus, Existing
  <2>2. CASE o = "verified" /\ s = ActiveRelease(d)
    <3>1. e.releases[s] = [d.releases[s] EXCEPT !.status = "superseded", !.supersededBy = r]
      BY <1>1, <2>1, <2>2 DEF Resolved
    <3>2. d.releases[s] \in ReleaseRow
      BY <2>1, <2>2, StoreAssumption, ActiveIs DEF WithStatus, Existing, Database
    <3>3. e.releases[s].status = "superseded"
      BY <3>1, <3>2 DEF ReleaseRow
    <3> QED BY <2>1, <3>3
  <2>3. CASE ~(o = "verified" /\ s = ActiveRelease(d))
    <3>1. e.releases[s] = d.releases[s]
      BY <1>1, <2>1, <2>3 DEF Resolved
    <3> QED BY <2>1, <3>1 DEF WithStatus, Existing
  <2> QED BY <2>2, <2>3
<1> QED BY <1>4, <1>7

\* Between two operations: the database keeps its releases and its attempts.
LEMMA RestStep ==
    ASSUME SettledInv, IInv', Ready, NEW e, Transaction(e) \/ UNCHANGED db,
           e.releases = db.releases, e.attempts = db.attempts, UNCHANGED <<up, op>>
    PROVE  SettledInv'
<1>1. NothingOpen(db) /\ op = Idle
  BY DEF SettledInv, OpenIsOfOp, Ready, Idle
<1>2. db' = e \/ db' = db
  BY DEF Transaction, TripFatal
<1>3. NothingOpen(db')
  BY <1>1, <1>2, SameOpen DEF NothingOpen
<1> QED BY <1>1, <1>3 DEF SettledInv, OneClaim, OpenIsOfOp, NothingOpen, Idle

\* An operation that fails at once leaves everything as it is.
LEMMA TripsAtRest ==
    ASSUME SettledInv, IInv', Ready, NEW cause, TripFatal(cause), UNCHANGED <<volatile, op>>
    PROVE  SettledInv'
BY RestStep DEF TripFatal, volatile

\* A step that ends with the fatal error leaves no more than one claim open.
LEMMA FatalStep ==
    ASSUME IInv', OneClaim(db'), fatal' # "none" \/ up' = FALSE
    PROVE  SettledInv'
BY DEF SettledInv, OpenIsOfOp

\* Registrations, previews and approvals open nothing.
LEMMA PrepareSettled ==
    ASSUME SettledInv, IInv', Prepare
    PROVE  SettledInv'
<1>0. db \in Database
  BY DEF SettledInv, IInv, TypeOK
<1>1. ASSUME NEW m \in ModuleSets, Register(m) PROVE SettledInv'
  <2>1. /\ RegisterModule(db, m, clock).releases = db.releases
        /\ RegisterModule(db, m, clock).attempts = db.attempts
    BY <1>0 DEF RegisterModule, WithEvent, Database
  <2> QED BY <1>1, <2>1, RestStep DEF Register, volatile
<1>2. ASSUME NEW p \in Previews, NEW a \in Actors, NEW m \in ModuleSets,
             NEW t \in Releases \cup {None}, CreatePreview(p, a, m, t)
      PROVE  SettledInv'
  <2> DEFINE row == [creator |-> a, base |-> snapshot.release,
                     baseRevision |-> snapshot.revision, desired |-> m,
                     target |-> t, expiresAt |-> clock + Ttl, consumed |-> FALSE]
             e == InsertPreview(db, p, row, clock)
  <2>1. e.releases = db.releases /\ e.attempts = db.attempts
    BY <1>0 DEF InsertPreview, WithEvent, Database
  <2>2. Ready /\ (TripFatal("disagreement") \/ Transaction(e)) /\ UNCHANGED <<volatile, op>>
    BY <1>2 DEF CreatePreview
  <2> HIDE DEF e
  <2> QED BY <2>1, <2>2, RestStep, TripsAtRest DEF volatile
<1>3. ASSUME NEW p \in Previews, NEW a \in Actors, NEW decision \in {"approve", "reject"},
             Decide(p, a, decision)
      PROVE  SettledInv'
  <2> DEFINE row == [approver |-> a, decision |-> decision, consumed |-> FALSE]
             e == InsertApproval(db, p, row, clock)
  <2>1. e.releases = db.releases /\ e.attempts = db.attempts
    BY <1>0 DEF InsertApproval, WithEvent, Database
  <2>2. Ready /\ Transaction(e) /\ UNCHANGED <<volatile, op>>
    BY <1>3 DEF Decide
  <2> HIDE DEF e
  <2> QED BY <2>1, <2>2, RestStep DEF volatile
<1>4. ASSUME NEW p \in Previews, ReplayPreview(p) \/ ReplayDecision(p) PROVE SettledInv'
  BY <1>4, TripsAtRest DEF ReplayPreview, ReplayDecision
<1> QED BY <1>1, <1>2, <1>3, <1>4 DEF Prepare

\* A publish opens its release, or fails.
LEMMA PublishSettled ==
    ASSUME SettledInv, IInv', NEW k \in PublishKeys, NEW p \in Previews, NEW q \in Previews,
           NEW r \in Releases, Publish(k, p, q, r)
    PROVE  SettledInv'
<1> DEFINE e == PublishRelease(db, k, p, r, clock)
<1>1. /\ Ready /\ UNCHANGED volatile
      /\ \/ TripFatal("mismatched_request") /\ UNCHANGED op
         \/ TripFatal("disagreement") /\ UNCHANGED op
         \/ /\ Transaction(e)
            /\ IF fatal' = "none" THEN Begin("publish", k, r) ELSE UNCHANGED op
  BY DEF Publish
<1>2. db \in Database /\ clock \in Nat /\ k \in Keys
  BY PlaneAssumption DEF SettledInv, IInv, TypeOK, Keys
<1>3. NothingOpen(db) /\ op = Idle
  BY <1>1 DEF SettledInv, OpenIsOfOp, Ready, Idle
<1>4. WithStatus(e, {"pending"}) \subseteq {r} /\ ClaimedKeys(e) = {}
  BY <1>2, <1>3, PublishOpens DEF NothingOpen
<1> HIDE DEF e
<1>5. CASE (TripFatal("mismatched_request") \/ TripFatal("disagreement")) /\ UNCHANGED op
  BY <1>1, <1>5, TripsAtRest
<1>6. CASE Transaction(e) /\ fatal' = "none" /\ Begin("publish", k, r)
  <2>1. db' = e
    BY <1>6 DEF Transaction, TripFatal
  <2>2. op'.pc = "stage" /\ op'.release = r
    BY <1>6 DEF Begin
  <2> QED BY <1>4, <2>1, <2>2 DEF SettledInv, OneClaim, OpenIsOfOp
<1>7. CASE Transaction(e) /\ fatal' # "none"
  <2>1. db' = e \/ db' = db
    BY <1>7 DEF Transaction, TripFatal
  <2>2. OneClaim(db')
    BY <1>3, <1>4, <2>1 DEF OneClaim, NothingOpen
  <2> QED BY <1>7, <2>2, FatalStep
<1> QED BY <1>1, <1>5, <1>6, <1>7

\* The claim is the operation's own.
LEMMA StageSettled ==
    ASSUME SettledInv, IInv', StageAndClaim
    PROVE  SettledInv'
<1> DEFINE r == op.release
           e == ClaimAttempt(db, op.key, r, boot, op.at)
<1>1. /\ op.pc = "stage" /\ Continue("observe", Candidate(db, r))
      /\ \/ CriticalTransaction(e)
         \/ TripFatal("clock") \/ TripFatal("disagreement")
  BY DEF StageAndClaim
<1>2. /\ db \in Database /\ op.at \in Nat /\ op.key \in Keys /\ r \in Releases /\ boot \in Nat
      /\ up /\ fatal = "none"
  BY <1>1, PlaneAssumption DEF SettledInv, IInv, TypeOK, OpOK, Existing
<1>3. WithStatus(db, {"pending"}) \subseteq {r} /\ ClaimedKeys(db) = {}
  BY <1>1, <1>2 DEF SettledInv, OpenIsOfOp
<1>4. WithStatus(e, {"pending"}) \subseteq {r} /\ ClaimedKeys(e) \subseteq {op.key}
  BY <1>2, <1>3, ClaimOpens
<1> HIDE DEF e
<1>5. db' = e \/ (db' = db /\ fatal' # "none")
  BY <1>1 DEF CriticalTransaction, Transaction, TripFatal
<1>6. OneClaim(db')
  BY <1>3, <1>4, <1>5 DEF OneClaim
<1>7. CASE fatal' = "none"
  <2>1. op' = [op EXCEPT !.pc = "observe"]
    BY <1>1, <1>7 DEF Continue
  <2>2. op'.pc = "observe" /\ op'.release = r /\ op'.key = op.key
    BY <2>1 DEF SettledInv, IInv, TypeOK
  <2> QED BY <1>4, <1>5, <1>6, <1>7, <2>2 DEF SettledInv, OpenIsOfOp
<1> QED BY <1>6, <1>7, FatalStep

\* The outcome closes what the operation has opened.
LEMMA ObserveSettled ==
    ASSUME SettledInv, IInv', NEW o \in ReadbackOutcomes, ObserveAndFinalize(o)
    PROVE  SettledInv'
<1> DEFINE r == op.release
           k == op.key
           e == FinalizeAttempt(db, k, o, op.at)
<1>1. /\ op.pc = "observe"
      /\ CriticalTransaction(e) \/ TripFatal("clock")
      /\ fatal' = "none" => op' = [op EXCEPT !.pc = "commit", !.outcome = o]
  BY DEF ObserveAndFinalize
<1>2. /\ db \in Database /\ LineVerifies(db) /\ op.at \in Nat /\ k \in Keys /\ o \in Outcomes
      /\ up /\ fatal = "none" /\ db.attempts[k] # None
      /\ db.attempts[k].release = r /\ r \in Existing(db)
  BY <1>1, PlaneAssumption DEF SettledInv, IInv, TypeOK, OpOK, Verifies
<1>3. WithStatus(db, {"pending"}) \subseteq {r} /\ ClaimedKeys(db) \subseteq {k}
  BY <1>1, <1>2 DEF SettledInv, OpenIsOfOp
<1>4. NothingOpen(e)
  BY <1>2, <1>3, FinalizeCloses DEF NothingOpen
<1> HIDE DEF e
<1>5. db' = e \/ (db' = db /\ fatal' # "none")
  BY <1>1 DEF CriticalTransaction, Transaction, TripFatal
<1>6. OneClaim(db')
  BY <1>3, <1>4, <1>5 DEF OneClaim, NothingOpen
<1>7. CASE fatal' = "none"
  <2>1. op'.pc = "commit"
    BY <1>1, <1>7 DEF SettledInv, IInv, TypeOK
  <2> QED BY <1>4, <1>5, <1>6, <1>7, <2>1 DEF SettledInv, OpenIsOfOp
<1> QED BY <1>6, <1>7, FatalStep

\* The operations and what they end with.
LEMMA DeploySettled ==
    ASSUME SettledInv, IInv', Deploy
    PROVE  SettledInv'
<1>1. ASSUME NEW kind, NEW k, NEW r, Ready, Begin(kind, k, r), UNCHANGED <<db, fatal>>,
             UNCHANGED volatile
      PROVE  SettledInv'
  <2>1. NothingOpen(db) /\ op'.pc = "stage"
    BY <1>1 DEF SettledInv, OpenIsOfOp, Ready, Idle, Begin
  <2> QED BY <1>1, <2>1 DEF SettledInv, OpenIsOfOp, NothingOpen, OneClaim
<1>2. ASSUME NEW k \in PublishKeys, Resume(k) PROVE SettledInv'
  <2>1. /\ Ready /\ UNCHANGED volatile
        /\ \/ Begin("resume", k, db.idem[k].release) /\ UNCHANGED <<db, fatal>>
           \/ TripFatal("disagreement") /\ UNCHANGED op
    BY <1>2 DEF Resume
  <2> QED BY <1>1, <2>1, TripsAtRest
<1>3. ASSUME NEW k \in ReconcileKeys, NEW r \in Releases, Reconcile(k, r) PROVE SettledInv'
  <2>1. /\ Ready /\ UNCHANGED volatile
        /\ \/ Begin("reconcile", k, r) /\ UNCHANGED <<db, fatal>>
           \/ TripFatal("nothing_unresolved") /\ UNCHANGED op
           \/ TripFatal("disagreement") /\ UNCHANGED op
    BY <1>3 DEF Reconcile
  <2> QED BY <1>1, <2>1, TripsAtRest
<1>4. ASSUME NEW k \in Keys, ReplayPublish(k) \/ ReplayReconcile(k) PROVE SettledInv'
  BY <1>4, TripsAtRest DEF ReplayPublish, ReplayReconcile
<1>5. ASSUME CommitGate PROVE SettledInv'
  <2>1. db' = db /\ op' = Idle /\ op.pc = "commit" /\ fatal = "none" /\ up
    BY <1>5 DEF CommitGate, TripFatal, SettledInv, IInv, OpOK
  <2> QED BY <2>1 DEF SettledInv, OpenIsOfOp, Idle
<1> QED BY <1>2, <1>3, <1>4, <1>5, PublishSettled, StageSettled, ObserveSettled DEF Deploy, Keys

\* The recovery of a managed start closes the one claim there may be.
LEMMA RecoveredCloses ==
    ASSUME SettledInv
    PROVE  ClaimedKeys(Recovered) = {}
<1>1. CASE ClaimedKeys(db) = {}
  BY <1>1 DEF Recovered
<1>2. CASE ClaimedKeys(db) # {}
  <2>1. PICK k \in ClaimedKeys(db) : Recovered = FinalizeAttempt(db, k, "interrupted", clock)
    BY <1>2 DEF Recovered
  <2>2. /\ db \in Database /\ LineVerifies(db) /\ clock \in Nat /\ "interrupted" \in Outcomes
        /\ k \in Keys /\ db.attempts[k] # None /\ db.attempts[k] \in AttemptRow
    BY PlaneAssumption DEF SettledInv, IInv, TypeOK, Verifies, Outcomes, ClaimedKeys, Database
  <2>3. db.attempts[k].release \in Existing(db)
    BY <2>2 DEF SettledInv, IInv, Verifies, AttemptVerifies, Existing, AttemptRow
  <2>4. ClaimedKeys(db) = {k}
    BY <2>1 DEF SettledInv, OneClaim
  <2> QED BY <2>1, <2>2, <2>3, <2>4, FinalizeCloses
<1> QED BY <1>1, <1>2

\* A crash leaves one claim at most; a managed start is refused over more than
\* its recovery settles.
LEMMA EnvironmentSettled ==
    ASSUME SettledInv, AllManaged, IInv', Environment
    PROVE  SettledInv'
<1>1. CASE Crash
  BY <1>1, FatalStep DEF Crash, SettledInv
<1>2. CASE Start
  <2>1. NextIsManaged
    BY <1>2 DEF Start, SettledInv, IInv, TypeOK, DownOK, AllManaged, NextIsManaged
  <2>2. db' = Recovered /\ WithStatus(db', {"pending"}) = {} /\ op' = op
    BY <1>2, <2>1 DEF Start, StartupAccepts
  <2>3. op = Idle
    BY <1>2 DEF Start, SettledInv, IInv, DownOK
  <2>4. NothingOpen(db')
    BY <2>2, RecoveredCloses DEF NothingOpen
  <2> QED BY <2>2, <2>3, <2>4 DEF SettledInv, OpenIsOfOp, OneClaim, NothingOpen, Idle
<1>3. CASE StartRefused
  <2>1. db' = Recovered /\ up' = FALSE
    BY <1>3 DEF StartRefused, SettledInv, IInv, TypeOK
  <2> QED BY <2>1, RecoveredCloses, FatalStep DEF OneClaim
<1>4. CASE Tick
  BY <1>4 DEF Tick, SettledInv, OpenIsOfOp
<1> QED BY <1>1, <1>2, <1>3, <1>4 DEF Environment

\* Nothing is open in an empty database.
LEMMA SettledInit == Init => SettledInv
<1>1. Init => ClaimedKeys(db) = {} /\ WithStatus(db, {"pending"}) = {}
  BY DEF Init, EmptyDatabase, ClaimedKeys, WithStatus, Existing
<1> QED BY <1>1, InitInv DEF Init, Idle, SettledInv, OneClaim, OpenIsOfOp, NothingOpen

\* Every step keeps the invariant.
LEMMA SettledNext ==
    ASSUME AllManaged, SettledInv, [Next]_vars
    PROVE  SettledInv'
<1>1. IInv'
  BY NextInv DEF SettledInv
<1>2. CASE UNCHANGED vars
  BY <1>1, <1>2 DEF vars, SettledInv, OpenIsOfOp
<1> QED BY <1>1, <1>2, PrepareSettled, DeploySettled, EnvironmentSettled DEF Next

\* With every boot managed, whatever fails, crashes or is refused: an idle
\* runtime has no release that waits for its readback and no readback that
\* waits for its outcome (recoverPriorBootReadbackAttempts, prepareManagedState).
THEOREM IdleStaysSettled ==
    ASSUME AllManaged
    PROVE  Spec => []IdleIsSettled
<1>1. Init => SettledInv
  BY SettledInit
<1>2. SettledInv /\ [Next]_vars => SettledInv'
  BY SettledNext
<1>3. SettledInv => IdleIsSettled
  BY DEF SettledInv, OpenIsOfOp, NothingOpen, IdleIsSettled, Idle
<1> QED BY <1>1, <1>2, <1>3, PTL DEF Spec

-----------------------------------------------------------------------------
(* The refinement of ReleaseLine.  That the settled releases have the      *)
(* revisions 1..n is no consequence of the verifier's local checks but of  *)
(* how they came to be, so it is part of the invariant.                    *)

\* The releases that have joined the line, and how many they are.
Joined(d) == WithStatus(d, Settled)
Length(d) == Cardinality(Joined(d))

\* The line and its candidate, as the refinement reads them from a database.
At(d, i)    == CHOOSE r \in Joined(d) : d.releases[r].revision = i
LineOf(d)   == [i \in 1..Length(d) |-> d.releases[At(d, i)].desired]
WaitsIn(d)  == IF NewestUnresolved(d) = None THEN None ELSE d.releases[NewestUnresolved(d)].desired

\* Those that joined are numbered without a gap, the active release is the
\* last of them and the unresolved one is numbered next.
InLine(d) ==
    /\ IsFiniteSet(Joined(d))
    /\ \A r \in Joined(d) : d.releases[r].revision \in 1..Length(d)
    /\ \A r, s \in Joined(d) : d.releases[r].revision = d.releases[s].revision => r = s
    /\ \A i \in 1..Length(d) : \E r \in Joined(d) : d.releases[r].revision = i
    /\ \A r \in WithStatus(d, {"verified"}) : d.releases[r].revision = Length(d)
    /\ Joined(d) # {} => WithStatus(d, {"verified"}) # {}
    /\ \A r \in WithStatus(d, Unresolved) : d.releases[r].revision = Length(d) + 1

\* A proven candidate that is not served yet is the next the gate follows to.
LineInv ==
    /\ IInv
    /\ InLine(db)
    /\ op.pc = "commit" /\ stage.proof => snapshot.revision + 1 = Length(db)

\* A write that lets the line and its candidate be.
SameLine(d, e) ==
    /\ \A S \in {Settled, {"verified"}, Unresolved} : WithStatus(e, S) = WithStatus(d, S)
    /\ \A r \in Existing(d) : /\ e.releases[r].revision = d.releases[r].revision
                              /\ e.releases[r].desired = d.releases[r].desired

\* The verifier leaves at most one release unresolved, and it is the newest.
LEMMA UnresolvedIs ==
    ASSUME NEW d \in Database, LineVerifies(d)
    PROVE  /\ \A r \in WithStatus(d, Unresolved) : NewestUnresolved(d) = r
           /\ WithStatus(d, Unresolved) = {} => NewestUnresolved(d) = None
           /\ NewestUnresolved(d) # None => NewestUnresolved(d) \in WithStatus(d, Unresolved)
<1> DEFINE U == WithStatus(d, Unresolved)
<1>1. U = {} => NewestUnresolved(d) = None
  BY DEF NewestUnresolved, Newest
<1>2. ASSUME NEW r \in U
      PROVE  NewestUnresolved(d) = r
  <2>1. U = {r}
    BY <1>2 DEF LineVerifies
  <2>2. Revision(d, r) \in Nat
    BY <1>2, StoreAssumption DEF Revision, WithStatus, Existing, Database, ReleaseRow
  <2>3. NewestUnresolved(d) = CHOOSE x \in U : \A s \in U : Revision(d, s) <= Revision(d, x)
    BY <1>2 DEF NewestUnresolved, Newest
  <2>4. \A s \in U : Revision(d, s) <= Revision(d, r)
    BY <2>1, <2>2
  <2> HIDE DEF U
  <2> QED BY <2>1, <2>3, <2>4
<1> QED BY <1>1, <1>2

\* The length of the line is a number.
LEMMA LengthIsNat ==
    ASSUME NEW d, InLine(d)
    PROVE  Length(d) \in Nat
BY FS_CardinalityType DEF InLine, Length

\* A release stands on the line at its revision.
LEMMA AtIs ==
    ASSUME NEW d, InLine(d), NEW r \in Joined(d), NEW i, d.releases[r].revision = i
    PROVE  At(d, i) = r
BY DEF At, InLine

\* The line is a sequence of module sets as long as it has releases.
LEMMA LineIsSeq ==
    ASSUME NEW d \in Database, InLine(d)
    PROVE  LineOf(d) \in Seq(ModuleSets) /\ Len(LineOf(d)) = Length(d)
<1>1. Length(d) \in Nat
  BY LengthIsNat
<1>2. ASSUME NEW i \in 1..Length(d)
      PROVE  d.releases[At(d, i)].desired \in ModuleSets
  <2>1. PICK r \in Joined(d) : d.releases[r].revision = i
    BY DEF InLine
  <2>2. At(d, i) = r /\ d.releases[r] \in ReleaseRow
    BY <2>1, AtIs DEF Joined, WithStatus, Existing, Database
  <2> QED BY <2>2 DEF ReleaseRow
<1> QED BY <1>1, <1>2 DEF LineOf

\* Such a write leaves the numbers of the releases as they were.
LEMMA SameLineNumbers ==
    ASSUME NEW d, NEW e, InLine(d), SameLine(d, e)
    PROVE  /\ InLine(e) /\ Length(e) = Length(d) /\ Joined(e) = Joined(d)
           /\ \A r \in Joined(d) : /\ e.releases[r].revision = d.releases[r].revision
                                 /\ e.releases[r].desired = d.releases[r].desired
<1>1. /\ Joined(e) = Joined(d) /\ Length(e) = Length(d)
      /\ WithStatus(e, {"verified"}) = WithStatus(d, {"verified"})
      /\ WithStatus(e, Unresolved) = WithStatus(d, Unresolved)
  BY DEF SameLine, Joined, Length
<1>2. /\ \A r \in Joined(d) : /\ e.releases[r].revision = d.releases[r].revision
                              /\ e.releases[r].desired = d.releases[r].desired
      /\ \A r \in WithStatus(d, {"verified"}) : e.releases[r].revision = d.releases[r].revision
      /\ \A r \in WithStatus(d, Unresolved) : e.releases[r].revision = d.releases[r].revision
  BY DEF SameLine, Joined, WithStatus
<1>3. InLine(e)
  BY <1>1, <1>2 DEF InLine
<1> QED BY <1>1, <1>2, <1>3

\* Such a write leaves the line, the candidate and what they rest on.
LEMMA SameLineKept ==
    ASSUME NEW d \in Database, LineVerifies(d), NEW e \in Database, LineVerifies(e),
           InLine(d), SameLine(d, e)
    PROVE  InLine(e) /\ Length(e) = Length(d) /\ LineOf(e) = LineOf(d) /\ WaitsIn(e) = WaitsIn(d)
<1>1. /\ InLine(e) /\ Length(e) = Length(d) /\ Joined(e) = Joined(d)
      /\ \A r \in Joined(d) : /\ e.releases[r].revision = d.releases[r].revision
                              /\ e.releases[r].desired = d.releases[r].desired
  BY SameLineNumbers
<1>2. /\ WithStatus(e, Unresolved) = WithStatus(d, Unresolved)
      /\ \A r \in WithStatus(d, Unresolved) : e.releases[r].desired = d.releases[r].desired
  BY DEF SameLine, WithStatus
<1>4. ASSUME NEW i \in 1..Length(d)
      PROVE  e.releases[At(e, i)].desired = d.releases[At(d, i)].desired
  <2>1. PICK r \in Joined(d) : d.releases[r].revision = i
    BY DEF InLine
  <2>2. At(d, i) = r /\ At(e, i) = r
    BY <1>1, <2>1, AtIs
  <2> QED BY <1>1, <2>1, <2>2
<1>5. LineOf(e) = LineOf(d)
  BY <1>1, <1>4 DEF LineOf
<1>6. NewestUnresolved(e) = NewestUnresolved(d)
  BY <1>2, UnresolvedIs
<1>7. WaitsIn(e) = WaitsIn(d)
  BY <1>2, <1>6, UnresolvedIs DEF WaitsIn
<1> QED BY <1>1, <1>5, <1>7

\* A write that leaves the releases alone is one of those.
LEMMA SameReleasesSameLine ==
    ASSUME NEW d, NEW e, e.releases = d.releases
    PROVE  SameLine(d, e)
BY DEF SameLine, WithStatus, Existing

\* The active release is the end of the line.
LEMMA ActiveIsLast ==
    ASSUME NEW d \in Database, LineVerifies(d), InLine(d)
    PROVE  /\ ActiveSnapshot(d).revision = Length(d)
           /\ Revision(d, ActiveRelease(d)) = Length(d)
<1>1. CASE WithStatus(d, {"verified"}) = {}
  <2>1. Joined(d) = {} /\ ActiveRelease(d) = None
    BY <1>1, ActiveIs DEF InLine
  <2>2. Length(d) = 0
    BY <2>1, FS_EmptySet DEF Length
  <2> QED BY <2>1, <2>2 DEF ActiveSnapshot, Inactive, Revision
<1>2. CASE WithStatus(d, {"verified"}) # {}
  <2>1. PICK r \in WithStatus(d, {"verified"}) : TRUE
    BY <1>2
  <2>2. ActiveRelease(d) = r /\ r # None /\ d.releases[r].revision = Length(d)
    BY <2>1, ActiveIs, StoreAssumption DEF InLine, WithStatus, Existing
  <2> QED BY <2>2 DEF ActiveSnapshot, Revision
<1> QED BY <1>1, <1>2

\* The row of the release that a publish of preview p makes.
NewRelease(d, p, t) ==
    [status       |-> "pending",
     revision     |-> d.previews[p].baseRevision + 1,
     previous     |-> d.previews[p].base,
     preview      |-> p,
     desired      |-> d.previews[p].desired,
     createdAt    |-> t,
     outcome      |-> None,
     supersededBy |-> None]

\* A publish numbers its release next and leaves the others as they were.
LEMMA PublishRows ==
    ASSUME NEW d \in Database, LineVerifies(d), InLine(d), NEW t \in Nat, NEW k \in Keys,
           NEW p \in Previews, NEW r \in Releases \ Existing(d), d.previews[p] # None,
           NewestUnresolved(d) = None,
           d.previews[p].baseRevision = Revision(d, ActiveRelease(d))
    PROVE  LET e == PublishRelease(d, k, p, r, t)
               row == NewRelease(d, p, t)
           IN
           /\ row \in ReleaseRow /\ row.revision = Length(d) + 1
           /\ e.releases[r] = row /\ d.releases[r] = None
           /\ \A s \in Releases \ {r} : e.releases[s] = d.releases[s]
           /\ Existing(e) = Existing(d) \cup {r}
           /\ WithStatus(d, Unresolved) = {} /\ WithStatus(e, Unresolved) = {r}
           /\ WithStatus(e, {"verified"}) = WithStatus(d, {"verified"})
           /\ Joined(e) = Joined(d) /\ Length(e) = Length(d)
           /\ InLine(e)
<1> DEFINE e == PublishRelease(d, k, p, r, t)
           row == NewRelease(d, p, t)
<1>1. e.releases = [d.releases EXCEPT ![r] = row]
  BY DEF PublishRelease, WithEvent, Database, NewRelease
<1>2. row \in ReleaseRow
  <2>1. d.previews[p] \in PreviewRow
    BY DEF Database
  <2> QED BY <2>1 DEF ReleaseRow, PreviewRow, Unresolved, NewRelease
<1>3. row.status = "pending" /\ row.revision = Length(d) + 1 /\ row # None
  BY <1>2, ActiveIsLast, RowAssumption DEF NewRelease
<1>4. /\ \A s \in Releases \ {r} : e.releases[s] = d.releases[s]
      /\ e.releases[r] = row /\ d.releases[r] = None
  BY <1>1 DEF Database, Existing
<1>5. WithStatus(d, Unresolved) = {}
  BY UnresolvedIs, StoreAssumption DEF WithStatus, Existing
<1> HIDE DEF e, row
<1>6. /\ Existing(e) = Existing(d) \cup {r}
      /\ WithStatus(e, Settled) = WithStatus(d, Settled)
      /\ WithStatus(e, {"verified"}) = WithStatus(d, {"verified"})
      /\ WithStatus(e, Unresolved) = {r}
  <2>1. \A s \in Existing(d) : s # r
    BY <1>4 DEF Existing
  <2>2. Existing(e) = Existing(d) \cup {r}
    BY <1>3, <1>4 DEF Existing
  <2> QED BY <1>3, <1>4, <1>5, <2>1, <2>2 DEF WithStatus, Settled, Unresolved, Existing
<1>7. Joined(e) = Joined(d) /\ Length(e) = Length(d)
  BY <1>6 DEF Joined, Length
<1>8. \A s \in Joined(d) \cup WithStatus(d, {"verified"}) : e.releases[s] = d.releases[s]
  BY <1>4 DEF Joined, WithStatus, Existing
<1>9. InLine(e)
  BY <1>3, <1>4, <1>6, <1>7, <1>8 DEF InLine
<1> QED BY <1>2, <1>3, <1>4, <1>5, <1>6, <1>7, <1>9 DEF e, row

\* A publish puts its release up as the candidate and leaves the line.
LEMMA PublishProposes ==
    ASSUME NEW d \in Database, LineVerifies(d), InLine(d), NEW t \in Nat, NEW k \in Keys,
           NEW p \in Previews, NEW r \in Releases \ Existing(d), d.previews[p] # None,
           NewestUnresolved(d) = None,
           d.previews[p].baseRevision = Revision(d, ActiveRelease(d)),
           LineVerifies(PublishRelease(d, k, p, r, t)), PublishRelease(d, k, p, r, t) \in Database
    PROVE  LET e == PublishRelease(d, k, p, r, t) IN
           /\ InLine(e) /\ Length(e) = Length(d) /\ LineOf(e) = LineOf(d)
           /\ WaitsIn(d) = None /\ WaitsIn(e) \in ModuleSets
<1> DEFINE e == PublishRelease(d, k, p, r, t)
<1>1. /\ e.releases[r] \in ReleaseRow /\ d.releases[r] = None
      /\ \A s \in Releases \ {r} : e.releases[s] = d.releases[s]
      /\ WithStatus(e, Unresolved) = {r}
      /\ Joined(e) = Joined(d) /\ Length(e) = Length(d)
      /\ InLine(e)
  BY PublishRows
<1>2. WaitsIn(d) = None
  BY DEF WaitsIn
<1>3. e \in Database /\ LineVerifies(e)
  OBVIOUS
<1> HIDE DEF e
<1>4. \A s \in Joined(d) : e.releases[s] = d.releases[s]
  BY <1>1 DEF Joined, WithStatus, Existing
<1>5. LineOf(e) = LineOf(d)
  <2>1. ASSUME NEW i \in 1..Length(d)
        PROVE  e.releases[At(e, i)].desired = d.releases[At(d, i)].desired
    <3>1. PICK s \in Joined(d) : d.releases[s].revision = i
      BY DEF InLine
    <3>2. At(d, i) = s /\ At(e, i) = s
      BY <1>1, <1>4, <3>1, AtIs
    <3> QED BY <1>4, <3>2
  <2> QED BY <1>1, <2>1 DEF LineOf
<1>6. WaitsIn(e) \in ModuleSets
  <2>1. NewestUnresolved(e) = r /\ r # None
    BY <1>1, <1>3, UnresolvedIs, StoreAssumption
  <2> QED BY <1>1, <2>1 DEF WaitsIn, ReleaseRow
<1> QED BY <1>1, <1>2, <1>5, <1>6 DEF e

\* What a readback makes of the rows of its release and of the active one.
RowsResolved(d, e, r, o) ==
    /\ Existing(e) = Existing(d)
    /\ \A s \in Existing(d) : /\ e.releases[s].revision = d.releases[s].revision
                              /\ e.releases[s].desired = d.releases[s].desired
                              /\ e.releases[s].preview = d.releases[s].preview
                              /\ e.releases[s].previous = d.releases[s].previous
                              /\ e.releases[s].createdAt = d.releases[s].createdAt
    /\ e.releases[r].outcome = o
    /\ \A s \in Existing(d) \ {r} :
         IF o = "verified" /\ s = ActiveRelease(d) THEN e.releases[s].supersededBy = r
         ELSE e.releases[s] = d.releases[s]
    /\ e.releases[r].status = IF o = "verified" THEN "verified" ELSE "manual_review"
    /\ \A s \in Existing(d) \ {r} :
         e.releases[s].status = IF o = "verified" /\ s = ActiveRelease(d) THEN "superseded"
                                ELSE d.releases[s].status

\* A readback does so.
LEMMA ResolvedRows ==
    ASSUME NEW d \in Database, LineVerifies(d), NEW t \in Nat, NEW o \in Outcomes,
           NEW k \in Keys, NEW r \in Existing(d),
           d.attempts[k].release = r, d.releases[r].status \in Unresolved
    PROVE  RowsResolved(d, FinalizeAttempt(d, k, o, t), r, o)
<1> DEFINE e == FinalizeAttempt(d, k, o, t)
           new == [d.releases[r] EXCEPT
                     !.status = IF o = "verified" THEN "verified" ELSE "manual_review",
                     !.outcome = o]
           old(s) == [d.releases[s] EXCEPT !.status = "superseded", !.supersededBy = r]
           a == ActiveRelease(d)
<1>1. e.releases = Resolved(d, r, o)
  BY DEF FinalizeAttempt, WithEvent, Database
<1>2. r \in Releases /\ d.releases[r] \in ReleaseRow
  BY DEF Database, Existing
<1>3. e.releases[r] = new
  BY <1>1, <1>2 DEF Resolved
<1>4. \A s \in Releases \ {r} :
        e.releases[s] = IF o = "verified" /\ s = a THEN old(s) ELSE d.releases[s]
  BY <1>1 DEF Resolved
<1>5. /\ new.status = IF o = "verified" THEN "verified" ELSE "manual_review"
      /\ new.revision = d.releases[r].revision
      /\ new.desired = d.releases[r].desired
      /\ new.preview = d.releases[r].preview
      /\ new.previous = d.releases[r].previous
      /\ new.createdAt = d.releases[r].createdAt
      /\ new.outcome = o
      /\ new \in ReleaseRow
  BY <1>2 DEF ReleaseRow, Settled, Unresolved
<1>6. \A s \in Existing(d) :
        /\ old(s).status = "superseded"
        /\ old(s).revision = d.releases[s].revision
        /\ old(s).desired = d.releases[s].desired
        /\ old(s).preview = d.releases[s].preview
        /\ old(s).previous = d.releases[s].previous
        /\ old(s).createdAt = d.releases[s].createdAt
        /\ old(s).supersededBy = r
        /\ old(s) \in ReleaseRow
  <2> TAKE s \in Existing(d)
  <2>1. s \in Releases /\ d.releases[s] \in ReleaseRow
    BY DEF Existing, Database
  <2> QED BY <1>2, <2>1 DEF ReleaseRow, Settled, Unresolved
<1>7. a \in Releases => a \in Existing(d)
  BY ActiveIs, StoreAssumption DEF WithStatus
<1> HIDE DEF e, new, old, a
<1>8. Existing(e) = Existing(d)
  BY <1>2, <1>3, <1>4, <1>5, <1>6, <1>7, RowAssumption DEF Existing
<1>9. \A s \in Existing(d) \ {r} :
        e.releases[s] = IF o = "verified" /\ s = a THEN old(s) ELSE d.releases[s]
  BY <1>4 DEF Existing
<1> QED BY <1>3, <1>5, <1>6, <1>8, <1>9 DEF RowsResolved, e, a

\* Any outcome but a verified one leaves line and candidate.
LEMMA OtherOutcomeStays ==
    ASSUME NEW d \in Database, LineVerifies(d), NEW t \in Nat, NEW o \in Outcomes \ {"verified"},
           NEW k \in Keys, NEW r \in Existing(d),
           d.attempts[k].release = r, d.releases[r].status \in Unresolved
    PROVE  SameLine(d, FinalizeAttempt(d, k, o, t))
<1> DEFINE e == FinalizeAttempt(d, k, o, t)
<1>0. RowsResolved(d, e, r, o)
  BY ResolvedRows
<1> HIDE DEF e
<1>1. /\ Existing(e) = Existing(d)
      /\ \A s \in Existing(d) : /\ e.releases[s].revision = d.releases[s].revision
                                /\ e.releases[s].desired = d.releases[s].desired
      /\ e.releases[r].status = "manual_review"
      /\ \A s \in Existing(d) \ {r} : e.releases[s].status = d.releases[s].status
  BY <1>0 DEF RowsResolved
<1>2. \A s \in Existing(d) : /\ e.releases[s].status \in Unresolved <=> d.releases[s].status \in Unresolved
                             /\ e.releases[s].status \in Settled <=> d.releases[s].status \in Settled
                             /\ e.releases[s].status = "verified" <=> d.releases[s].status = "verified"
  BY <1>1 DEF Unresolved, Settled
<1>3. /\ WithStatus(e, Settled) = WithStatus(d, Settled)
      /\ WithStatus(e, Unresolved) = WithStatus(d, Unresolved)
      /\ WithStatus(e, {"verified"}) = WithStatus(d, {"verified"})
  BY <1>1, <1>2 DEF WithStatus
<1> QED BY <1>1, <1>3 DEF SameLine, e

\* A verified readback numbers its release the last of the line.
LEMMA JoinNumbers ==
    ASSUME NEW d \in Database, LineVerifies(d), InLine(d), NEW t \in Nat,
           NEW k \in Keys, NEW r \in Existing(d),
           d.attempts[k].release = r, d.releases[r].status \in Unresolved
    PROVE  LET e == FinalizeAttempt(d, k, "verified", t) IN
           /\ InLine(e) /\ Length(e) = Length(d) + 1 /\ Length(d) \in Nat
           /\ Joined(e) = Joined(d) \cup {r} /\ WithStatus(e, Unresolved) = {}
           /\ WithStatus(e, {"verified"}) = {r}
           /\ \A s \in Existing(d) : /\ e.releases[s].revision = d.releases[s].revision
                                     /\ e.releases[s].desired = d.releases[s].desired
           /\ d.releases[r].revision = Length(d) + 1
<1> DEFINE e == FinalizeAttempt(d, k, "verified", t)
           a == ActiveRelease(d)
<1>0. RowsResolved(d, e, r, "verified")
  BY ResolvedRows DEF Outcomes
<1> HIDE DEF e, a
<1>1. /\ Existing(e) = Existing(d)
      /\ \A s \in Existing(d) : /\ e.releases[s].revision = d.releases[s].revision
                                /\ e.releases[s].desired = d.releases[s].desired
      /\ e.releases[r].status = "verified"
      /\ \A s \in Existing(d) \ {r} :
           e.releases[s].status = IF s = a THEN "superseded" ELSE d.releases[s].status
  BY <1>0 DEF RowsResolved, a
<1>2. /\ r \in WithStatus(d, Unresolved) /\ WithStatus(d, Unresolved) = {r}
      /\ NewestUnresolved(d) = r /\ r # None
  <2>1. r \in WithStatus(d, Unresolved) /\ r # None
    BY StoreAssumption DEF WithStatus, Existing
  <2> QED BY <2>1, UnresolvedIs
<1>3. \A s \in Existing(d) : d.releases[s].status \in Settled \cup Unresolved
  BY DEF Existing, Database, ReleaseRow
<1>4. /\ \A s \in WithStatus(d, {"verified"}) : s = a
      /\ a # None => a \in WithStatus(d, {"verified"})
  BY ActiveIs DEF a
<1>5. r \notin Joined(d) /\ r # a
  BY <1>2, <1>4, StoreAssumption DEF Joined, WithStatus, Settled, Unresolved
<1>7. Joined(e) = Joined(d) \cup {r}
  <2>1. ASSUME NEW s \in Existing(d), s # r
        PROVE  e.releases[s].status \in Settled <=> d.releases[s].status \in Settled
    <3>1. CASE s = a
      <4>1. d.releases[s].status = "verified" /\ e.releases[s].status = "superseded"
        BY <1>1, <1>4, <2>1, <3>1, StoreAssumption DEF WithStatus, Existing
      <4> QED BY <4>1 DEF Settled
    <3>2. CASE s # a
      BY <1>1, <2>1, <3>2
    <3> QED BY <3>1, <3>2
  <2>2. e.releases[r].status \in Settled
    BY <1>1 DEF Settled
  <2>3. \A s \in Existing(d) : e.releases[s].status \in Settled <=> (s = r \/ d.releases[s].status \in Settled)
    BY <2>1, <2>2
  <2> QED BY <1>1, <2>3 DEF Joined, WithStatus
<1>8. WithStatus(e, {"verified"}) = {r}
  <2>1. ASSUME NEW s \in Existing(d), s # r
        PROVE  e.releases[s].status # "verified"
    BY <1>1, <1>4, <2>1 DEF WithStatus
  <2> QED BY <1>1, <2>1 DEF WithStatus
<1>9. WithStatus(e, Unresolved) = {}
  <2>1. ASSUME NEW s \in Existing(d)
        PROVE  e.releases[s].status \notin Unresolved
    <3>1. CASE s = r
      BY <1>1, <3>1 DEF Unresolved
    <3>2. CASE s # r /\ s = a
      BY <1>1, <3>2 DEF Unresolved
    <3>3. CASE s # r /\ s # a
      BY <1>1, <1>2, <3>3 DEF WithStatus
    <3> QED BY <3>1, <3>2, <3>3
  <2> QED BY <1>1, <2>1 DEF WithStatus
<1>10. Length(d) \in Nat /\ IsFiniteSet(Joined(d))
  BY LengthIsNat DEF InLine
<1>11. IsFiniteSet(Joined(e)) /\ Length(e) = Length(d) + 1
  BY <1>5, <1>7, <1>10, FS_AddElement DEF Length
<1>12. e.releases[r].revision = Length(d) + 1 /\ d.releases[r].revision = Length(d) + 1
  BY <1>1, <1>2 DEF InLine
<1>13. \A s \in Joined(d) : /\ e.releases[s].revision = d.releases[s].revision
                            /\ e.releases[s].desired = d.releases[s].desired
                            /\ e.releases[s].revision \in 1..Length(d)
  BY <1>1 DEF Joined, WithStatus, InLine
<1>14. InLine(e)
  <2>1. \A s \in Joined(e) : e.releases[s].revision \in 1..Length(e)
    BY <1>7, <1>10, <1>11, <1>12, <1>13
  <2>2. \A q, s \in Joined(e) : e.releases[q].revision = e.releases[s].revision => q = s
    <3> SUFFICES ASSUME NEW q \in Joined(e), NEW s \in Joined(e),
                        e.releases[q].revision = e.releases[s].revision
                 PROVE  q = s
      OBVIOUS
    <3>1. CASE q \in Joined(d) /\ s \in Joined(d)
      BY <1>13, <3>1 DEF InLine
    <3>2. CASE q = r \/ s = r
      BY <1>7, <1>10, <1>12, <1>13, <3>2
    <3> QED BY <1>7, <3>1, <3>2
  <2>3. \A i \in 1..Length(e) : \E s \in Joined(e) : e.releases[s].revision = i
    <3> SUFFICES ASSUME NEW i \in 1..Length(e) PROVE \E s \in Joined(e) : e.releases[s].revision = i
      OBVIOUS
    <3>1. CASE i = Length(d) + 1
      BY <1>7, <1>12, <3>1
    <3>2. CASE i \in 1..Length(d)
      BY <1>7, <1>13, <3>2 DEF InLine
    <3> QED BY <1>10, <1>11, <3>1, <3>2
  <2> QED BY <1>8, <1>9, <1>11, <1>12, <2>1, <2>2, <2>3 DEF InLine
<1> QED BY <1>1, <1>7, <1>8, <1>9, <1>10, <1>11, <1>12, <1>14 DEF e

\* A verified readback lets the candidate join the line at its end.
LEMMA VerifiedJoins ==
    ASSUME NEW d \in Database, LineVerifies(d), InLine(d), NEW t \in Nat,
           NEW k \in Keys, NEW r \in Existing(d),
           d.attempts[k].release = r, d.releases[r].status \in Unresolved,
           FinalizeAttempt(d, k, "verified", t) \in Database,
           LineVerifies(FinalizeAttempt(d, k, "verified", t))
    PROVE  LET e == FinalizeAttempt(d, k, "verified", t) IN
           /\ InLine(e) /\ Length(e) = Length(d) + 1
           /\ WaitsIn(d) # None /\ LineOf(e) = Append(LineOf(d), WaitsIn(d)) /\ WaitsIn(e) = None
<1> DEFINE e == FinalizeAttempt(d, k, "verified", t)
           x == d.releases[r].desired
<1>1. /\ InLine(e) /\ Length(e) = Length(d) + 1 /\ Length(d) \in Nat
      /\ Joined(e) = Joined(d) \cup {r} /\ WithStatus(e, Unresolved) = {}
      /\ \A s \in Existing(d) : /\ e.releases[s].revision = d.releases[s].revision
                                /\ e.releases[s].desired = d.releases[s].desired
      /\ d.releases[r].revision = Length(d) + 1
  BY JoinNumbers
<1>2. NewestUnresolved(d) = r /\ r # None
  <2>1. r \in WithStatus(d, Unresolved) /\ r # None
    BY StoreAssumption DEF WithStatus, Existing
  <2> QED BY <2>1, UnresolvedIs
<1>3. x \in ModuleSets /\ WaitsIn(d) = x
  BY <1>2 DEF WaitsIn, Existing, Database, ReleaseRow
<1>4. e \in Database /\ LineVerifies(e)
  OBVIOUS
<1> HIDE DEF e
<1>5. \A s \in Joined(d) : s \in Existing(d)
  BY DEF Joined, WithStatus
<1> HIDE DEF x
<1>6. e.releases[r].revision = Length(d) + 1 /\ e.releases[r].desired = x
  BY <1>1 DEF x
<1>7. LineOf(e) = Append(LineOf(d), x)
  <2>1. LineOf(d) \in Seq(ModuleSets) /\ Len(LineOf(d)) = Length(d)
    BY LineIsSeq
  <2>2. LineOf(e) \in Seq(ModuleSets) /\ Len(LineOf(e)) = Length(d) + 1
    BY <1>1, <1>4, LineIsSeq
  <2>3. ASSUME NEW i \in 1..Length(d)
        PROVE  LineOf(e)[i] = LineOf(d)[i]
    <3>1. PICK s \in Joined(d) : d.releases[s].revision = i
      BY DEF InLine
    <3>2. At(d, i) = s
      BY <3>1, AtIs
    <3>3. At(e, i) = s
      BY <1>1, <1>5, <3>1, AtIs
    <3>4. i \in 1..Length(e)
      BY <1>1
    <3> QED BY <1>1, <1>5, <3>2, <3>3, <3>4 DEF LineOf
  <2>4. LineOf(e)[Length(d) + 1] = x
    <3>1. At(e, Length(d) + 1) = r
      BY <1>1, <1>6, AtIs
    <3>2. Length(d) + 1 \in 1..Length(e)
      BY <1>1
    <3> QED BY <1>6, <3>1, <3>2 DEF LineOf
  <2> QED BY <1>1, <1>3, <2>1, <2>2, <2>3, <2>4
<1>8. WaitsIn(e) = None
  BY <1>1, <1>4, UnresolvedIs DEF WaitsIn
<1>9. WaitsIn(d) # None
  BY <1>3, StoreAssumption
<1> QED BY <1>1, <1>3, <1>7, <1>8, <1>9 DEF e

\* A step of the line or none, with the invariant after it.
Follows == LineInv' /\ (Line!Next \/ UNCHANGED Line!vars)

\* The refinement reads the line and the candidate from the database.
LEMMA MapsAre == lineMap = LineOf(db) /\ candidateMap = WaitsIn(db)
BY DEF lineMap, candidateMap, LineOf, At, Length, Joined, WaitsIn

\* And so after a step.
LEMMA MapsBecome == lineMap' = LineOf(db') /\ candidateMap' = WaitsIn(db')
BY DEF lineMap, candidateMap, LineOf, At, Length, Joined, WaitsIn

\* A step that lets line, candidate and gate be is none of the line.
LEMMA StaysPut ==
    ASSUME LineInv, IInv', SameLine(db, db'), snapshot'.revision = snapshot.revision,
           ~(op'.pc = "commit" /\ stage'.proof)
    PROVE  Follows
<1>1. /\ db \in Database /\ LineVerifies(db) /\ InLine(db)
      /\ db' \in Database /\ LineVerifies(db')
  BY DEF LineInv, IInv, TypeOK, Verifies
<1>2. InLine(db') /\ LineOf(db') = LineOf(db) /\ WaitsIn(db') = WaitsIn(db)
  BY <1>1, SameLineKept
<1>3. lineMap' = LineOf(db') /\ candidateMap' = WaitsIn(db')
  BY MapsBecome
<1> QED BY <1>2, <1>3, MapsAre DEF Follows, LineInv, Line!vars

\* Registrations, previews and approvals are no steps of the line.
LEMMA PrepareFollows ==
    ASSUME LineInv, IInv', Prepare
    PROVE  Follows
<1>0. db \in Database /\ op.pc = "idle" /\ snapshot' = snapshot /\ op' = op
  <2>1. db \in Database
    BY DEF LineInv, IInv, TypeOK
  <2>2. Ready /\ UNCHANGED <<volatile, op>>
    BY DEF Prepare, Register, CreatePreview, Decide, ReplayPreview, ReplayDecision
  <2> QED BY <2>1, <2>2 DEF Ready, Idle, volatile
<1>1. db'.releases = db.releases
  <2>1. \A m \in ModuleSets : RegisterModule(db, m, clock).releases = db.releases
    BY <1>0 DEF RegisterModule, WithEvent, Database
  <2>2. \A row : \A p \in Previews : InsertPreview(db, p, row, clock).releases = db.releases
    BY <1>0 DEF InsertPreview, WithEvent, Database
  <2>3. \A row : \A p \in Previews : InsertApproval(db, p, row, clock).releases = db.releases
    BY <1>0 DEF InsertApproval, WithEvent, Database
  <2>4. ASSUME NEW e, Transaction(e), e.releases = db.releases
        PROVE  db'.releases = db.releases
    BY <2>4 DEF Transaction, TripFatal
  <2>5. ASSUME NEW m \in ModuleSets, Register(m) PROVE db'.releases = db.releases
    BY <2>1, <2>4, <2>5 DEF Register
  <2>6. ASSUME NEW p \in Previews, NEW a \in Actors, NEW m \in ModuleSets,
               NEW t \in Releases \cup {None}, CreatePreview(p, a, m, t)
        PROVE  db'.releases = db.releases
    <3>1. CASE TripFatal("disagreement")
      BY <3>1 DEF TripFatal
    <3>2. CASE ~TripFatal("disagreement")
      BY <2>2, <2>4, <2>6, <3>2 DEF CreatePreview
    <3> QED BY <3>1, <3>2
  <2>7. ASSUME NEW p \in Previews, NEW a \in Actors, NEW decision \in {"approve", "reject"},
               Decide(p, a, decision)
        PROVE  db'.releases = db.releases
    BY <2>3, <2>4, <2>7 DEF Decide
  <2>8. ASSUME NEW p \in Previews, ReplayPreview(p) \/ ReplayDecision(p)
        PROVE  db'.releases = db.releases
    BY <2>8 DEF ReplayPreview, ReplayDecision, TripFatal
  <2> QED BY <2>5, <2>6, <2>7, <2>8 DEF Prepare
<1> QED BY <1>0, <1>1, SameReleasesSameLine, StaysPut

\* A publish proposes the candidate.
LEMMA PublishFollows ==
    ASSUME LineInv, IInv', NEW k \in PublishKeys, NEW p \in Previews, NEW q \in Previews,
           NEW r \in Releases, Publish(k, p, q, r)
    PROVE  Follows
<1> DEFINE e == PublishRelease(db, k, p, r, clock)
<1>1. /\ snapshot' = snapshot /\ op.pc = "idle" /\ (op' = op \/ op'.pc = "stage")
      /\ \/ db' = db
         \/ /\ db' = e /\ NewestUnresolved(db) = None /\ db.previews[p] # None
            /\ r \notin Existing(db) /\ CanPublish(db, p, clock)
  BY DEF Publish, Ready, Idle, Begin, Transaction, TripFatal, volatile
<1>2. /\ db \in Database /\ LineVerifies(db) /\ InLine(db) /\ k \in Keys /\ clock \in Nat
      /\ db' \in Database /\ LineVerifies(db')
  BY PlaneAssumption DEF LineInv, IInv, TypeOK, Verifies, Keys
<1>3. CASE db' = db
  BY <1>1, <1>3, SameReleasesSameLine, StaysPut
<1>4. CASE db' # db
  <2>1. /\ db' = e /\ NewestUnresolved(db) = None /\ db.previews[p] # None
        /\ r \in Releases \ Existing(db)
        /\ db.previews[p].baseRevision = Revision(db, ActiveRelease(db))
    BY <1>1, <1>4 DEF CanPublish
  <2> HIDE DEF e
  <2>2. e \in Database /\ LineVerifies(e)
    BY <1>2, <2>1
  <2>3. /\ InLine(e) /\ LineOf(e) = LineOf(db)
        /\ WaitsIn(db) = None /\ WaitsIn(e) \in ModuleSets
    BY <1>2, <2>1, <2>2, PublishProposes DEF e
  <2>4. lineMap' = LineOf(e) /\ candidateMap' = WaitsIn(e)
    <3>1. lineMap' = LineOf(db') /\ candidateMap' = WaitsIn(db')
      BY MapsBecome
    <3> QED BY <2>1, <3>1
  <2>5. Line!Propose
    BY <1>1, <2>3, <2>4, MapsAre DEF Line!Propose
  <2>6. LineInv'
    BY <1>1, <2>1, <2>3 DEF LineInv
  <2> QED BY <2>5, <2>6 DEF Follows, Line!Next
<1> QED BY <1>3, <1>4

\* A verified readback joins the candidate to the line, any other leaves both.
LEMMA ObserveFollows ==
    ASSUME LineInv, IInv', NEW o \in ReadbackOutcomes, ObserveAndFinalize(o)
    PROVE  Follows
<1> DEFINE r == op.release
           k == op.key
           e == FinalizeAttempt(db, k, o, op.at)
<1>1. /\ op.pc = "observe" /\ snapshot' = snapshot
      /\ \/ db' = db /\ fatal' # "none"
         \/ db' = e /\ OwnerCanFinalize(db, k, boot, op.at)
      /\ fatal' # "none" => op' = Idle
      /\ fatal' = "none" => /\ op' = [op EXCEPT !.pc = "commit", !.outcome = o]
                            /\ stage' = [stage EXCEPT !.proof = (o = "verified")]
  BY DEF ObserveAndFinalize, CriticalTransaction, Transaction, TripFatal
<1>2. /\ db \in Database /\ LineVerifies(db) /\ InLine(db) /\ k \in Keys /\ o \in Outcomes
      /\ op.at \in Nat /\ stage \in Candidates /\ fatal = "none" /\ up
      /\ db' \in Database /\ LineVerifies(db') /\ db.attempts[k].release = r /\ r \in Existing(db)
      /\ snapshot = ActiveSnapshot(db)
  BY <1>1, PlaneAssumption DEF LineInv, IInv, TypeOK, Verifies, OpOK, GateOK
<1>3. op'.pc = "commit" /\ stage'.proof => db' = e /\ o = "verified"
  <2>1. CASE fatal' # "none"
    BY <1>1, <2>1 DEF Idle
  <2>2. CASE fatal' = "none"
    <3>1. stage'.proof = (o = "verified")
      BY <1>1, <1>2, <2>2 DEF Candidates
    <3> QED BY <1>1, <2>2, <3>1
  <2> QED BY <2>1, <2>2
<1>4. CASE db' = db /\ fatal' # "none"
  BY <1>1, <1>4, SameReleasesSameLine, StaysPut DEF Idle
<1>5. CASE db' = e /\ OwnerCanFinalize(db, k, boot, op.at)
  <2>1. db.releases[r].status \in Unresolved
    BY <1>2, <1>5 DEF OwnerCanFinalize, CanFinalize
  <2> HIDE DEF e
  <2>2. CASE o # "verified"
    <3>1. SameLine(db, e)
      BY <1>2, <2>1, <2>2, OtherOutcomeStays DEF e
    <3> QED BY <1>1, <1>3, <1>5, <2>2, <3>1, StaysPut
  <2>3. CASE o = "verified"
    <3>1. e \in Database /\ LineVerifies(e)
      BY <1>2, <1>5
    <3>2. /\ InLine(e) /\ Length(e) = Length(db) + 1
          /\ WaitsIn(db) # None /\ LineOf(e) = Append(LineOf(db), WaitsIn(db)) /\ WaitsIn(e) = None
      BY <1>2, <2>1, <2>3, <3>1, VerifiedJoins DEF e
    <3>3. lineMap' = LineOf(e) /\ candidateMap' = WaitsIn(e)
      <4>1. lineMap' = LineOf(db') /\ candidateMap' = WaitsIn(db')
        BY MapsBecome
      <4> QED BY <1>5, <4>1
    <3>4. Line!Join
      BY <1>1, <3>2, <3>3, MapsAre DEF Line!Join
    <3>5. snapshot'.revision + 1 = Length(e)
      BY <1>1, <1>2, <3>2, ActiveIsLast
    <3>6. LineInv'
      BY <1>5, <3>2, <3>5 DEF LineInv
    <3> QED BY <3>4, <3>6 DEF Follows, Line!Next
  <2> QED BY <2>2, <2>3
<1> QED BY <1>1, <1>4, <1>5

\* The gate follows the line by the release that joined it.
LEMMA CommitFollows ==
    ASSUME LineInv, IInv', CommitGate
    PROVE  Follows
<1>1. /\ op.pc = "commit" /\ db' = db /\ op' = Idle
      /\ \/ snapshot' = snapshot
         \/ stage.proof /\ snapshot'.revision = stage.revision
  BY DEF CommitGate, TripFatal
<1>2. CASE snapshot' = snapshot
  BY <1>1, <1>2, SameReleasesSameLine, StaysPut DEF Idle
<1>3. CASE stage.proof /\ snapshot'.revision = stage.revision
  <2>1. /\ db \in Database /\ InLine(db) /\ op.release \in WithStatus(db, {"verified"})
        /\ stage.revision = db.releases[op.release].revision
        /\ snapshot.revision + 1 = Length(db)
    BY <1>1, <1>3 DEF LineInv, IInv, OpOK, TypeOK
  <2>2. snapshot'.revision = Length(db)
    BY <1>3, <2>1 DEF InLine
  <2>3. Len(lineMap) = Length(db)
    BY <2>1, LineIsSeq, MapsAre
  <2>4. lineMap' = lineMap /\ candidateMap' = candidateMap
    BY <1>1 DEF lineMap, candidateMap
  <2>5. Line!Follow
    BY <2>1, <2>2, <2>3, <2>4 DEF Line!Follow
  <2>6. LineInv'
    BY <1>1, <2>1 DEF LineInv, Idle
  <2> QED BY <2>5, <2>6 DEF Follows, Line!Next
<1> QED BY <1>1, <1>2, <1>3

\* Publish, reconcile and the critical section.
LEMMA DeployFollows ==
    ASSUME LineInv, IInv', Deploy
    PROVE  Follows
<1>1. ASSUME UNCHANGED <<db, snapshot>>, op'.pc # "commit"
      PROVE  Follows
  BY <1>1, SameReleasesSameLine, StaysPut
<1>2. ASSUME NEW k \in PublishKeys, Resume(k) \/ ReplayPublish(k) PROVE Follows
  BY <1>1, <1>2 DEF Resume, ReplayPublish, Begin, TripFatal, Ready, Idle, volatile
<1>3. ASSUME NEW k \in ReconcileKeys, NEW r \in Releases, Reconcile(k, r) PROVE Follows
  <2>1. UNCHANGED <<db, snapshot>> /\ op'.pc # "commit"
    BY <1>3 DEF Reconcile, Begin, TripFatal, Ready, Idle, volatile
  <2> QED BY <1>1, <2>1
<1>4. ASSUME NEW k \in ReconcileKeys, ReplayReconcile(k) PROVE Follows
  BY <1>1, <1>4 DEF ReplayReconcile, TripFatal, Ready, Idle, volatile
<1>5. ASSUME StageAndClaim PROVE Follows
  <2> DEFINE e == ClaimAttempt(db, op.key, op.release, boot, op.at)
  <2>1. /\ db \in Database /\ op.at \in Nat /\ boot \in Nat /\ op.key \in Keys /\ op.release \in Releases
    BY <1>5, PlaneAssumption DEF StageAndClaim, LineInv, IInv, TypeOK, OpOK, Existing
  <2>2. e.releases = db.releases
    BY <2>1, ClaimKeeps
  <2>3. db' = db \/ db' = e
    BY <1>5 DEF StageAndClaim, CriticalTransaction, Transaction, TripFatal
  <2>4. snapshot' = snapshot /\ op'.pc # "commit"
    BY <1>5 DEF StageAndClaim, Continue, Idle, LineInv, IInv, TypeOK
  <2> HIDE DEF e
  <2> QED BY <2>2, <2>3, <2>4, SameReleasesSameLine, StaysPut
<1> QED BY <1>2, <1>3, <1>4, <1>5, PublishFollows, ObserveFollows, CommitFollows DEF Deploy

\* An interrupted readback leaves line and candidate as they were.
LEMMA RecoveryStays ==
    ASSUME IInv, CanRecover
    PROVE  SameLine(db, Recovered)
<1>1. db \in Database /\ LineVerifies(db) /\ clock \in Nat
  BY PlaneAssumption DEF IInv, TypeOK, Verifies
<1>2. CASE ClaimedKeys(db) = {}
  BY <1>2, SameReleasesSameLine DEF Recovered
<1>3. CASE ClaimedKeys(db) # {}
  <2>1. PICK k \in ClaimedKeys(db) : Recovered = FinalizeAttempt(db, k, "interrupted", clock)
    BY <1>3 DEF Recovered
  <2>2. k \in Keys /\ db.attempts[k] # None /\ db.attempts[k] \in AttemptRow /\ db.attempts[k].phase = "claimed"
    BY <1>1 DEF ClaimedKeys, Database
  <2>3. db.attempts[k].release \in Existing(db) /\ db.releases[db.attempts[k].release].status \in Unresolved
    BY <2>2 DEF IInv, Verifies, AttemptVerifies, Existing, AttemptRow
  <2>4. "interrupted" \in Outcomes \ {"verified"}
    BY DEF Outcomes
  <2> QED BY <1>1, <2>1, <2>2, <2>3, <2>4, OtherOutcomeStays
<1> QED BY <1>2, <1>3

\* A crash takes the gate down and a start brings it back at the line's end.
LEMMA EnvironmentFollows ==
    ASSUME LineInv, IInv', Environment
    PROVE  Follows
<1>1. CASE Crash
  <2>1. db' = db /\ op' = Idle /\ snapshot' = Inactive
    BY <1>1 DEF Crash
  <2>2. lineMap' = lineMap /\ candidateMap' = candidateMap
    BY <2>1 DEF lineMap, candidateMap
  <2>3. Line!GoDown
    BY <2>1, <2>2 DEF Line!GoDown, Inactive
  <2>4. LineInv'
    BY <2>1 DEF LineInv, Idle
  <2> QED BY <2>3, <2>4 DEF Follows, Line!Next
<1>2. CASE Start
  <2>1. /\ ~up /\ snapshot' = ActiveSnapshot(db') /\ op' = op
        /\ db' = db \/ (db' = Recovered /\ CanRecover)
    BY <1>2 DEF Start
  <2>2. SameLine(db, db')
    BY <2>1, SameReleasesSameLine, RecoveryStays DEF LineInv
  <2>3. /\ db \in Database /\ LineVerifies(db) /\ InLine(db)
        /\ db' \in Database /\ LineVerifies(db') /\ op = Idle /\ snapshot.revision = 0
    BY <2>1 DEF LineInv, IInv, TypeOK, Verifies, DownOK, Inactive
  <2>4. InLine(db') /\ LineOf(db') = LineOf(db) /\ WaitsIn(db') = WaitsIn(db)
    BY <2>2, <2>3, SameLineKept
  <2>5. lineMap' = LineOf(db') /\ candidateMap' = WaitsIn(db')
    BY MapsBecome
  <2>6. snapshot'.revision = Len(lineMap)
    BY <2>1, <2>3, <2>4, <2>5, ActiveIsLast, LineIsSeq, MapsAre
  <2>7. Line!ComeBack
    BY <2>3, <2>4, <2>5, <2>6, MapsAre DEF Line!ComeBack
  <2>8. LineInv'
    BY <2>1, <2>3, <2>4 DEF LineInv, Idle
  <2> QED BY <2>7, <2>8 DEF Follows, Line!Next
<1>3. CASE StartRefused
  <2>1. ~up /\ db' = Recovered /\ CanRecover /\ UNCHANGED <<snapshot, op, stage>>
    BY <1>3 DEF StartRefused
  <2>2. op = Idle
    BY <2>1 DEF LineInv, IInv, DownOK
  <2> QED BY <2>1, <2>2, RecoveryStays, StaysPut DEF LineInv, Idle
<1>4. CASE Tick
  <2>1. UNCHANGED <<db, snapshot, op, stage>>
    BY <1>4 DEF Tick
  <2>2. lineMap' = lineMap /\ candidateMap' = candidateMap
    BY <2>1 DEF lineMap, candidateMap
  <2> QED BY <2>1, <2>2 DEF LineInv, Follows, Line!vars
<1> QED BY <1>1, <1>2, <1>3, <1>4 DEF Environment

\* Nothing has joined the line of an empty database.
LEMMA LineInvInit ==
    Init => LineInv /\ Line!Init
<1> SUFFICES ASSUME Init PROVE LineInv /\ Line!Init
  OBVIOUS
<1>1. db = EmptyDatabase /\ op = Idle /\ snapshot = Inactive
  BY DEF Init
<1>2. \A S : WithStatus(db, S) = {}
  BY <1>1 DEF WithStatus, Existing, EmptyDatabase
<1>3. Joined(db) = {} /\ IsFiniteSet(Joined(db)) /\ Length(db) = 0
  BY <1>2, FS_EmptySet DEF Joined, Length
<1>4. InLine(db)
  BY <1>2, <1>3 DEF InLine
<1>5. LineOf(db) = <<>> /\ WaitsIn(db) = None
  BY <1>2, <1>3 DEF LineOf, WaitsIn, NewestUnresolved, Newest
<1> QED BY <1>1, <1>4, <1>5, InitInv, MapsAre DEF LineInv, Idle, Inactive, Line!Init

\* Every behaviour of the control plane is one of the line: releases join at
\* its end, one candidate at a time, and the gate follows it or is down, with
\* every failure, crash and recovery (service.ts, activation-authority-internal.ts).
THEOREM PlaneImplementsLine == Spec => ImplementsLine
<1>1. LineInv /\ [Next]_vars => LineInv' /\ [Line!Next]_(Line!vars)
  <2> SUFFICES ASSUME LineInv, [Next]_vars PROVE Follows
    BY DEF Follows
  <2>1. IInv'
    BY NextInv DEF LineInv
  <2>2. CASE UNCHANGED vars
    <3>1. UNCHANGED <<db, snapshot, op, stage>>
      BY <2>2 DEF vars
    <3>2. lineMap' = lineMap /\ candidateMap' = candidateMap
      BY <3>1 DEF lineMap, candidateMap
    <3> QED BY <2>1, <3>1, <3>2 DEF LineInv, Follows, Line!vars
  <2> QED BY <2>1, <2>2, PrepareFollows, DeployFollows, EnvironmentFollows DEF Next
<1> QED BY <1>1, LineInvInit, PTL DEF Spec, ImplementsLine, Line!Spec

-----------------------------------------------------------------------------
(* That the verifier accepts what the operations write.  Its checks are    *)
(* first put without CHOOSE and Cardinality, over a history that keeps     *)
(* every release; then each write keeps them.                              *)

\* No release has left the bounded history.
AllInWindow == MaxReleases <= HistoryWindow

\* What a preview rests on was settled and is still there.
RowStands(d, v) ==
    /\ IF v.base = None THEN v.baseRevision = 0
       ELSE /\ d.releases[v.base] # None
            /\ d.releases[v.base].revision = v.baseRevision
            /\ d.releases[v.base].status \in Settled
    /\ v.target # None =>
         /\ d.releases[v.target] # None
         /\ d.releases[v.target].revision < v.baseRevision
         /\ d.releases[v.target].status \in Settled
         /\ d.releases[v.target].desired = v.desired

\* An approval is consumed with its preview, by one release.
ApprovalStands(d, p) ==
    /\ d.previews[p] # None
    /\ d.approvals[p].consumed = d.previews[p].consumed
    /\ d.approvals[p].consumed => d.approvals[p].decision = "approve"
    /\ d.approvals[p].consumed <=> \E r \in Existing(d) : d.releases[r].preview = p
    /\ \A r, s \in Existing(d) :
         d.releases[r].preview = p /\ d.releases[s].preview = p => r = s

\* A release was approved as its preview asks and has the readback of its status.
ReleaseStands(d, r) ==
    LET v == d.releases[r]
        p == v.preview
        b == d.readbacks[r]
    IN
    /\ d.previews[p] # None /\ d.approvals[p] # None
    /\ d.approvals[p].decision = "approve"
    /\ d.previews[p].consumed /\ d.approvals[p].consumed
    /\ v.createdAt < d.previews[p].expiresAt
    /\ v.previous = d.previews[p].base
    /\ v.revision = d.previews[p].baseRevision + 1
    /\ v.desired = d.previews[p].desired
    /\ \E k \in PublishKeys : d.idem[k] # None /\ d.idem[k].release = r
    /\ v.status = "pending" => b = None
    /\ v.status \in Settled => b # None /\ b.outcome = "verified"
    /\ v.status = "manual_review" => b # None /\ b.outcome # "verified" /\ b.outcome = v.outcome

\* Each release is on top of the one before, which it superseded once verified.
LinkStands(d, r) ==
    LET v == d.releases[r] IN
    IF v.revision = 1 THEN v.previous = None
    ELSE \E b \in Existing(d) :
           /\ d.releases[b].revision + 1 = v.revision
           /\ v.previous = b
           /\ IF v.status \in Unresolved THEN d.releases[b].status = "verified"
              ELSE d.releases[b].status = "superseded" /\ d.releases[b].supersededBy = r

LinksStand(d) ==
    /\ \A r \in Existing(d) : LinkStands(d, r)
    /\ \A r, s \in Existing(d) : d.releases[r].revision = d.releases[s].revision => r = s
    /\ \A r, s \in WithStatus(d, Unresolved) : r = s
    /\ \A r, s \in WithStatus(d, {"verified"}) : r = s

\* All that the verifier checks, in these terms.
Checked(d) ==
    /\ \A p \in Previews : d.previews[p] # None => RowStands(d, d.previews[p])
    /\ \A p \in Previews : d.approvals[p] # None => ApprovalStands(d, p)
    /\ \A r \in Existing(d) : ReleaseStands(d, r)
    /\ LinksStand(d)
    /\ \A r \in Releases : d.readbacks[r] # None => ReadbackVerifies(d, r)
    /\ \A k \in Keys : d.attempts[k] # None => AttemptVerifies(d, k)
    /\ \A k \in Keys : d.idem[k] # None => IdempotencyVerifies(d, k)
    /\ d.eventsOrdered

\* What the service relies on beyond the verifier: two people per approval, one
\* key per release, a publish that was not answered waits for its readback, and
\* what is reconciled had one.
KeysStand(d) ==
    /\ \A p \in Previews : d.approvals[p] # None => d.approvals[p].approver # d.previews[p].creator
    /\ \A k \in PublishKeys : d.idem[k] # None /\ d.idem[k].status = "domain_committed" =>
         d.releases[d.idem[k].release].status = "pending"
    /\ \A j, k \in PublishKeys :
         d.idem[j] # None /\ d.idem[k] # None /\ d.idem[j].release = d.idem[k].release => j = k
    /\ \A k \in ReconcileKeys : d.attempts[k] # None /\ d.attempts[k].phase = "claimed" =>
         d.releases[d.attempts[k].release].status = "manual_review"

Sound(d) == d \in Database /\ InLine(d) /\ Checked(d) /\ KeysStand(d)

\* A history as long as the releases that can be made keeps them all.
LEMMA HistoryIsAll ==
    ASSUME AllInWindow, NEW d \in Database
    PROVE  History(d) = Existing(d)
<1>1. ASSUME NEW r \in Existing(d)
      PROVE  Cardinality({s \in Existing(d) : Revision(d, s) > Revision(d, r)}) < HistoryWindow
  <2> DEFINE N == {s \in Existing(d) : Revision(d, s) > Revision(d, r)}
  <2>1. r \in Releases /\ r # None /\ d.releases[r] \in ReleaseRow
    BY StoreAssumption DEF Existing, Database
  <2>2. Revision(d, r) \in Nat
    BY <2>1 DEF Revision, ReleaseRow
  <2>3. N \subseteq Releases \ {r}
    BY <2>2 DEF Existing
  <2>4. IsFiniteSet(Releases) /\ Cardinality(Releases) = MaxReleases
    BY <2>1, StoreAssumption, FS_Interval DEF Releases
  <2>5. IsFiniteSet(Releases \ {r}) /\ Cardinality(Releases \ {r}) = MaxReleases - 1
    BY <2>1, <2>4, FS_RemoveElement
  <2>6. IsFiniteSet(N) /\ Cardinality(N) <= MaxReleases - 1
    BY <2>3, <2>5, FS_Subset
  <2>7. Cardinality(N) \in Nat
    BY <2>6, FS_CardinalityType
  <2> HIDE DEF N
  <2>8. Cardinality(N) < HistoryWindow
    BY <2>6, <2>7, StoreAssumption DEF AllInWindow
  <2> QED BY <2>8 DEF N
<1> QED BY <1>1 DEF History

\* The one with the highest revision is the newest.
LEMMA NewestOf ==
    ASSUME NEW d, NEW R, NEW b \in R, \A s \in R : Revision(d, s) \in Nat,
           \A s \in R : Revision(d, s) <= Revision(d, b),
           \A s \in R : Revision(d, s) = Revision(d, b) => s = b
    PROVE  Newest(d, R) = b
<1> DEFINE P(x) == \A s \in R : Revision(d, s) <= Revision(d, x)
<1>1. P(b) /\ \A x \in R : P(x) => x = b
  <2>1. ASSUME NEW x \in R, P(x) PROVE x = b
    <3>1. Revision(d, b) <= Revision(d, x) /\ Revision(d, x) <= Revision(d, b)
      BY <2>1
    <3>2. Revision(d, b) \in Nat /\ Revision(d, x) \in Nat
      OBVIOUS
    <3>3. Revision(d, x) = Revision(d, b)
      BY <3>1, <3>2
    <3> QED BY <3>3
  <2> QED BY <2>1
<1>2. Newest(d, R) = CHOOSE x \in R : P(x)
  BY DEF Newest
<1> HIDE DEF P
<1> QED BY <1>1, <1>2

\* The existing releases are those that joined and at most one more.
LEMMA ExistingAre ==
    ASSUME NEW d \in Database, InLine(d)
    PROVE  /\ Length(d) \in Nat
           /\ \A r \in Existing(d) :
                /\ r \in Releases /\ r # None /\ d.releases[r] \in ReleaseRow
                /\ r \in Joined(d) \/ r \in WithStatus(d, Unresolved)
                /\ d.releases[r].revision \in 1..(Length(d) + 1)
                /\ Revision(d, r) = d.releases[r].revision
<1>1. Length(d) \in Nat
  BY LengthIsNat
<1>2. ASSUME NEW r \in Existing(d)
      PROVE  /\ r \in Releases /\ r # None /\ d.releases[r] \in ReleaseRow
             /\ r \in Joined(d) \/ r \in WithStatus(d, Unresolved)
             /\ d.releases[r].revision \in 1..(Length(d) + 1)
             /\ Revision(d, r) = d.releases[r].revision
  <2>1. r \in Releases /\ r # None /\ d.releases[r] \in ReleaseRow
    BY StoreAssumption DEF Existing, Database
  <2>2. r \in Joined(d) \/ r \in WithStatus(d, Unresolved)
    BY <2>1 DEF ReleaseRow, Joined, WithStatus
  <2>3. d.releases[r].revision \in 1..(Length(d) + 1)
    BY <1>1, <2>2 DEF InLine
  <2> QED BY <2>1, <2>2, <2>3 DEF Revision
<1> QED BY <1>1, <1>2

\* The newest release below one is the one that its revision follows.
LEMMA BeforeIs ==
    ASSUME NEW d \in Database, InLine(d), NEW r \in Existing(d),
           \A s, q \in Existing(d) : d.releases[s].revision = d.releases[q].revision => s = q
    PROVE  LET below == {s \in Existing(d) : d.releases[s].revision < d.releases[r].revision} IN
           /\ d.releases[r].revision = 1 => Newest(d, below) = None
           /\ d.releases[r].revision # 1 =>
                \E b \in Existing(d) : d.releases[b].revision + 1 = d.releases[r].revision
           /\ \A b \in Existing(d) :
                d.releases[b].revision + 1 = d.releases[r].revision => Newest(d, below) = b
<1> DEFINE below == {s \in Existing(d) : d.releases[s].revision < d.releases[r].revision}
<1>1. /\ Length(d) \in Nat
      /\ \A s \in Existing(d) : /\ d.releases[s].revision \in 1..(Length(d) + 1)
                                /\ Revision(d, s) = d.releases[s].revision
  BY ExistingAre
<1>2. ASSUME d.releases[r].revision = 1 PROVE Newest(d, below) = None
  <2>1. below = {}
    BY <1>1, <1>2
  <2> QED BY <2>1 DEF Newest
<1>3. ASSUME d.releases[r].revision # 1
      PROVE  \E b \in Existing(d) : d.releases[b].revision + 1 = d.releases[r].revision
  <2>1. d.releases[r].revision - 1 \in 1..Length(d)
    BY <1>1, <1>3
  <2>2. PICK b \in Joined(d) : d.releases[b].revision = d.releases[r].revision - 1
    BY <2>1 DEF InLine
  <2>3. b \in Existing(d)
    BY DEF Joined, WithStatus
  <2> QED BY <1>1, <2>2, <2>3
<1>4. ASSUME NEW b \in Existing(d), d.releases[b].revision + 1 = d.releases[r].revision
      PROVE  Newest(d, below) = b
  <2>1. b \in below
    BY <1>1, <1>4
  <2>2. \A s \in below : /\ Revision(d, s) \in Nat /\ Revision(d, s) <= Revision(d, b)
                         /\ Revision(d, s) = Revision(d, b) => s = b
    BY <1>1, <1>4
  <2> HIDE DEF below
  <2> QED BY <2>1, <2>2, NewestOf
<1> QED BY <1>2, <1>3, <1>4

\* The verifier's line is that of the links.
LEMMA LineIsLinks ==
    ASSUME NEW d \in Database, InLine(d)
    PROVE  LineVerifies(d) <=> LinksStand(d)
<1> DEFINE Unique == \A s, q \in Existing(d) : d.releases[s].revision = d.releases[q].revision => s = q
           below(r) == {s \in Existing(d) : d.releases[s].revision < d.releases[r].revision}
           Linked(r) ==
             LET v == d.releases[r]
                 before == Newest(d, below(r))
             IN /\ v.revision = Revision(d, before) + 1
                /\ v.previous = before
                /\ before # None =>
                     IF v.status \in Unresolved THEN d.releases[before].status = "verified"
                     ELSE /\ d.releases[before].status = "superseded"
                          /\ d.releases[before].supersededBy = r
           Ones == /\ \A r, s \in WithStatus(d, Unresolved) : r = s
                   /\ \A r, s \in WithStatus(d, {"verified"}) : r = s
           Top == Existing(d) # {} => d.releases[Newest(d, Existing(d))].status # "superseded"
<1>1. LineVerifies(d) <=> (\A r \in Existing(d) : Linked(r)) /\ Unique /\ Ones /\ Top
  BY DEF LineVerifies
<1>2. LinksStand(d) <=> (\A r \in Existing(d) : LinkStands(d, r)) /\ Unique /\ Ones
  BY DEF LinksStand
<1>3. ASSUME Unique, NEW r \in Existing(d) PROVE Linked(r) <=> LinkStands(d, r)
  <2>1. /\ d.releases[r].revision = 1 => Newest(d, below(r)) = None
        /\ d.releases[r].revision # 1 =>
                \E b \in Existing(d) : d.releases[b].revision + 1 = d.releases[r].revision
        /\ \A b \in Existing(d) :
                d.releases[b].revision + 1 = d.releases[r].revision => Newest(d, below(r)) = b
    BY <1>3, BeforeIs
  <2> HIDE DEF below
  <2>2. CASE d.releases[r].revision = 1
    BY <2>1, <2>2 DEF LinkStands, Revision
  <2>3. CASE d.releases[r].revision # 1
    <3>1. PICK b \in Existing(d) : d.releases[b].revision + 1 = d.releases[r].revision
      BY <2>1, <2>3
    <3>2. /\ Newest(d, below(r)) = b /\ b # None /\ Revision(d, b) = d.releases[b].revision
          /\ d.releases[b].revision \in Nat
      <4>1. /\ b # None /\ Revision(d, b) = d.releases[b].revision /\ Length(d) \in Nat
            /\ d.releases[b].revision \in 1..(Length(d) + 1)
        BY ExistingAre
      <4> QED BY <2>1, <3>1, <4>1
    <3>3. \A c \in Existing(d) : d.releases[c].revision + 1 = d.releases[r].revision => c = b
      BY <2>1, <3>2
    <3> QED BY <2>3, <3>1, <3>2, <3>3 DEF LinkStands
  <2> QED BY <2>2, <2>3
<1>4. ASSUME Unique PROVE Top
  <2> SUFFICES ASSUME Existing(d) # {} PROVE d.releases[Newest(d, Existing(d))].status # "superseded"
    OBVIOUS
  <2>1. /\ Length(d) \in Nat
        /\ \A s \in Existing(d) : /\ d.releases[s].revision \in 1..(Length(d) + 1)
                                  /\ Revision(d, s) = d.releases[s].revision
                                  /\ s \in Joined(d) \/ s \in WithStatus(d, Unresolved)
    BY ExistingAre
  <2>2. ASSUME NEW b \in Existing(d), \A s \in Existing(d) : d.releases[s].revision <= d.releases[b].revision
        PROVE  Newest(d, Existing(d)) = b
    <3>1. \A s \in Existing(d) : /\ Revision(d, s) \in Nat /\ Revision(d, s) <= Revision(d, b)
                                 /\ Revision(d, s) = Revision(d, b) => s = b
      BY <1>4, <2>1, <2>2
    <3> QED BY <3>1, NewestOf
  <2>3. CASE WithStatus(d, Unresolved) # {}
    <3>1. PICK b \in WithStatus(d, Unresolved) : TRUE
      BY <2>3
    <3>2. b \in Existing(d) /\ d.releases[b].status \in Unresolved /\ d.releases[b].revision = Length(d) + 1
      BY DEF WithStatus, InLine
    <3>3. Newest(d, Existing(d)) = b
      BY <2>1, <2>2, <3>2
    <3> QED BY <3>2, <3>3 DEF Unresolved
  <2>4. CASE WithStatus(d, Unresolved) = {}
    <3>1. Joined(d) # {} /\ \A s \in Existing(d) : s \in Joined(d)
      BY <2>1, <2>4
    <3>2. PICK b \in WithStatus(d, {"verified"}) : TRUE
      BY <3>1 DEF InLine
    <3>3. b \in Existing(d) /\ d.releases[b].status = "verified" /\ d.releases[b].revision = Length(d)
      BY DEF WithStatus, InLine
    <3>4. \A s \in Existing(d) : d.releases[s].revision <= d.releases[b].revision
      BY <2>1, <3>1, <3>3 DEF InLine
    <3>5. Newest(d, Existing(d)) = b
      BY <2>2, <3>3, <3>4
    <3> QED BY <3>3, <3>5
  <2> QED BY <2>3, <2>4
<1> HIDE DEF Linked, Ones, Top
<1> QED BY <1>1, <1>2, <1>3, <1>4

\* Counting the releases of a preview is asking whether there is just one.
LEMMA ApprovalIsFlat ==
    ASSUME NEW d \in Database, NEW p \in Previews, d.approvals[p] # None
    PROVE  ApprovalVerifies(d, p) <=> ApprovalStands(d, p)
<1> DEFINE published == {r \in Existing(d) : d.releases[r].preview = p}
<1>1. d.approvals[p].consumed \in BOOLEAN
  BY DEF Database, ApprovalRow
<1>2. IsFiniteSet(published)
  <2>1. IsFiniteSet(Releases)
    BY StoreAssumption, FS_Interval DEF Releases
  <2>2. published \subseteq Releases
    BY DEF Existing
  <2> QED BY <2>1, <2>2, FS_Subset
<1>3. Cardinality(published) = 0 <=> published = {}
  BY <1>2, FS_EmptySet
<1>4. Cardinality(published) = 1 <=> \E r : published = {r}
  BY <1>2, FS_Singleton
<1>5. (\E r : published = {r}) <=>
        /\ \E r \in Existing(d) : d.releases[r].preview = p
        /\ \A r, s \in Existing(d) : d.releases[r].preview = p /\ d.releases[s].preview = p => r = s
  <2>1. ASSUME NEW r \in Existing(d), d.releases[r].preview = p,
               \A q, s \in Existing(d) : d.releases[q].preview = p /\ d.releases[s].preview = p => q = s
        PROVE  published = {r}
    BY <2>1
  <2>2. ASSUME NEW r, published = {r}
        PROVE  /\ r \in Existing(d) /\ d.releases[r].preview = p
               /\ \A q, s \in Existing(d) : d.releases[q].preview = p /\ d.releases[s].preview = p => q = s
    <3>1. r \in published /\ \A q \in published : q = r
      BY <2>2
    <3> QED BY <3>1
  <2> HIDE DEF published
  <2> QED BY <2>1, <2>2
<1>6. published = {} <=> \A r \in Existing(d) : d.releases[r].preview # p
  OBVIOUS
<1>7. ApprovalVerifies(d, p) <=>
        /\ d.previews[p] # None
        /\ d.approvals[p].consumed = d.previews[p].consumed
        /\ d.approvals[p].consumed => d.approvals[p].decision = "approve"
        /\ Cardinality(published) = IF d.approvals[p].consumed THEN 1 ELSE 0
  BY DEF ApprovalVerifies
<1> HIDE DEF published
<1> QED BY <1>1, <1>3, <1>4, <1>5, <1>6, <1>7 DEF ApprovalStands

\* The verifier accepts just what was put in these terms.
LEMMA VerifiesIsChecked ==
    ASSUME AllInWindow, NEW d \in Database, InLine(d)
    PROVE  Verifies(d) <=> Checked(d)
<1>1. ASSUME NEW p \in Previews, d.previews[p] # None
      PROVE  PreviewVerifies(d, p) <=> RowStands(d, d.previews[p])
  <2>1. d.previews[p] \in PreviewRow
    BY <1>1 DEF Database
  <2>2. d.previews[p].target \in Releases \cup {None}
    BY <2>1 DEF PreviewRow
  <2> QED BY <2>2, HistoryIsAll DEF PreviewVerifies, RowStands, Existing
<1>2. LineVerifies(d) <=> LinksStand(d)
  BY LineIsLinks
<1>3. ASSUME NEW r \in Existing(d)
      PROVE  ReleaseVerifies(d, r) <=> ReleaseStands(d, r)
  <2>1. d.releases[r].status \in {"verified", "superseded", "pending", "manual_review"}
    BY DEF Existing, Database, ReleaseRow, Settled, Unresolved
  <2>2. /\ "pending" \notin Settled /\ "manual_review" \notin Settled
        /\ "verified" \in Settled /\ "superseded" \in Settled
    BY DEF Settled
  <2>3. CASE d.releases[r].status = "pending"
    BY <2>2, <2>3 DEF ReleaseVerifies, ReleaseStands
  <2>4. CASE d.releases[r].status \in Settled
    BY <2>2, <2>4 DEF ReleaseVerifies, ReleaseStands
  <2>5. CASE d.releases[r].status = "manual_review"
    BY <2>2, <2>5 DEF ReleaseVerifies, ReleaseStands
  <2> QED BY <2>1, <2>2, <2>3, <2>4, <2>5
<1> QED BY <1>1, <1>2, <1>3, ApprovalIsFlat DEF Verifies, Checked

-----------------------------------------------------------------------------
(* Each write keeps the database sound, one lemma per write and in it one  *)
(* step per check of the verifier.                                         *)

\* What is sound the verifier accepts.
LEMMA SoundVerifies ==
    ASSUME AllInWindow, NEW d, Sound(d)
    PROVE  Verifies(d) /\ LineVerifies(d) /\ LinksStand(d)
<1>1. Verifies(d)
  BY VerifiesIsChecked DEF Sound
<1> QED BY <1>1 DEF Verifies, Sound, Checked


\* A registration touches nothing that the verifier relates.
LEMMA RegisterSound ==
    ASSUME NEW d, Sound(d), NEW t \in Nat, d.lastEventAt <= t, NEW m \in ModuleSets
    PROVE  Sound(RegisterModule(d, m, t))
<1> DEFINE e == RegisterModule(d, m, t)
<1>1. /\ e.previews = d.previews /\ e.approvals = d.approvals /\ e.releases = d.releases
      /\ e.idem = d.idem /\ e.attempts = d.attempts /\ e.readbacks = d.readbacks
      /\ e.eventsOrdered
  BY DEF RegisterModule, WithEvent, Sound, Checked, Database
<1>2. e \in Database
  BY RegisterType DEF Sound
<1>3. Existing(e) = Existing(d) /\ \A S : WithStatus(e, S) = WithStatus(d, S)
  BY <1>1 DEF Existing, WithStatus
<1>4. InLine(e)
  BY <1>1, SameReleasesSameLine, SameLineNumbers DEF Sound
<1> HIDE DEF e
<1>5. \A p \in Previews : e.previews[p] # None => RowStands(e, e.previews[p])
  BY <1>1 DEF Sound, Checked, RowStands
<1>6. \A p \in Previews : e.approvals[p] # None => ApprovalStands(e, p)
  BY <1>1, <1>3 DEF Sound, Checked, ApprovalStands
<1>7. \A r \in Existing(e) : ReleaseStands(e, r)
  BY <1>1, <1>3 DEF Sound, Checked, ReleaseStands
<1>8. LinksStand(e)
  BY <1>1, <1>3 DEF Sound, Checked, LinksStand, LinkStands
<1>9. \A r \in Releases : e.readbacks[r] # None => ReadbackVerifies(e, r)
  BY <1>1 DEF Sound, Checked, ReadbackVerifies
<1>10. \A k \in Keys : e.attempts[k] # None => AttemptVerifies(e, k)
  BY <1>1 DEF Sound, Checked, AttemptVerifies
<1>11. \A k \in Keys : e.idem[k] # None => IdempotencyVerifies(e, k)
  BY <1>1 DEF Sound, Checked, IdempotencyVerifies
<1>12. KeysStand(e)
  BY <1>1 DEF Sound, KeysStand
<1> QED BY <1>1, <1>2, <1>4, <1>5, <1>6, <1>7, <1>8, <1>9, <1>10, <1>11, <1>12
        DEF Sound, Checked, e

\* A preview whose row stands disturbs no other: nothing refers to it yet.
LEMMA PreviewSound ==
    ASSUME NEW d, Sound(d), NEW t \in Nat, d.lastEventAt <= t,
           NEW p \in Previews, d.previews[p] = None, NEW row \in PreviewRow, RowStands(d, row)
    PROVE  Sound(InsertPreview(d, p, row, t))
<1> DEFINE e == InsertPreview(d, p, row, t)
<1>1. /\ e.previews = [d.previews EXCEPT ![p] = row]
      /\ e.approvals = d.approvals /\ e.releases = d.releases
      /\ e.idem = d.idem /\ e.attempts = d.attempts /\ e.readbacks = d.readbacks
      /\ e.eventsOrdered
  BY DEF InsertPreview, WithEvent, Sound, Checked, Database
<1>2. e \in Database
  BY InsertPreviewType DEF Sound
<1>3. Existing(e) = Existing(d) /\ \A S : WithStatus(e, S) = WithStatus(d, S)
  BY <1>1 DEF Existing, WithStatus
<1>4. InLine(e)
  BY <1>1, SameReleasesSameLine, SameLineNumbers DEF Sound
<1>5. /\ \A q \in Previews \ {p} : e.previews[q] = d.previews[q]
      /\ e.previews[p] = row
  BY <1>1 DEF Sound, Database
<1> HIDE DEF e
<1>6. \A q \in Previews : e.previews[q] # None => RowStands(e, e.previews[q])
  BY <1>1, <1>5 DEF Sound, Checked, RowStands
<1>7. \A q \in Previews : d.approvals[q] # None => q # p
  BY DEF Sound, Checked, ApprovalStands
<1>8. \A q \in Previews : e.approvals[q] # None => ApprovalStands(e, q)
  BY <1>1, <1>3, <1>5, <1>7 DEF Sound, Checked, ApprovalStands
<1>9. \A r \in Existing(e) : ReleaseStands(e, r)
  <2> TAKE r \in Existing(e)
  <2>1. ReleaseStands(d, r) /\ d.releases[r].preview \in Previews
    BY <1>3 DEF Sound, Checked, Existing, Database, ReleaseRow
  <2>2. e.previews[d.releases[r].preview] = d.previews[d.releases[r].preview]
    BY <1>5, <2>1 DEF ReleaseStands
  <2> QED BY <1>1, <2>1, <2>2 DEF ReleaseStands
<1>10. LinksStand(e)
  BY <1>1, <1>3 DEF Sound, Checked, LinksStand, LinkStands
<1>11. \A r \in Releases : e.readbacks[r] # None => ReadbackVerifies(e, r)
  BY <1>1 DEF Sound, Checked, ReadbackVerifies
<1>12. \A k \in Keys : e.attempts[k] # None => AttemptVerifies(e, k)
  BY <1>1 DEF Sound, Checked, AttemptVerifies
<1>13. \A k \in Keys : e.idem[k] # None => IdempotencyVerifies(e, k)
  BY <1>1 DEF Sound, Checked, IdempotencyVerifies
<1>14. KeysStand(e)
  BY <1>1, <1>5, <1>7 DEF Sound, KeysStand
<1> QED BY <1>1, <1>2, <1>4, <1>6, <1>8, <1>9, <1>10, <1>11, <1>12, <1>13, <1>14
        DEF Sound, Checked, e

\* An approval of two people is the first of its preview, which no release has used.
LEMMA ApprovalSound ==
    ASSUME NEW d, Sound(d), NEW t \in Nat, d.lastEventAt <= t,
           NEW p \in Previews, d.previews[p] # None, ~d.previews[p].consumed,
           d.approvals[p] = None, NEW row \in ApprovalRow, ~row.consumed,
           row.approver # d.previews[p].creator
    PROVE  Sound(InsertApproval(d, p, row, t))
<1> DEFINE e == InsertApproval(d, p, row, t)
<1>1. /\ e.approvals = [d.approvals EXCEPT ![p] = row]
      /\ e.previews = d.previews /\ e.releases = d.releases
      /\ e.idem = d.idem /\ e.attempts = d.attempts /\ e.readbacks = d.readbacks
      /\ e.eventsOrdered
  BY DEF InsertApproval, WithEvent, Sound, Checked, Database
<1>2. e \in Database
  BY InsertApprovalType DEF Sound
<1>3. Existing(e) = Existing(d) /\ \A S : WithStatus(e, S) = WithStatus(d, S)
  BY <1>1 DEF Existing, WithStatus
<1>4. InLine(e)
  BY <1>1, SameReleasesSameLine, SameLineNumbers DEF Sound
<1>5. /\ \A q \in Previews \ {p} : e.approvals[q] = d.approvals[q]
      /\ e.approvals[p] = row
  BY <1>1 DEF Sound, Database
<1> HIDE DEF e
<1>6. \A q \in Previews : e.previews[q] # None => RowStands(e, e.previews[q])
  BY <1>1 DEF Sound, Checked, RowStands
<1>7. \A r \in Existing(d) : d.releases[r].preview # p
  BY DEF Sound, Checked, ReleaseStands
<1>8. \A q \in Previews : e.approvals[q] # None => ApprovalStands(e, q)
  <2> SUFFICES ASSUME NEW q \in Previews, e.approvals[q] # None PROVE ApprovalStands(e, q)
    OBVIOUS
  <2>1. CASE q = p
    <3>1. d.previews[p] \in PreviewRow
      BY DEF Sound, Database
    <3>2. d.previews[p].consumed = FALSE /\ row.consumed = FALSE
      BY <3>1 DEF PreviewRow, ApprovalRow
    <3> QED BY <1>1, <1>3, <1>5, <1>7, <2>1, <3>2 DEF ApprovalStands
  <2>2. CASE q # p
    BY <1>1, <1>3, <1>5, <2>2 DEF Sound, Checked, ApprovalStands
  <2> QED BY <2>1, <2>2
<1>9. \A r \in Existing(e) : ReleaseStands(e, r)
  <2> TAKE r \in Existing(e)
  <2>1. ReleaseStands(d, r) /\ d.releases[r].preview \in Previews \ {p}
    BY <1>3, <1>7 DEF Sound, Checked, Existing, Database, ReleaseRow
  <2>2. e.approvals[d.releases[r].preview] = d.approvals[d.releases[r].preview]
    BY <1>5, <2>1
  <2> QED BY <1>1, <2>1, <2>2 DEF ReleaseStands
<1>10. LinksStand(e)
  BY <1>1, <1>3 DEF Sound, Checked, LinksStand, LinkStands
<1>11. \A r \in Releases : e.readbacks[r] # None => ReadbackVerifies(e, r)
  BY <1>1 DEF Sound, Checked, ReadbackVerifies
<1>12. \A k \in Keys : e.attempts[k] # None => AttemptVerifies(e, k)
  BY <1>1 DEF Sound, Checked, AttemptVerifies
<1>13. \A k \in Keys : e.idem[k] # None => IdempotencyVerifies(e, k)
  BY <1>1 DEF Sound, Checked, IdempotencyVerifies
<1>14. KeysStand(e)
  BY <1>1, <1>5 DEF Sound, KeysStand
<1> QED BY <1>1, <1>2, <1>4, <1>6, <1>8, <1>9, <1>10, <1>11, <1>12, <1>13, <1>14
        DEF Sound, Checked, e

\* What a publish does to the tables other than the releases: it files its key
\* and consumes its preview and approval.
Published(d, e, k, p, r, t) ==
    /\ e.idem[k] # None /\ e.idem[k].status = "domain_committed"
    /\ e.idem[k].release = r /\ e.idem[k].createdAt = t
    /\ \A j \in Keys \ {k} : e.idem[j] = d.idem[j]
    /\ \A q \in Previews : /\ e.previews[q] = None <=> d.previews[q] = None
                           /\ e.previews[q].base = d.previews[q].base
                           /\ e.previews[q].baseRevision = d.previews[q].baseRevision
                           /\ e.previews[q].target = d.previews[q].target
                           /\ e.previews[q].desired = d.previews[q].desired
                           /\ e.previews[q].creator = d.previews[q].creator
                           /\ e.previews[q].expiresAt = d.previews[q].expiresAt
                           /\ e.approvals[q] = None <=> d.approvals[q] = None
                           /\ e.approvals[q].approver = d.approvals[q].approver
                           /\ e.approvals[q].decision = d.approvals[q].decision
    /\ \A q \in Previews \ {p} : /\ e.previews[q].consumed = d.previews[q].consumed
                                 /\ e.approvals[q].consumed = d.approvals[q].consumed
    /\ e.previews[p].consumed = TRUE /\ e.approvals[p].consumed = TRUE
    /\ e.attempts = d.attempts /\ e.readbacks = d.readbacks
    /\ e.eventsOrdered = (d.eventsOrdered /\ d.lastEventAt <= t) /\ e.lastEventAt = t

\* A publish does so.
LEMMA PublishTables ==
    ASSUME NEW d \in Database, NEW t \in Nat, NEW k \in Keys, NEW p \in Previews,
           NEW r \in Releases, d.previews[p] # None, d.approvals[p] # None
    PROVE  Published(d, PublishRelease(d, k, p, r, t), k, p, r, t)
<1> DEFINE e == PublishRelease(d, k, p, r, t)
           irow == [status |-> "domain_committed", release |-> r,
                    outcome |-> None, createdAt |-> t]
           prow == [d.previews[p] EXCEPT !.consumed = TRUE]
           arow == [d.approvals[p] EXCEPT !.consumed = TRUE]
<1>1. /\ e.idem = [d.idem EXCEPT ![k] = irow]
      /\ e.previews = [d.previews EXCEPT ![p] = prow]
      /\ e.approvals = [d.approvals EXCEPT ![p] = arow]
      /\ e.attempts = d.attempts /\ e.readbacks = d.readbacks
      /\ e.eventsOrdered = (d.eventsOrdered /\ d.lastEventAt <= t) /\ e.lastEventAt = t
  BY DEF PublishRelease, WithEvent, Database
<1>2. d.previews[p] \in PreviewRow /\ d.approvals[p] \in ApprovalRow
  BY DEF Database
<1>3. /\ irow \in IdempotencyRow /\ irow.status = "domain_committed"
      /\ irow.release = r /\ irow.createdAt = t
  BY DEF IdempotencyRow
<1>4. /\ prow \in PreviewRow
      /\ prow.base = d.previews[p].base /\ prow.baseRevision = d.previews[p].baseRevision
      /\ prow.target = d.previews[p].target /\ prow.desired = d.previews[p].desired
      /\ prow.creator = d.previews[p].creator /\ prow.expiresAt = d.previews[p].expiresAt
      /\ prow.consumed = TRUE
  BY <1>2 DEF PreviewRow
<1>5. /\ arow \in ApprovalRow
      /\ arow.approver = d.approvals[p].approver /\ arow.decision = d.approvals[p].decision
      /\ arow.consumed = TRUE
  BY <1>2 DEF ApprovalRow
<1>6. irow # None /\ prow # None /\ arow # None
  BY <1>3, <1>4, <1>5, RowAssumption
<1> HIDE DEF e, irow, prow, arow
<1>7. /\ e.idem[k] = irow /\ \A j \in Keys \ {k} : e.idem[j] = d.idem[j]
      /\ e.previews[p] = prow /\ \A q \in Previews \ {p} : e.previews[q] = d.previews[q]
      /\ e.approvals[p] = arow /\ \A q \in Previews \ {p} : e.approvals[q] = d.approvals[q]
  BY <1>1 DEF Database
<1>8. /\ e.idem[k] # None /\ e.idem[k].status = "domain_committed"
      /\ e.idem[k].release = r /\ e.idem[k].createdAt = t
      /\ \A j \in Keys \ {k} : e.idem[j] = d.idem[j]
  BY <1>3, <1>6, <1>7
<1>9. ASSUME NEW q \in Previews
      PROVE  /\ e.previews[q] = None <=> d.previews[q] = None
             /\ e.previews[q].base = d.previews[q].base
             /\ e.previews[q].baseRevision = d.previews[q].baseRevision
             /\ e.previews[q].target = d.previews[q].target
             /\ e.previews[q].desired = d.previews[q].desired
             /\ e.previews[q].creator = d.previews[q].creator
             /\ e.previews[q].expiresAt = d.previews[q].expiresAt
             /\ e.approvals[q] = None <=> d.approvals[q] = None
             /\ e.approvals[q].approver = d.approvals[q].approver
             /\ e.approvals[q].decision = d.approvals[q].decision
  BY <1>4, <1>5, <1>6, <1>7
<1>10. /\ \A q \in Previews \ {p} : /\ e.previews[q].consumed = d.previews[q].consumed
                                    /\ e.approvals[q].consumed = d.approvals[q].consumed
       /\ e.previews[p].consumed = TRUE /\ e.approvals[p].consumed = TRUE
  BY <1>4, <1>5, <1>7
<1> QED BY <1>1, <1>8, <1>9, <1>10 DEF Published, e

\* A publish that the store's own checks allow leaves nothing to refuse.
LEMMA PublishSound ==
    ASSUME AllInWindow, NEW d, Sound(d), NEW t \in Nat, d.lastEventAt <= t,
           NEW k \in PublishKeys, d.idem[k] = None, NEW p \in Previews,
           NEW r \in Releases \ Existing(d), CanPublish(d, p, t)
    PROVE  Sound(PublishRelease(d, k, p, r, t))
<1> DEFINE e == PublishRelease(d, k, p, r, t)
           row == NewRelease(d, p, t)
           a == ActiveRelease(d)
<1>1. /\ d \in Database /\ LineVerifies(d) /\ LinksStand(d) /\ InLine(d) /\ k \in Keys
      /\ d.previews[p] # None /\ d.approvals[p] # None
  BY SoundVerifies DEF Sound, Keys, CanPublish
<1>2. e \in Database
  BY <1>1, PublishType
<1>3. /\ row \in ReleaseRow /\ row.revision = Length(d) + 1
      /\ e.releases[r] = row /\ d.releases[r] = None
      /\ \A s \in Releases \ {r} : e.releases[s] = d.releases[s]
      /\ Existing(e) = Existing(d) \cup {r}
      /\ WithStatus(d, Unresolved) = {} /\ WithStatus(e, Unresolved) = {r}
      /\ WithStatus(e, {"verified"}) = WithStatus(d, {"verified"})
      /\ InLine(e)
  BY <1>1, PublishRows DEF CanPublish
<1>4. Published(d, e, k, p, r, t)
  BY <1>1, PublishTables
<1>5. /\ row.status = "pending" /\ row.preview = p /\ row.previous = d.previews[p].base
      /\ row.revision = d.previews[p].baseRevision + 1
      /\ row.desired = d.previews[p].desired /\ row.createdAt = t
  BY DEF NewRelease
<1> HIDE DEF e, row
<1>6. /\ e.eventsOrdered
      /\ e.idem[k] # None /\ e.idem[k].status = "domain_committed"
      /\ e.idem[k].release = r /\ e.idem[k].createdAt = t
      /\ \A j \in Keys \ {k} : e.idem[j] = d.idem[j]
      /\ \A q \in Previews : /\ e.previews[q] = None <=> d.previews[q] = None
                             /\ e.previews[q].base = d.previews[q].base
                             /\ e.previews[q].baseRevision = d.previews[q].baseRevision
                             /\ e.previews[q].target = d.previews[q].target
                             /\ e.previews[q].desired = d.previews[q].desired
                             /\ e.previews[q].creator = d.previews[q].creator
                             /\ e.previews[q].expiresAt = d.previews[q].expiresAt
                             /\ e.approvals[q] = None <=> d.approvals[q] = None
                             /\ e.approvals[q].approver = d.approvals[q].approver
                             /\ e.approvals[q].decision = d.approvals[q].decision
      /\ \A q \in Previews \ {p} : /\ e.previews[q].consumed = d.previews[q].consumed
                                   /\ e.approvals[q].consumed = d.approvals[q].consumed
      /\ e.previews[p].consumed = TRUE /\ e.approvals[p].consumed = TRUE
      /\ e.attempts = d.attempts /\ e.readbacks = d.readbacks
  BY <1>4 DEF Published, Sound, Checked
<1>7. /\ \A s \in Existing(d) : /\ s # r /\ s \in Joined(d) /\ e.releases[s] = d.releases[s]
                                /\ d.releases[s].revision \in 1..Length(d)
      /\ Length(d) \in Nat
      /\ \A s \in Joined(d) : s \in Existing(d)
  <2>1. Length(d) \in Nat /\ \A s \in Existing(d) : s \in Releases /\ s \in Joined(d)
    BY <1>1, <1>3, ExistingAre
  <2>2. \A s \in Existing(d) : s # r
    BY <1>3 DEF Existing
  <2>3. \A s \in Existing(d) : d.releases[s].revision \in 1..Length(d)
    BY <1>1, <2>1 DEF InLine
  <2> QED BY <1>3, <2>1, <2>2, <2>3 DEF Joined, WithStatus
<1>8. d.previews[p] \in PreviewRow /\ d.approvals[p] \in ApprovalRow
  BY <1>1 DEF Database
<1>9. ~d.previews[p].consumed /\ ~d.approvals[p].consumed /\ d.approvals[p].decision = "approve"
  BY DEF CanPublish
<1>10. \A q \in Previews : e.previews[q] # None => RowStands(e, e.previews[q])
  <2> SUFFICES ASSUME NEW q \in Previews, e.previews[q] # None PROVE RowStands(e, e.previews[q])
    OBVIOUS
  <2>1. RowStands(d, d.previews[q]) /\ d.previews[q] \in PreviewRow
    BY <1>1, <1>6 DEF Sound, Checked, Database
  <2>2. d.previews[q].base # None /\ d.releases[d.previews[q].base] # None =>
          d.previews[q].base \in Existing(d)
    BY <2>1 DEF PreviewRow, Existing
  <2>3. d.previews[q].target # None /\ d.releases[d.previews[q].target] # None =>
          d.previews[q].target \in Existing(d)
    BY <2>1 DEF PreviewRow, Existing
  <2> QED BY <1>6, <1>7, <2>1, <2>2, <2>3 DEF RowStands
<1>11. \A s \in Existing(d) : d.releases[s].preview \in Previews \ {p}
  BY <1>1, <1>9 DEF Sound, Checked, ReleaseStands, Existing, Database, ReleaseRow
<1>12. \A q \in Previews : e.approvals[q] # None => ApprovalStands(e, q)
  <2> SUFFICES ASSUME NEW q \in Previews, e.approvals[q] # None PROVE ApprovalStands(e, q)
    OBVIOUS
  <2>1. CASE q = p
    <3>1. r \in Existing(e) /\ e.releases[r].preview = p
      BY <1>3, <1>5
    <3>2. \A s \in Existing(e) : e.releases[s].preview = p => s = r
      BY <1>3, <1>7, <1>11
    <3>3. /\ e.previews[p] # None /\ e.approvals[p].decision = "approve"
          /\ e.previews[p].consumed = TRUE /\ e.approvals[p].consumed = TRUE
      BY <1>1, <1>6, <1>9
    <3> QED BY <2>1, <3>1, <3>2, <3>3 DEF ApprovalStands
  <2>2. CASE q # p
    <3>1. ApprovalStands(d, q)
      BY <1>6 DEF Sound, Checked
    <3>2. \A s \in Existing(e) : e.releases[s].preview = q => s \in Existing(d)
      BY <1>3, <1>5, <2>2
    <3> QED BY <1>3, <1>6, <1>7, <2>2, <3>1, <3>2 DEF ApprovalStands
  <2> QED BY <2>1, <2>2
<1>13. \A s \in Existing(e) : ReleaseStands(e, s)
  <2> SUFFICES ASSUME NEW s \in Existing(e) PROVE ReleaseStands(e, s)
    OBVIOUS
  <2>1. CASE s = r
    <3>1. d.readbacks[r] = None
      BY <1>3 DEF Sound, Checked, ReadbackVerifies
    <3>2. t < d.previews[p].expiresAt
      BY <1>8 DEF CanPublish, Expired, PreviewRow
    <3> QED BY <1>1, <1>3, <1>6, <1>5, <1>9, <2>1, <3>1, <3>2 DEF ReleaseStands, Settled
  <2>2. CASE s # r
    <3>1. s \in Existing(d) /\ ReleaseStands(d, s) /\ e.releases[s] = d.releases[s]
      BY <1>3, <1>7, <2>2 DEF Sound, Checked
    <3>2. \E j \in PublishKeys : e.idem[j] # None /\ e.idem[j].release = s
      <4>1. PICK j \in PublishKeys : d.idem[j] # None /\ d.idem[j].release = s
        BY <3>1 DEF ReleaseStands
      <4>2. j # k /\ j \in Keys
        BY <4>1 DEF Keys
      <4> QED BY <1>6, <4>1, <4>2
    <3> QED BY <1>6, <1>11, <3>1, <3>2 DEF ReleaseStands
  <2> QED BY <2>1, <2>2
<1>14. LinksStand(e)
  <2>1. \A s \in Existing(d) : LinkStands(e, s)
    <3> SUFFICES ASSUME NEW s \in Existing(d) PROVE LinkStands(e, s)
      OBVIOUS
    <3>1. LinkStands(d, s)
      BY <1>1 DEF LinksStand
    <3>2. \A b \in Existing(d) : e.releases[b] = d.releases[b] /\ b \in Existing(e)
      BY <1>3, <1>7
    <3> QED BY <3>1, <3>2 DEF LinkStands
  <2>2. LinkStands(e, r)
    <3>1. /\ d.previews[p].base = a /\ Revision(d, a) = Length(d)
          /\ a # None => a \in WithStatus(d, {"verified"})
      BY <1>1, ActiveIsLast, ActiveIs DEF CanPublish
    <3>2. CASE a = None
      <4>1. Length(d) = 0
        BY <3>1, <3>2 DEF Revision
      <4> QED BY <1>3, <1>5, <3>1, <3>2, <4>1 DEF LinkStands
    <3>3. CASE a # None
      <4>1. /\ a \in Existing(d) /\ d.releases[a].revision = Length(d)
            /\ d.releases[a].status = "verified"
        BY <3>1, <3>3 DEF WithStatus, Revision
      <4>2. /\ e.releases[a] = d.releases[a] /\ a \in Existing(e) /\ Length(d) # 0
        BY <1>3, <1>7, <4>1
      <4> QED BY <1>3, <1>5, <1>7, <3>1, <4>1, <4>2 DEF LinkStands, Unresolved
    <3> QED BY <3>2, <3>3
  <2>3. \A s, q \in Existing(e) : e.releases[s].revision = e.releases[q].revision => s = q
    <3>1. \A s \in Existing(d) : e.releases[s].revision # Length(d) + 1
      BY <1>7
    <3> QED BY <1>1, <1>3, <1>7, <3>1 DEF LinksStand
  <2> QED BY <1>1, <1>3, <2>1, <2>2, <2>3 DEF LinksStand
<1>15. \A s \in Releases : e.readbacks[s] # None => ReadbackVerifies(e, s)
  BY <1>3, <1>6 DEF Sound, Checked, ReadbackVerifies
<1>16. \A j \in Keys : e.attempts[j] # None => AttemptVerifies(e, j)
  <2> SUFFICES ASSUME NEW j \in Keys, d.attempts[j] # None PROVE AttemptVerifies(e, j)
    BY <1>6
  <2>1. AttemptVerifies(d, j) /\ d.attempts[j].release \in Releases
    BY <1>1 DEF Sound, Checked, Database, AttemptRow
  <2>2. j # k /\ d.attempts[j].release # r
    BY <1>3, <2>1 DEF AttemptVerifies
  <2>3. e.idem[j] = d.idem[j] /\ e.releases[d.attempts[j].release] = d.releases[d.attempts[j].release]
    BY <1>3, <1>6, <2>1, <2>2
  <2> QED BY <1>6, <2>1, <2>3 DEF AttemptVerifies
<1>17. \A j \in Keys : e.idem[j] # None => IdempotencyVerifies(e, j)
  <2> SUFFICES ASSUME NEW j \in Keys, e.idem[j] # None PROVE IdempotencyVerifies(e, j)
    OBVIOUS
  <2>1. CASE j = k
    BY <1>3, <1>6, <1>5, <2>1, RowAssumption DEF IdempotencyVerifies
  <2>2. CASE j # k
    <3>1. /\ e.idem[j] = d.idem[j] /\ IdempotencyVerifies(d, j)
          /\ d.idem[j].release \in Releases
      BY <1>1, <1>6, <2>2 DEF Sound, Checked, Database, IdempotencyRow
    <3>2. e.releases[d.idem[j].release] = d.releases[d.idem[j].release]
      BY <1>3, <3>1 DEF IdempotencyVerifies
    <3> QED BY <1>6, <3>1, <3>2 DEF IdempotencyVerifies
  <2> QED BY <2>1, <2>2
<1>18. KeysStand(e)
  <2>1. \A j \in Keys \ {k} : d.idem[j] # None =>
           d.idem[j].release \in Releases /\ d.idem[j].release # r
    BY <1>1, <1>3 DEF Sound, Checked, IdempotencyVerifies, Database, IdempotencyRow
  <2>2. \A j \in PublishKeys \ {k} : j \in Keys /\ e.idem[j] = d.idem[j]
    BY <1>6 DEF Keys
  <2>3. \A q \in Previews : e.approvals[q] # None => e.approvals[q].approver # e.previews[q].creator
    BY <1>6 DEF Sound, KeysStand
  <2>4. \A j \in PublishKeys : e.idem[j] # None /\ e.idem[j].status = "domain_committed" =>
          e.releases[e.idem[j].release].status = "pending"
    BY <1>3, <1>6, <1>5, <2>2 DEF CanPublish
  <2>5. \A j, l \in PublishKeys :
          e.idem[j] # None /\ e.idem[l] # None /\ e.idem[j].release = e.idem[l].release => j = l
    BY <1>6, <2>1, <2>2 DEF Sound, KeysStand
  <2>6. ASSUME NEW j \in ReconcileKeys, e.attempts[j] # None, e.attempts[j].phase = "claimed"
        PROVE  e.releases[e.attempts[j].release].status = "manual_review"
    <3>1. j \in Keys /\ d.attempts[j] # None
      BY <1>6, <2>6 DEF Keys
    <3>2. d.attempts[j].release \in Releases /\ d.releases[d.attempts[j].release] # None
      BY <1>1, <3>1 DEF Sound, Checked, AttemptVerifies, Database, AttemptRow
    <3> QED BY <1>3, <1>6, <2>6, <3>1, <3>2 DEF Sound, KeysStand
  <2> QED BY <2>3, <2>4, <2>5, <2>6 DEF KeysStand
<1> QED BY <1>2, <1>3, <1>6, <1>10, <1>12, <1>13, <1>14, <1>15, <1>16, <1>17, <1>18
        DEF Sound, Checked, e

\* A claim that the store's own checks allow leaves nothing to refuse.
LEMMA ClaimSound ==
    ASSUME AllInWindow, NEW d, Sound(d), NEW t \in Nat, NEW b \in Nat, NEW k \in Keys,
           NEW r \in Releases, CanClaim(d, k, r, t),
           k \in ReconcileKeys => d.releases[r].status = "manual_review"
    PROVE  Sound(ClaimAttempt(d, k, r, b, t))
<1> DEFINE e == ClaimAttempt(d, k, r, b, t)
           irow == [status |-> "domain_committed", release |-> r,
                    outcome |-> None, createdAt |-> t]
           arow == [phase |-> "claimed", release |-> r, boot |-> b,
                    claimedAt |-> t, outcome |-> None]
<1>1. d \in Database /\ InLine(d) /\ r \in Existing(d) /\ d.releases[r] \in ReleaseRow
  BY DEF Sound, CanClaim, Existing, Database
<1>2. e \in Database
  BY <1>1, ClaimType
<1>3. /\ e.previews = d.previews /\ e.approvals = d.approvals /\ e.releases = d.releases
      /\ e.readbacks = d.readbacks /\ e.eventsOrdered = d.eventsOrdered
      /\ e.attempts = [d.attempts EXCEPT ![k] = arow]
      /\ e.idem = [d.idem EXCEPT ![k] = IF k \in PublishKeys THEN d.idem[k] ELSE irow]
  BY <1>1 DEF ClaimAttempt, Database
<1>4. /\ irow \in IdempotencyRow /\ irow.status = "domain_committed"
      /\ irow.release = r /\ irow.createdAt = t
      /\ arow \in AttemptRow /\ arow.phase = "claimed" /\ arow.release = r
      /\ arow.claimedAt = t
  BY <1>1 DEF IdempotencyRow, AttemptRow
<1>5. irow # None /\ arow # None
  BY <1>4, RowAssumption
<1>6. Existing(e) = Existing(d) /\ \A S : WithStatus(e, S) = WithStatus(d, S)
  BY <1>3 DEF Existing, WithStatus
<1>7. InLine(e)
  BY <1>1, <1>3, SameReleasesSameLine, SameLineNumbers
<1> HIDE DEF e, irow, arow
<1>8. /\ e.attempts[k] = arow /\ \A j \in Keys \ {k} : e.attempts[j] = d.attempts[j]
      /\ \A j \in Keys \ {k} : e.idem[j] = d.idem[j]
      /\ k \in PublishKeys => e.idem[k] = d.idem[k]
      /\ k \in ReconcileKeys => e.idem[k] = irow
      /\ k \in PublishKeys \/ k \in ReconcileKeys
      /\ d.attempts[k] = None
  BY <1>1, <1>3, StoreAssumption DEF Database, Keys, CanClaim
<1>9. \A j \in PublishKeys : e.idem[j] = d.idem[j]
  BY <1>8 DEF Keys
<1>10. d.releases[r].status \in Unresolved
  BY <1>8 DEF CanClaim, Unresolved
<1>11. \A q \in Previews : e.previews[q] # None => RowStands(e, e.previews[q])
  BY <1>3 DEF Sound, Checked, RowStands
<1>12. \A q \in Previews : e.approvals[q] # None => ApprovalStands(e, q)
  BY <1>3, <1>6 DEF Sound, Checked, ApprovalStands
<1>13. \A s \in Existing(e) : ReleaseStands(e, s)
  <2> TAKE s \in Existing(e)
  <2>1. ReleaseStands(d, s)
    BY <1>6 DEF Sound, Checked
  <2> QED BY <1>3, <1>9, <2>1 DEF ReleaseStands
<1>14. LinksStand(e)
  BY <1>3, <1>6 DEF Sound, Checked, LinksStand, LinkStands
<1>15. \A s \in Releases : e.readbacks[s] # None => ReadbackVerifies(e, s)
  <2> SUFFICES ASSUME NEW s \in Releases, d.readbacks[s] # None PROVE ReadbackVerifies(e, s)
    BY <1>3
  <2>1. ReadbackVerifies(d, s) /\ d.readbacks[s].attempt \in Keys
    BY <1>1 DEF Sound, Checked, Database, ReadbackRow
  <2>2. e.attempts[d.readbacks[s].attempt] = d.attempts[d.readbacks[s].attempt]
    BY <1>8, <2>1 DEF ReadbackVerifies
  <2> QED BY <1>3, <2>1, <2>2 DEF ReadbackVerifies
<1>16. \A j \in Keys : e.attempts[j] # None => AttemptVerifies(e, j)
  <2> SUFFICES ASSUME NEW j \in Keys, e.attempts[j] # None PROVE AttemptVerifies(e, j)
    OBVIOUS
  <2>1. CASE j = k
    <3>1. e.idem[k] # None /\ e.idem[k].release = r /\ e.idem[k].status = "domain_committed"
      BY <1>4, <1>5, <1>8 DEF CanClaim
    <3>2. k \in PublishKeys => d.readbacks[r] = None
      <4>1. ReleaseStands(d, r)
        BY <1>1 DEF Sound, Checked
      <4> QED BY <4>1 DEF ReleaseStands, CanClaim
    <3> QED BY <1>1, <1>3, <1>4, <1>8, <1>10, <2>1, <3>1, <3>2 DEF AttemptVerifies, Existing
  <2>2. CASE j # k
    BY <1>3, <1>8, <2>2 DEF Sound, Checked, AttemptVerifies
  <2> QED BY <2>1, <2>2
<1>17. \A j \in Keys : e.idem[j] # None => IdempotencyVerifies(e, j)
  <2> SUFFICES ASSUME NEW j \in Keys, e.idem[j] # None PROVE IdempotencyVerifies(e, j)
    OBVIOUS
  <2>1. CASE j = k /\ k \in PublishKeys
    BY <1>3, <1>8, <2>1 DEF Sound, Checked, IdempotencyVerifies
  <2>2. CASE j = k /\ k \in ReconcileKeys
    <3>1. k \notin PublishKeys
      BY <2>2, StoreAssumption
    <3>2. e.idem[k].release = r /\ e.idem[k].createdAt = t /\ e.idem[k].status = "domain_committed"
      BY <1>4, <1>8, <2>2
    <3> QED BY <1>1, <1>3, <1>4, <1>5, <1>8, <2>2, <3>1, <3>2 DEF IdempotencyVerifies, Existing
  <2>3. CASE j # k
    BY <1>3, <1>8, <2>3 DEF Sound, Checked, IdempotencyVerifies
  <2> QED BY <1>8, <2>1, <2>2, <2>3
<1>18. KeysStand(e)
  <2>1. ASSUME NEW j \in ReconcileKeys, e.attempts[j] # None, e.attempts[j].phase = "claimed"
        PROVE  e.releases[e.attempts[j].release].status = "manual_review"
    <3>1. CASE j = k
      BY <1>3, <1>4, <1>8, <2>1, <3>1
    <3>2. CASE j # k
      BY <1>3, <1>8, <2>1, <3>2 DEF Sound, KeysStand, Keys
    <3> QED BY <3>1, <3>2
  <2> QED BY <1>3, <1>9, <2>1 DEF Sound, KeysStand
<1>19. e.eventsOrdered
  BY <1>3 DEF Sound, Checked
<1> QED BY <1>2, <1>7, <1>11, <1>12, <1>13, <1>14, <1>15, <1>16, <1>17, <1>18, <1>19
        DEF Sound, Checked, e

\* What a readback does to the tables other than the releases: it files itself
\* and closes its attempt and its key.
Finalized(d, e, k, r, o, t) ==
    /\ e.readbacks[r] # None /\ e.readbacks[r].attempt = k /\ e.readbacks[r].outcome = o
    /\ \A s \in Releases \ {r} : e.readbacks[s] = d.readbacks[s]
    /\ e.attempts[k] # None /\ e.attempts[k].phase = "finalized" /\ e.attempts[k].outcome = o
    /\ e.attempts[k].release = r /\ e.attempts[k].claimedAt = d.attempts[k].claimedAt
    /\ \A j \in Keys \ {k} : e.attempts[j] = d.attempts[j]
    /\ e.idem[k] # None /\ e.idem[k].status = "completed" /\ e.idem[k].outcome = o
    /\ e.idem[k].release = d.idem[k].release /\ e.idem[k].createdAt = d.idem[k].createdAt
    /\ \A j \in Keys \ {k} : e.idem[j] = d.idem[j]
    /\ e.previews = d.previews /\ e.approvals = d.approvals
    /\ e.eventsOrdered = (d.eventsOrdered /\ d.lastEventAt <= t) /\ e.lastEventAt = t

\* A readback does so.
LEMMA FinalizeTables ==
    ASSUME NEW d \in Database, NEW t \in Nat, NEW k \in Keys, NEW r \in Releases,
           NEW o \in Outcomes, d.attempts[k] # None, d.idem[k] # None, d.attempts[k].release = r
    PROVE  Finalized(d, FinalizeAttempt(d, k, o, t), k, r, o, t)
<1> DEFINE e    == FinalizeAttempt(d, k, o, t)
           brow == [attempt |-> k, outcome |-> o, checkedAt |-> t]
           arow == [d.attempts[k] EXCEPT !.phase = "finalized", !.outcome = o]
           irow == [d.idem[k] EXCEPT !.status = "completed", !.outcome = o]
<1>1. /\ e.readbacks = [d.readbacks EXCEPT ![r] = brow]
      /\ e.attempts = [d.attempts EXCEPT ![k] = arow]
      /\ e.idem = [d.idem EXCEPT ![k] = irow]
      /\ e.previews = d.previews /\ e.approvals = d.approvals
      /\ e.eventsOrdered = (d.eventsOrdered /\ d.lastEventAt <= t) /\ e.lastEventAt = t
  BY DEF FinalizeAttempt, WithEvent, Database
<1>2. d.attempts[k] \in AttemptRow /\ d.idem[k] \in IdempotencyRow
  BY DEF Database
<1>3. brow \in ReadbackRow /\ brow.attempt = k /\ brow.outcome = o
  BY DEF ReadbackRow
<1>4. /\ arow \in AttemptRow /\ arow.phase = "finalized" /\ arow.outcome = o
      /\ arow.release = r /\ arow.claimedAt = d.attempts[k].claimedAt
  BY <1>2 DEF AttemptRow
<1>5. /\ irow \in IdempotencyRow /\ irow.status = "completed" /\ irow.outcome = o
      /\ irow.release = d.idem[k].release /\ irow.createdAt = d.idem[k].createdAt
  BY <1>2 DEF IdempotencyRow
<1>6. brow # None /\ arow # None /\ irow # None
  BY <1>3, <1>4, <1>5, RowAssumption
<1> HIDE DEF e, brow, arow, irow
<1>7. /\ e.readbacks[r] = brow /\ \A s \in Releases \ {r} : e.readbacks[s] = d.readbacks[s]
      /\ e.attempts[k] = arow /\ \A j \in Keys \ {k} : e.attempts[j] = d.attempts[j]
      /\ e.idem[k] = irow /\ \A j \in Keys \ {k} : e.idem[j] = d.idem[j]
  BY <1>1 DEF Database
<1> QED BY <1>1, <1>3, <1>4, <1>5, <1>6, <1>7 DEF Finalized, e

\* What makes a claimed readback ready to be finalized at t.
LEMMA ClaimIsOpen ==
    ASSUME AllInWindow, NEW d, Sound(d), NEW k \in ClaimedKeys(d)
    PROVE  /\ k \in Keys /\ d.attempts[k] # None /\ d.idem[k] # None
           /\ d.attempts[k].release \in Existing(d)
           /\ d.releases[d.attempts[k].release].status \in Unresolved
           /\ d.idem[k].status = "domain_committed"
           /\ d.idem[k].release = d.attempts[k].release
           /\ k \in PublishKeys => d.readbacks[d.attempts[k].release] = None
<1>1. k \in Keys /\ d.attempts[k] \in AttemptRow /\ d.attempts[k].phase = "claimed"
  BY DEF ClaimedKeys, Sound, Database
<1>2. AttemptVerifies(d, k) /\ d.attempts[k].release \in Releases
  BY <1>1 DEF ClaimedKeys, Sound, Checked, AttemptRow
<1> QED BY <1>1, <1>2 DEF AttemptVerifies, Existing, ClaimedKeys

\* The only claimed readback, finalized with whatever was observed, leaves
\* nothing to refuse.
LEMMA FinalizeSound ==
    ASSUME AllInWindow, NEW d, Sound(d), OneClaim(d), NEW t \in Nat, d.lastEventAt <= t,
           NEW k \in ClaimedKeys(d), NEW o \in Outcomes
    PROVE  Sound(FinalizeAttempt(d, k, o, t))
<1> DEFINE r == d.attempts[k].release
           e == FinalizeAttempt(d, k, o, t)
           a == ActiveRelease(d)
<1>1. /\ d \in Database /\ InLine(d) /\ LineVerifies(d) /\ LinksStand(d)
      /\ k \in Keys /\ d.attempts[k] # None /\ d.idem[k] # None
      /\ r \in Existing(d) /\ r \in Releases /\ d.releases[r].status \in Unresolved
      /\ d.idem[k].status = "domain_committed" /\ d.idem[k].release = r
      /\ d.attempts[k].phase = "claimed"
  BY SoundVerifies, ClaimIsOpen DEF Sound, Existing, ClaimedKeys
<1>2. e \in Database
  BY <1>1, FinalizeType
<1>3. RowsResolved(d, e, r, o)
  BY <1>1, ResolvedRows
<1>4. Finalized(d, e, k, r, o, t)
  BY <1>1, FinalizeTables
<1>5. InLine(e)
  <2>1. CASE o = "verified"
    BY <1>1, <2>1, JoinNumbers
  <2>2. CASE o # "verified"
    <3>1. SameLine(d, e)
      BY <1>1, <2>2, OtherOutcomeStays
    <3> QED BY <1>1, <3>1, SameLineNumbers
  <2> QED BY <2>1, <2>2
<1>6. /\ \A s \in WithStatus(d, {"verified"}) : s = a
      /\ \A s \in Existing(d) : d.releases[s].status \in Unresolved => s = r
      /\ a \in Existing(d) => d.releases[a].status = "verified"
      /\ \A s \in Existing(d) : s \in Releases /\ s # None /\ d.releases[s] \in ReleaseRow
  <2>1. \A s \in Existing(d) : d.releases[s].status \in Unresolved => s = r
    BY <1>1 DEF LinksStand, WithStatus
  <2>2. a \in Existing(d) => d.releases[a].status = "verified"
    BY <1>1, ActiveIs, StoreAssumption DEF WithStatus, Existing
  <2> QED BY <1>1, <2>1, <2>2, ActiveIs, StoreAssumption DEF Existing, Database
<1>7. \A j \in Keys \ {k} : ~(d.attempts[j] # None /\ d.attempts[j].phase = "claimed")
  BY DEF OneClaim, ClaimedKeys
<1> HIDE DEF e, a, r
<1>8. /\ Existing(e) = Existing(d)
      /\ \A s \in Existing(d) : /\ e.releases[s].revision = d.releases[s].revision
                                /\ e.releases[s].desired = d.releases[s].desired
                                /\ e.releases[s].preview = d.releases[s].preview
                                /\ e.releases[s].previous = d.releases[s].previous
                                /\ e.releases[s].createdAt = d.releases[s].createdAt
      /\ e.releases[r].outcome = o
      /\ \A s \in Existing(d) \ {r} :
           IF o = "verified" /\ s = a THEN e.releases[s].supersededBy = r
           ELSE e.releases[s] = d.releases[s]
      /\ e.releases[r].status = IF o = "verified" THEN "verified" ELSE "manual_review"
      /\ \A s \in Existing(d) \ {r} :
           e.releases[s].status = IF o = "verified" /\ s = a THEN "superseded"
                                  ELSE d.releases[s].status
  BY <1>3 DEF RowsResolved, a
<1>9. /\ e.readbacks[r] # None /\ e.readbacks[r].attempt = k /\ e.readbacks[r].outcome = o
      /\ \A s \in Releases \ {r} : e.readbacks[s] = d.readbacks[s]
      /\ e.attempts[k] # None /\ e.attempts[k].phase = "finalized" /\ e.attempts[k].outcome = o
      /\ e.attempts[k].release = r /\ e.attempts[k].claimedAt = d.attempts[k].claimedAt
      /\ \A j \in Keys \ {k} : e.attempts[j] = d.attempts[j]
      /\ e.idem[k] # None /\ e.idem[k].status = "completed" /\ e.idem[k].outcome = o
      /\ e.idem[k].release = r /\ e.idem[k].createdAt = d.idem[k].createdAt
      /\ \A j \in Keys \ {k} : e.idem[j] = d.idem[j]
      /\ e.previews = d.previews /\ e.approvals = d.approvals
      /\ e.eventsOrdered
  BY <1>1, <1>4 DEF Finalized, Sound, Checked
<1>10. \A s \in Existing(d) : d.releases[s].status \in Settled =>
         s # r /\ e.releases[s].status \in Settled
  BY <1>1, <1>8 DEF Settled, Unresolved
<1>11. \A q \in Previews : e.previews[q] # None => RowStands(e, e.previews[q])
  <2> SUFFICES ASSUME NEW q \in Previews, d.previews[q] # None PROVE RowStands(e, d.previews[q])
    BY <1>9
  <2>1. RowStands(d, d.previews[q]) /\ d.previews[q] \in PreviewRow
    BY <1>1 DEF Sound, Checked, Database
  <2>2. /\ d.previews[q].base # None => d.previews[q].base \in Existing(d)
        /\ d.previews[q].target # None => d.previews[q].target \in Existing(d)
    BY <2>1 DEF PreviewRow, RowStands, Existing
  <2>3. \A s \in Existing(d) : e.releases[s] # None
    BY <1>8 DEF Existing
  <2> QED BY <1>8, <1>10, <2>1, <2>2, <2>3 DEF RowStands
<1>12. \A q \in Previews : e.approvals[q] # None => ApprovalStands(e, q)
  BY <1>8, <1>9 DEF Sound, Checked, ApprovalStands
<1>13. \A s \in Existing(e) : ReleaseStands(e, s)
  <2> SUFFICES ASSUME NEW s \in Existing(d) PROVE ReleaseStands(e, s)
    BY <1>8
  <2>1. ReleaseStands(d, s)
    BY DEF Sound, Checked
  <2>2. \E j \in PublishKeys : e.idem[j] # None /\ e.idem[j].release = s
    <3>1. PICK j \in PublishKeys : d.idem[j] # None /\ d.idem[j].release = s
      BY <2>1 DEF ReleaseStands
    <3>2. e.idem[j] # None /\ e.idem[j].release = s
      BY <1>1, <1>9, <3>1 DEF Keys
    <3> QED BY <3>2
  <2>3. /\ e.releases[s].status = "pending" => e.readbacks[s] = None
        /\ e.releases[s].status \in Settled =>
             e.readbacks[s] # None /\ e.readbacks[s].outcome = "verified"
        /\ e.releases[s].status = "manual_review" =>
             /\ e.readbacks[s] # None /\ e.readbacks[s].outcome # "verified"
             /\ e.readbacks[s].outcome = e.releases[s].outcome
    <3>1. CASE s = r
      BY <1>8, <1>9, <3>1 DEF Settled
    <3>2. CASE s # r /\ o = "verified" /\ s = a
      <4>1. e.releases[s].status = "superseded" /\ d.releases[s].status \in Settled
        BY <1>8, <1>6, <3>2 DEF Settled
      <4>2. e.readbacks[s] = d.readbacks[s]
        BY <1>6, <1>9, <3>2
      <4> QED BY <2>1, <4>1, <4>2 DEF ReleaseStands
    <3>3. CASE s # r /\ ~(o = "verified" /\ s = a)
      <4>1. e.releases[s] = d.releases[s] /\ e.readbacks[s] = d.readbacks[s]
        BY <1>8, <1>6, <1>9, <3>3
      <4> QED BY <2>1, <4>1 DEF ReleaseStands
    <3> QED BY <3>1, <3>2, <3>3
  <2> QED BY <1>8, <1>9, <2>1, <2>2, <2>3 DEF ReleaseStands
<1>14. LinksStand(e)
  <2>1. ASSUME NEW s \in Existing(d) PROVE LinkStands(e, s)
    <3>1. LinkStands(d, s)
      BY <1>1 DEF LinksStand
    <3>2. CASE d.releases[s].revision = 1
      BY <1>8, <3>1, <3>2 DEF LinkStands
    <3>3. CASE d.releases[s].revision # 1
      <4>1. PICK b \in Existing(d) :
              /\ d.releases[b].revision + 1 = d.releases[s].revision
              /\ d.releases[s].previous = b
              /\ IF d.releases[s].status \in Unresolved THEN d.releases[b].status = "verified"
                 ELSE d.releases[b].status = "superseded" /\ d.releases[b].supersededBy = s
        BY <3>1, <3>3 DEF LinkStands
      <4>2. /\ b \in Existing(e) /\ e.releases[b].revision + 1 = e.releases[s].revision
            /\ e.releases[s].previous = b /\ e.releases[s].revision # 1
        BY <1>8, <3>3, <4>1
      <4>3. IF e.releases[s].status \in Unresolved THEN e.releases[b].status = "verified"
            ELSE e.releases[b].status = "superseded" /\ e.releases[b].supersededBy = s
        <5>1. CASE s = r
          <6>1. d.releases[b].status = "verified"
            BY <1>1, <4>1, <5>1
          <6>2. b = a /\ b # r
            BY <1>1, <1>6, <6>1 DEF WithStatus, Unresolved
          <6> QED BY <1>8, <5>1, <6>1, <6>2 DEF Unresolved
        <5>2. CASE s # r
          <6>1. d.releases[s].status \notin Unresolved
            BY <1>6, <5>2
          <6>2. d.releases[b].status = "superseded" /\ d.releases[b].supersededBy = s
            BY <4>1, <6>1
          <6>3. b # r /\ b # a
            BY <1>1, <1>6, <6>2 DEF Unresolved
          <6>4. e.releases[b] = d.releases[b]
            BY <1>8, <6>3
          <6>5. e.releases[s].status \notin Unresolved
            BY <1>8, <5>2, <6>1 DEF Unresolved
          <6> QED BY <6>2, <6>4, <6>5
        <5> QED BY <5>1, <5>2
      <4> QED BY <4>2, <4>3 DEF LinkStands
    <3> QED BY <3>2, <3>3
  <2>2. \A s, q \in Existing(e) : e.releases[s].revision = e.releases[q].revision => s = q
    BY <1>1, <1>8 DEF LinksStand
  <2>3. \A s \in WithStatus(e, Unresolved) : s = r
    <3>1. \A s \in Existing(d) \ {r} : e.releases[s].status \notin Unresolved
      BY <1>8, <1>6 DEF Unresolved
    <3> QED BY <1>8, <3>1 DEF WithStatus
  <2>4. \A s, q \in WithStatus(e, {"verified"}) : s = q
    <3>1. CASE o = "verified"
      <4>1. \A s \in Existing(d) \ {r} : e.releases[s].status # "verified"
        BY <1>8, <1>6, <3>1 DEF WithStatus
      <4> QED BY <1>8, <4>1 DEF WithStatus
    <3>2. CASE o # "verified"
      <4>1. \A s \in WithStatus(e, {"verified"}) : s \in WithStatus(d, {"verified"})
        BY <1>8, <3>2 DEF WithStatus
      <4> QED BY <1>6, <4>1
    <3> QED BY <3>1, <3>2
  <2> QED BY <1>8, <2>1, <2>2, <2>3, <2>4 DEF LinksStand
<1>15. \A s \in Releases : e.readbacks[s] # None => ReadbackVerifies(e, s)
  <2> SUFFICES ASSUME NEW s \in Releases, e.readbacks[s] # None PROVE ReadbackVerifies(e, s)
    OBVIOUS
  <2>1. CASE s = r
    <3>1. e.releases[r] # None
      BY <1>1, <1>8 DEF Existing
    <3> QED BY <1>8, <1>9, <2>1, <3>1 DEF ReadbackVerifies, Settled
  <2>2. CASE s # r
    <3>1. /\ e.readbacks[s] = d.readbacks[s] /\ ReadbackVerifies(d, s)
          /\ d.readbacks[s].attempt \in Keys
      BY <1>1, <1>9, <2>2 DEF Sound, Checked, Database, ReadbackRow
    <3>2. s \in Existing(d) /\ d.readbacks[s].attempt # k
      BY <1>1, <3>1 DEF ReadbackVerifies, Existing
    <3>3. /\ e.attempts[d.readbacks[s].attempt] = d.attempts[d.readbacks[s].attempt]
          /\ e.releases[s] # None
      BY <1>8, <1>9, <3>1, <3>2 DEF Existing
    <3>4. d.releases[s].status = "manual_review" => e.releases[s].status = "manual_review"
      BY <1>8, <1>6, <2>2, <3>2
    <3> QED BY <1>10, <3>1, <3>2, <3>3, <3>4 DEF ReadbackVerifies
  <2> QED BY <2>1, <2>2
<1>16. \A j \in Keys : e.attempts[j] # None => AttemptVerifies(e, j)
  <2> SUFFICES ASSUME NEW j \in Keys, e.attempts[j] # None PROVE AttemptVerifies(e, j)
    OBVIOUS
  <2>1. CASE j = k
    <3>1. e.releases[r] # None
      BY <1>1, <1>8 DEF Existing
    <3> QED BY <1>9, <2>1, <3>1 DEF AttemptVerifies
  <2>2. CASE j # k
    <3> DEFINE x == d.attempts[j].release
    <3>1. /\ e.attempts[j] = d.attempts[j] /\ e.idem[j] = d.idem[j] /\ d.attempts[j] # None
          /\ AttemptVerifies(d, j) /\ d.attempts[j].phase # "claimed" /\ x \in Releases
      BY <1>1, <1>7, <1>9, <2>2 DEF Sound, Checked, Database, AttemptRow
    <3>2. x \in Existing(d) /\ d.readbacks[x] # None
      BY <3>1 DEF AttemptVerifies, Existing
    <3>3. e.releases[x] # None /\ e.readbacks[x] # None
      BY <1>8, <1>9, <3>2 DEF Existing
    <3>4. d.readbacks[x].outcome = "verified" => x # r
      BY <1>1, <1>10, <3>1, <3>2 DEF Sound, Checked, ReadbackVerifies
    <3>5. d.readbacks[x].outcome = "verified" => e.readbacks[x].outcome = "verified"
      BY <1>9, <3>1, <3>4
    <3> QED BY <3>1, <3>3, <3>5 DEF AttemptVerifies
  <2> QED BY <2>1, <2>2
<1>17. \A j \in Keys : e.idem[j] # None => IdempotencyVerifies(e, j)
  <2> SUFFICES ASSUME NEW j \in Keys, e.idem[j] # None PROVE IdempotencyVerifies(e, j)
    OBVIOUS
  <2>1. CASE j = k
    <3>1. e.releases[r] # None /\ IdempotencyVerifies(d, k)
      BY <1>1, <1>8 DEF Existing, Sound, Checked
    <3>2. o = "verified" => e.releases[r].status \in Settled
      BY <1>8 DEF Settled
    <3> QED BY <1>1, <1>8, <1>9, <2>1, <3>1, <3>2 DEF IdempotencyVerifies
  <2>2. CASE j # k
    <3> DEFINE x == d.idem[j].release
    <3>1. /\ e.attempts[j] = d.attempts[j] /\ e.idem[j] = d.idem[j] /\ d.idem[j] # None
          /\ IdempotencyVerifies(d, j) /\ x \in Releases
      BY <1>1, <1>9, <2>2 DEF Sound, Checked, Database, IdempotencyRow
    <3>2. x \in Existing(d) /\ e.releases[x] # None
      BY <1>8, <3>1 DEF IdempotencyVerifies, Existing
    <3>3. j \in PublishKeys /\ d.idem[j].status = "domain_committed" =>
            d.releases[x].status = "pending"
      BY <3>1 DEF Sound, KeysStand
    <3>4. d.releases[x].status = "pending" => e.releases[x].status # "superseded"
      BY <1>8, <1>6, <3>2
    <3>5. d.readbacks[x] # None => e.readbacks[x] # None
      BY <1>9, <3>1
    <3>6. d.readbacks[x].outcome = "verified" /\ d.releases[x].status \in Settled =>
            e.readbacks[x].outcome = "verified" /\ e.releases[x].status \in Settled
      BY <1>9, <1>10, <3>1, <3>2
    <3> QED BY <1>8, <3>1, <3>2, <3>3, <3>4, <3>5, <3>6 DEF IdempotencyVerifies
  <2> QED BY <2>1, <2>2
<1>18. KeysStand(e)
  <2>1. ASSUME NEW j \in PublishKeys, e.idem[j] # None, e.idem[j].status = "domain_committed"
        PROVE  e.releases[e.idem[j].release].status = "pending"
    <3> DEFINE x == d.idem[j].release
    <3>1. j # k /\ j \in Keys /\ e.idem[j] = d.idem[j]
      BY <1>9, <2>1 DEF Keys
    <3>2. d.releases[x].status = "pending" /\ x \in Existing(d)
      BY <1>1, <2>1, <3>1 DEF Sound, KeysStand, Checked, IdempotencyVerifies, Existing,
                              Database, IdempotencyRow
    <3>3. x # r
      <4>1. CASE k \in PublishKeys
        BY <1>1, <2>1, <3>1, <4>1 DEF Sound, KeysStand
      <4>2. CASE k \in ReconcileKeys
        <5>1. d.releases[r].status = "manual_review"
          BY <1>1, <4>2 DEF Sound, KeysStand, r
        <5> QED BY <3>2, <5>1
      <4> QED BY <1>1, <4>1, <4>2 DEF Keys
    <3>4. x = r
      BY <1>6, <3>2 DEF Unresolved
    <3> QED BY <3>3, <3>4
  <2>2. \A j, l \in PublishKeys :
          e.idem[j] # None /\ e.idem[l] # None /\ e.idem[j].release = e.idem[l].release => j = l
    <3>1. \A j \in PublishKeys : /\ e.idem[j] # None => d.idem[j] # None
                                 /\ e.idem[j].release = d.idem[j].release
      BY <1>1, <1>9 DEF Keys
    <3> QED BY <3>1 DEF Sound, KeysStand
  <2>3. \A j \in ReconcileKeys : ~(e.attempts[j] # None /\ e.attempts[j].phase = "claimed")
    BY <1>7, <1>9 DEF Keys
  <2> QED BY <1>9, <2>1, <2>2, <2>3 DEF Sound, KeysStand
<1> QED BY <1>2, <1>5, <1>9, <1>11, <1>12, <1>13, <1>14, <1>15, <1>16, <1>17, <1>18
        DEF Sound, Checked, e

-----------------------------------------------------------------------------
(* That no service latches the fatal error because of what it wrote: the   *)
(* writes above, with what each operation has made ready for its next step.*)

\* What the operation in flight has made ready for its next step.
Prepared ==
    /\ op.pc \in {"stage", "observe"} => db.lastEventAt <= op.at /\ op.at <= clock
    /\ op.pc = "stage" =>
         /\ db.attempts[op.key] = None
         /\ op.key \in PublishKeys =>
              /\ db.idem[op.key] # None
              /\ db.idem[op.key].status = "domain_committed"
              /\ db.idem[op.key].release = op.release
              /\ db.idem[op.key].createdAt <= op.at
              /\ db.releases[op.release].status = "pending"
         /\ op.key \in ReconcileKeys =>
              /\ db.idem[op.key] = None
              /\ db.releases[op.release].status = "manual_review"
    /\ op.pc = "observe" =>
         /\ op.key \in ClaimedKeys(db)
         /\ db.attempts[op.key].claimedAt <= op.at
         /\ db.attempts[op.key].boot = boot

SteadyInv ==
    /\ SettledInv
    /\ Sound(db)
    /\ NoInternalFatal
    /\ db.lastEventAt <= clock
    /\ Prepared

\* The fatal causes that are the service's own doing.
OwnCauses == {"verifier", "disagreement", "clock"}

\* A step that ends with no operation in flight.
LEMMA SteadyAtRest ==
    ASSUME SettledInv', Sound(db'), fatal' \notin OwnCauses, db'.lastEventAt <= clock', op' = Idle
    PROVE  SteadyInv'
BY DEF SteadyInv, NoInternalFatal, OwnCauses, Prepared, Idle

\* A transaction with a sound database is not refused.
LEMMA SoundIsWritten ==
    ASSUME AllInWindow, NEW e, Sound(e), Transaction(e) \/ CriticalTransaction(e)
    PROVE  /\ fatal' \notin OwnCauses
           /\ db' = e \/ (db' = db /\ fatal' # "none")
BY SoundVerifies DEF Transaction, CriticalTransaction, TripFatal, OwnCauses

\* Between two operations the gate agrees with the store, and nothing is open.
LEMMA ReadyIs ==
    ASSUME AllInWindow, SteadyInv, Ready
    PROVE  /\ op = Idle /\ NothingOpen(db) /\ snapshot = ActiveSnapshot(db)
           /\ GateAgreesWith(db) /\ db \in Database /\ clock \in Nat
           /\ LineVerifies(db) /\ Sound(db) /\ db.lastEventAt <= clock
<1>1. /\ op = Idle /\ NothingOpen(db) /\ db \in Database /\ clock \in Nat
      /\ LineVerifies(db) /\ Sound(db) /\ db.lastEventAt <= clock
  BY SoundVerifies, PlaneAssumption
     DEF Ready, SteadyInv, SettledInv, OpenIsOfOp, Idle, IInv, TypeOK
<1>2. snapshot = ActiveSnapshot(db)
  BY <1>1 DEF Ready, SteadyInv, SettledInv, IInv, GateOK, Idle
<1>3. ASSUME snapshot.release # None
      PROVE  db.readbacks[snapshot.release] # None /\ db.readbacks[snapshot.release].outcome = "verified"
  <2>1. snapshot # Inactive
    BY <1>3 DEF Inactive
  <2>2. snapshot.release \in WithStatus(db, {"verified"})
    BY <1>1, <1>2, <2>1, ActiveSnapshotServes
  <2>3. ReleaseStands(db, snapshot.release) /\ db.releases[snapshot.release].status = "verified"
    BY <1>1, <2>2 DEF Sound, Checked, WithStatus
  <2> QED BY <2>3 DEF ReleaseStands, Settled
<1> QED BY <1>1, <1>2, <1>3 DEF GateAgreesWith

\* A write between two operations.
LEMMA WriteSteady ==
    ASSUME AllInWindow, SteadyInv, SettledInv', Ready, NEW e, Sound(e), e.lastEventAt = clock,
           Transaction(e), UNCHANGED <<volatile, op>>
    PROVE  SteadyInv'
<1>1. op = Idle /\ clock \in Nat /\ db.lastEventAt <= clock /\ Sound(db)
  BY ReadyIs
<1>2. fatal' \notin OwnCauses /\ (db' = e \/ db' = db)
  BY SoundIsWritten
<1>3. op' = Idle /\ clock' = clock
  BY <1>1 DEF volatile
<1> QED BY <1>1, <1>2, <1>3, SteadyAtRest

\* A failure that is not the service's doing, between two operations.
LEMMA TripSteady ==
    ASSUME AllInWindow, SteadyInv, SettledInv', Ready, NEW cause, cause \notin OwnCauses,
           TripFatal(cause),
           UNCHANGED <<volatile, op>>
    PROVE  SteadyInv'
<1>1. op = Idle /\ db.lastEventAt <= clock /\ Sound(db)
  BY ReadyIs
<1>2. op' = Idle /\ clock' = clock /\ db' = db /\ fatal' \notin OwnCauses
  BY <1>1 DEF volatile, TripFatal
<1> QED BY <1>1, <1>2, SteadyAtRest

\* Registrations, previews and approvals.
LEMMA PrepareSteady ==
    ASSUME AllInWindow, SteadyInv, SettledInv', Prepare
    PROVE  SteadyInv'
<1>1. ASSUME NEW m \in ModuleSets, Register(m) PROVE SteadyInv'
  <2> DEFINE e == RegisterModule(db, m, clock)
  <2>1. Ready /\ Transaction(e) /\ UNCHANGED <<volatile, op>>
    BY <1>1 DEF Register
  <2>2. Sound(e)
    BY <2>1, ReadyIs, RegisterSound
  <2>3. e.lastEventAt = clock
    BY <2>1, ReadyIs DEF RegisterModule, WithEvent, Database
  <2> HIDE DEF e
  <2> QED BY <2>1, <2>2, <2>3, WriteSteady
<1>2. ASSUME NEW p \in Previews, NEW a \in Actors, NEW m \in ModuleSets,
             NEW t \in Releases \cup {None}, CreatePreview(p, a, m, t)
      PROVE  SteadyInv'
  <2> DEFINE row == [creator |-> a, base |-> snapshot.release,
                     baseRevision |-> snapshot.revision, desired |-> m,
                     target |-> t, expiresAt |-> clock + Ttl, consumed |-> FALSE]
             e == InsertPreview(db, p, row, clock)
  <2>1. Ready
    BY <1>2 DEF CreatePreview
  <2>2. /\ GateAgreesWith(db) /\ snapshot = ActiveSnapshot(db) /\ db \in Database /\ clock \in Nat
        /\ LineVerifies(db) /\ Sound(db) /\ db.lastEventAt <= clock
    BY <2>1, ReadyIs
  <2>3. /\ db.previews[p] = None
        /\ t # None => /\ t \in Existing(db)
                       /\ db.releases[t].revision < snapshot.revision
                       /\ db.releases[t].status \in Settled
                       /\ m = db.releases[t].desired
        /\ Transaction(e) /\ UNCHANGED <<volatile, op>>
    BY <1>2, <2>2 DEF CreatePreview, History
  <2>4. row \in PreviewRow
    <3>1. clock + Ttl \in Nat
      BY <2>2, StoreAssumption
    <3>2. snapshot.release \in Releases \cup {None} /\ snapshot.revision \in Nat
      BY DEF SteadyInv, SettledInv, IInv, TypeOK
    <3> QED BY <3>1, <3>2 DEF PreviewRow
  <2>5. /\ row.base = snapshot.release /\ row.baseRevision = snapshot.revision
        /\ row.target = t /\ row.desired = m
    OBVIOUS
  <2> HIDE DEF row
  <2>6. IF snapshot.release = None THEN snapshot.revision = 0
        ELSE /\ db.releases[snapshot.release] # None
             /\ db.releases[snapshot.release].revision = snapshot.revision
             /\ db.releases[snapshot.release].status \in Settled
    <3>1. CASE ActiveSnapshot(db) = Inactive
      BY <2>2, <3>1 DEF Inactive
    <3>2. CASE ActiveSnapshot(db) # Inactive
      <4>1. /\ snapshot.release \in WithStatus(db, {"verified"})
            /\ snapshot.revision = db.releases[snapshot.release].revision
        BY <2>2, <3>2, ActiveSnapshotServes
      <4> QED BY <4>1, StoreAssumption DEF WithStatus, Existing, Settled
    <3> QED BY <3>1, <3>2
  <2>7. RowStands(db, row)
    BY <2>3, <2>5, <2>6 DEF RowStands, Existing
  <2>8. Sound(e)
    BY <2>2, <2>3, <2>4, <2>7, PreviewSound
  <2>9. e.lastEventAt = clock
    BY <2>2 DEF InsertPreview, WithEvent, Database
  <2> HIDE DEF e
  <2> QED BY <2>1, <2>3, <2>8, <2>9, WriteSteady
<1>3. ASSUME NEW p \in Previews, NEW a \in Actors, NEW decision \in {"approve", "reject"},
             Decide(p, a, decision)
      PROVE  SteadyInv'
  <2> DEFINE row == [approver |-> a, decision |-> decision, consumed |-> FALSE]
             e == InsertApproval(db, p, row, clock)
  <2>1. Ready /\ Transaction(e) /\ UNCHANGED <<volatile, op>>
    BY <1>3 DEF Decide
  <2>2. db \in Database /\ clock \in Nat /\ Sound(db) /\ db.lastEventAt <= clock
    BY <2>1, ReadyIs
  <2>3. row \in ApprovalRow /\ ~row.consumed /\ row.approver = a
    BY DEF ApprovalRow
  <2>4. /\ db.previews[p] # None /\ db.approvals[p] = None
        /\ ~db.previews[p].consumed /\ a # db.previews[p].creator
    BY <1>3 DEF Decide
  <2> HIDE DEF row
  <2>5. Sound(e)
    BY <2>2, <2>3, <2>4, ApprovalSound
  <2>6. e.lastEventAt = clock
    BY <2>2 DEF InsertApproval, WithEvent, Database
  <2> HIDE DEF e
  <2> QED BY <2>1, <2>5, <2>6, WriteSteady
<1>4. ASSUME NEW p \in Previews, ReplayPreview(p) \/ ReplayDecision(p) PROVE SteadyInv'
  BY <1>4, TripSteady DEF ReplayPreview, ReplayDecision, OwnCauses
<1> QED BY <1>1, <1>2, <1>3, <1>4 DEF Prepare

\* A publish makes its first step ready, or fails for what the client asked.
LEMMA PublishSteady ==
    ASSUME AllInWindow, SteadyInv, SettledInv', NEW k \in PublishKeys, NEW p \in Previews,
           NEW q \in Previews, NEW r \in Releases, Publish(k, p, q, r)
    PROVE  SteadyInv'
<1> DEFINE e == PublishRelease(db, k, p, r, clock)
<1>1. /\ Ready /\ UNCHANGED volatile /\ db.idem[k] = None
      /\ db.previews[p] # None /\ db.approvals[q] # None
  BY DEF Publish
<1>2. /\ op = Idle /\ GateAgreesWith(db) /\ db \in Database /\ clock \in Nat /\ LineVerifies(db)
      /\ Sound(db) /\ db.lastEventAt <= clock
  BY <1>1, ReadyIs
<1>3. p = q => db.approvals[p].approver # db.previews[p].creator
  BY <1>1, <1>2 DEF Sound, KeysStand
<1>4. \/ TripFatal("mismatched_request") /\ UNCHANGED op
      \/ /\ p = q /\ r \in Releases \ Existing(db) /\ CanPublish(db, p, clock)
         /\ Transaction(e)
         /\ IF fatal' = "none" THEN Begin("publish", k, r) ELSE UNCHANGED op
  BY <1>2, <1>3 DEF Publish
<1>5. CASE TripFatal("mismatched_request") /\ UNCHANGED op
  BY <1>1, <1>5, TripSteady DEF OwnCauses
<1>6. CASE /\ p = q /\ r \in Releases \ Existing(db) /\ CanPublish(db, p, clock)
           /\ Transaction(e)
           /\ IF fatal' = "none" THEN Begin("publish", k, r) ELSE UNCHANGED op
  <2>1. Sound(e)
    BY <1>1, <1>2, <1>6, PublishSound
  <2>2. /\ db.idem[k] = None /\ k \in Keys
        /\ Published(db, e, k, p, r, clock)
    BY <1>1, <1>2, <1>6, PublishTables DEF Keys
  <2>3. e.releases[r] = NewRelease(db, p, clock)
    BY <1>1, <1>2, <1>6, <2>2, PublishRows DEF CanPublish, Sound
  <2> HIDE DEF e
  <2>4. /\ e.idem[k] # None /\ e.idem[k].status = "domain_committed"
        /\ e.idem[k].release = r /\ e.idem[k].createdAt = clock
        /\ e.attempts = db.attempts /\ e.lastEventAt = clock
    BY <2>2 DEF Published
  <2>5. e.releases[r].status = "pending"
    BY <2>3 DEF NewRelease
  <2>6. db.attempts[k] = None
    BY <1>1, <1>2, <2>2 DEF Sound, Checked, AttemptVerifies
  <2>7. fatal' \notin OwnCauses /\ (db' = e \/ (db' = db /\ fatal' # "none"))
    BY <1>6, <2>1, SoundIsWritten
  <2>8. CASE fatal' = "none"
    <3>1. /\ db' = e /\ clock' = clock
          /\ op'.pc = "stage" /\ op'.key = k /\ op'.release = r /\ op'.at = clock
      BY <1>1, <1>6, <2>7, <2>8 DEF Begin, volatile
    <3>2. k \notin ReconcileKeys
      BY StoreAssumption
    <3>3. Prepared'
      BY <1>2, <2>4, <2>5, <2>6, <3>1, <3>2 DEF Prepared
    <3> QED BY <1>2, <2>1, <2>4, <2>7, <3>1, <3>3 DEF SteadyInv, NoInternalFatal, OwnCauses
  <2>9. CASE fatal' # "none"
    <3>1. op' = Idle /\ clock' = clock
      BY <1>1, <1>2, <1>6, <2>9 DEF volatile
    <3> QED BY <1>2, <2>1, <2>4, <2>7, <3>1, SteadyAtRest
  <2> QED BY <2>8, <2>9
<1> QED BY <1>4, <1>5, <1>6

\* Nothing waits for the answer of a publish at rest, so none is resumed.
LEMMA NothingToResume ==
    ASSUME AllInWindow, SteadyInv, NEW k \in PublishKeys, Resume(k)
    PROVE  FALSE
<1>1. Ready /\ db.idem[k] # None /\ db.idem[k].status = "domain_committed" /\ k \in Keys
  BY DEF Resume, Keys
<1>2. NothingOpen(db) /\ Sound(db) /\ db \in Database
  BY <1>1, ReadyIs
<1>3. db.releases[db.idem[k].release].status = "pending" /\ db.idem[k].release \in Existing(db)
  BY <1>1, <1>2 DEF Sound, KeysStand, Checked, IdempotencyVerifies, Existing, Database, IdempotencyRow
<1> QED BY <1>2, <1>3 DEF NothingOpen, WithStatus

\* A reconcile finds what it asks for in order.
LEMMA ReconcileSteady ==
    ASSUME AllInWindow, SteadyInv, SettledInv', NEW k \in ReconcileKeys, NEW r \in Releases,
           Reconcile(k, r)
    PROVE  SteadyInv'
<1>1. Ready /\ UNCHANGED volatile /\ db.idem[k] = None /\ db.releases[r] # None /\ k \in Keys
  BY DEF Reconcile, Keys
<1>2. /\ op = Idle /\ NothingOpen(db) /\ db \in Database /\ clock \in Nat
      /\ Sound(db) /\ db.lastEventAt <= clock
  BY <1>1, ReadyIs
<1>3. ReleaseStands(db, r)
  BY <1>1, <1>2 DEF Sound, Checked, Existing
<1>4. \/ TripFatal("nothing_unresolved") /\ UNCHANGED op
      \/ /\ db.releases[r].status = "manual_review"
         /\ Begin("reconcile", k, r) /\ UNCHANGED <<db, fatal>>
  BY <1>3 DEF Reconcile, ReleaseStands
<1>5. CASE TripFatal("nothing_unresolved") /\ UNCHANGED op
  BY <1>1, <1>5, TripSteady DEF OwnCauses
<1>6. CASE /\ db.releases[r].status = "manual_review"
           /\ Begin("reconcile", k, r) /\ UNCHANGED <<db, fatal>>
  <2>1. db.attempts[k] = None
    BY <1>1, <1>2 DEF Sound, Checked, AttemptVerifies
  <2>2. /\ db' = db /\ clock' = clock /\ fatal' = fatal
        /\ op'.pc = "stage" /\ op'.key = k /\ op'.release = r /\ op'.at = clock
    BY <1>1, <1>6 DEF Begin, volatile
  <2>3. k \notin PublishKeys
    BY StoreAssumption
  <2>4. Prepared'
    BY <1>1, <1>2, <1>6, <2>1, <2>2, <2>3 DEF Prepared
  <2> QED BY <1>2, <2>2, <2>4 DEF SteadyInv, NoInternalFatal
<1> QED BY <1>4, <1>5, <1>6

\* A reconcile is answered in the operation that claimed its readback.
LEMMA ReplaySteady ==
    ASSUME AllInWindow, SteadyInv, SettledInv',
           (\E k \in ReconcileKeys : ReplayReconcile(k)) \/ (\E k \in PublishKeys : ReplayPublish(k))
    PROVE  SteadyInv'
<1>1. ASSUME NEW k \in ReconcileKeys, ReplayReconcile(k) PROVE SteadyInv'
  <2>1. Ready /\ UNCHANGED <<volatile, op>> /\ db.idem[k] # None /\ k \in Keys
    BY <1>1 DEF ReplayReconcile, Keys
  <2>2. NothingOpen(db) /\ Sound(db) /\ db \in Database
    BY <2>1, ReadyIs
  <2>3. db.attempts[k] # None /\ AttemptVerifies(db, k)
    BY <2>1, <2>2, StoreAssumption DEF Sound, Checked, IdempotencyVerifies
  <2>4. db.attempts[k].phase # "claimed"
    BY <2>1, <2>2, <2>3 DEF NothingOpen, ClaimedKeys
  <2>5. db.idem[k].status = "completed"
    BY <2>3, <2>4 DEF AttemptVerifies
  <2>6. TripFatal("reconcile_replay")
    BY <1>1, <2>5 DEF ReplayReconcile
  <2> QED BY <2>1, <2>6, TripSteady DEF OwnCauses
<1>2. ASSUME NEW k \in PublishKeys, ReplayPublish(k) PROVE SteadyInv'
  BY <1>2, TripSteady DEF ReplayPublish, OwnCauses
<1> QED BY <1>1, <1>2

\* The gate takes the candidate and the store the claim.
LEMMA StageSteady ==
    ASSUME AllInWindow, SteadyInv, SettledInv', StageAndClaim
    PROVE  SteadyInv'
<1> DEFINE r == op.release
           k == op.key
           e == ClaimAttempt(db, k, r, boot, op.at)
<1>1. /\ op.pc = "stage" /\ up /\ fatal = "none" /\ stage = None
      /\ k \in Keys /\ r \in Existing(db) /\ r \in Releases /\ r # None
      /\ snapshot = ActiveSnapshot(db)
  BY StoreAssumption DEF StageAndClaim, SteadyInv, SettledInv, IInv, OpOK, GateOK, Existing
<1>2. /\ db \in Database /\ clock \in Nat /\ op.at \in Nat /\ boot \in Nat /\ op \in [pc : {"idle", "stage", "observe", "commit"}, kind : OpKinds,
               key : Keys \cup {None}, release : Releases \cup {None},
               at : 0..MaxClock, outcome : Outcomes \cup {"none"}]
      /\ LineVerifies(db) /\ Sound(db) /\ InLine(db) /\ db.lastEventAt <= clock
  BY SoundVerifies, PlaneAssumption DEF SteadyInv, SettledInv, IInv, TypeOK, Sound
<1>3. ClaimedKeys(db) = {}
  BY <1>1 DEF SteadyInv, SettledInv, OpenIsOfOp
<1>4. /\ db.lastEventAt <= op.at /\ op.at <= clock
      /\ db.attempts[k] = None
      /\ k \in PublishKeys => /\ db.idem[k] # None
                              /\ db.idem[k].status = "domain_committed"
                              /\ db.idem[k].release = r
                              /\ db.idem[k].createdAt <= op.at
                              /\ db.releases[r].status = "pending"
      /\ k \in ReconcileKeys => db.idem[k] = None /\ db.releases[r].status = "manual_review"
  BY <1>1 DEF SteadyInv, Prepared
<1>5. r \in WithStatus(db, Unresolved)
  BY <1>1, <1>4 DEF Keys, WithStatus, Unresolved
<1>6. CanClaim(db, k, r, op.at)
  <2>1. NewestUnresolved(db) = r
    BY <1>2, <1>5, UnresolvedIs
  <2> QED BY <1>1, <1>3, <1>4, <2>1 DEF CanClaim, Keys, Existing
<1>7. db.releases[r].revision > snapshot.revision
  <2>1. db.releases[r].revision = Length(db) + 1 /\ snapshot.revision = Length(db) /\ Length(db) \in Nat
    BY <1>1, <1>2, <1>5, ActiveIsLast, LengthIsNat DEF InLine
  <2> QED BY <2>1
<1>8. CriticalTransaction(e) /\ Continue("observe", Candidate(db, r)) /\ boot' = boot /\ clock' = clock
  BY <1>1, <1>6, <1>7 DEF StageAndClaim
<1>9. Sound(e)
  BY <1>1, <1>2, <1>4, <1>6, ClaimSound
<1>10. k \in ClaimedKeys(e) /\ e.attempts[k].claimedAt = op.at /\ e.attempts[k].boot = boot
  <2> DEFINE arow == [phase |-> "claimed", release |-> r, boot |-> boot,
                      claimedAt |-> op.at, outcome |-> None]
  <2>1. e.attempts[k] = arow
    BY <1>1, <1>2 DEF ClaimAttempt, Database
  <2>2. arow \in AttemptRow
    BY <1>1, <1>2 DEF AttemptRow
  <2>3. arow.phase = "claimed" /\ arow.claimedAt = op.at /\ arow.boot = boot
    OBVIOUS
  <2>4. arow # None
    BY <2>2, RowAssumption
  <2> HIDE DEF arow, e
  <2> QED BY <1>1, <2>1, <2>3, <2>4 DEF ClaimedKeys
<1>11. e.lastEventAt = db.lastEventAt
  BY <1>2 DEF ClaimAttempt, Database
<1> HIDE DEF e, k, r
<1>12. fatal' \notin OwnCauses /\ (db' = e \/ (db' = db /\ fatal' # "none"))
  BY <1>8, <1>9, SoundIsWritten
<1>13. CASE fatal' = "none"
  <2>1. op' = [op EXCEPT !.pc = "observe"]
    BY <1>8, <1>13 DEF Continue
  <2>2. op'.pc = "observe" /\ op'.key = k /\ op'.at = op.at /\ db' = e
    BY <1>2, <1>12, <1>13, <2>1 DEF k
  <2>3. /\ op'.key \in ClaimedKeys(db') /\ db'.attempts[op'.key].claimedAt <= op'.at
        /\ db'.attempts[op'.key].boot = boot'
    BY <1>2, <1>8, <1>10, <2>2
  <2>4. db'.lastEventAt <= op'.at /\ op'.at <= clock'
    BY <1>4, <1>8, <1>11, <2>2
  <2>5. Prepared'
    BY <2>2, <2>3, <2>4 DEF Prepared
  <2> QED BY <1>2, <1>8, <1>9, <1>11, <1>12, <2>2, <2>5 DEF SteadyInv, NoInternalFatal, OwnCauses
<1>14. CASE fatal' # "none"
  <2>1. op' = Idle
    BY <1>8, <1>14 DEF Continue
  <2> QED BY <1>2, <1>8, <1>9, <1>11, <1>12, <2>1, SteadyAtRest
<1> QED BY <1>13, <1>14

\* The owner finalizes what it claimed, whatever it has observed.
LEMMA ObserveSteady ==
    ASSUME AllInWindow, SteadyInv, SettledInv', NEW o \in ReadbackOutcomes, ObserveAndFinalize(o)
    PROVE  SteadyInv'
<1> DEFINE k == op.key
           e == FinalizeAttempt(db, k, o, op.at)
<1>1. op.pc = "observe" /\ clock' = clock
  BY DEF ObserveAndFinalize
<1>2. /\ db \in Database /\ clock \in Nat /\ op.at \in Nat /\ o \in Outcomes
      /\ Sound(db) /\ OneClaim(db) /\ op \in [pc : {"idle", "stage", "observe", "commit"}, kind : OpKinds,
               key : Keys \cup {None}, release : Releases \cup {None},
               at : 0..MaxClock, outcome : Outcomes \cup {"none"}]
  BY PlaneAssumption DEF SteadyInv, SettledInv, IInv, TypeOK
<1>3. /\ k \in ClaimedKeys(db) /\ db.attempts[k].claimedAt <= op.at /\ db.attempts[k].boot = boot
      /\ db.lastEventAt <= op.at /\ op.at <= clock
  BY <1>1 DEF SteadyInv, Prepared
<1>4. OwnerCanFinalize(db, k, boot, op.at)
  BY <1>2, <1>3, ClaimIsOpen DEF OwnerCanFinalize, CanFinalize, ClaimedKeys
<1>5. /\ CriticalTransaction(e)
      /\ IF fatal' = "none" THEN op' = [op EXCEPT !.pc = "commit", !.outcome = o] ELSE op' = Idle
  BY <1>4 DEF ObserveAndFinalize
<1>6. Sound(e)
  BY <1>2, <1>3, FinalizeSound
<1>7. e.lastEventAt = op.at
  BY <1>2 DEF FinalizeAttempt, WithEvent, Database
<1> HIDE DEF e
<1>8. fatal' \notin OwnCauses /\ (db' = e \/ (db' = db /\ fatal' # "none"))
  BY <1>5, <1>6, SoundIsWritten
<1>9. db'.lastEventAt <= clock' /\ Sound(db')
  BY <1>1, <1>2, <1>3, <1>6, <1>7, <1>8 DEF SteadyInv
<1>10. CASE fatal' = "none"
  <2>1. op'.pc = "commit"
    BY <1>2, <1>5, <1>10
  <2>2. Prepared'
    BY <2>1 DEF Prepared
  <2> QED BY <1>8, <1>9, <2>2 DEF SteadyInv, NoInternalFatal, OwnCauses
<1>11. CASE fatal' # "none"
  BY <1>5, <1>8, <1>9, <1>11, SteadyAtRest
<1> QED BY <1>10, <1>11

\* The operations.
LEMMA DeploySteady ==
    ASSUME AllInWindow, SteadyInv, SettledInv', Deploy
    PROVE  SteadyInv'
<1>1. ASSUME CommitGate PROVE SteadyInv'
  <2>1. /\ op' = Idle /\ db' = db /\ clock' = clock
        /\ fatal' = fatal \/ fatal' = "readback_tie"
    BY <1>1 DEF CommitGate, TripFatal
  <2> QED BY <2>1, SteadyAtRest DEF SteadyInv, NoInternalFatal, OwnCauses
<1> QED BY <1>1, PublishSteady, NothingToResume, ReconcileSteady, ReplaySteady, StageSteady,
           ObserveSteady DEF Deploy

\* The recovery of a managed start finalizes what a crash has left.
LEMMA RecoveredSound ==
    ASSUME AllInWindow, SteadyInv
    PROVE  /\ Sound(Recovered)
           /\ CanRecover => Recovered.lastEventAt <= clock
<1>1. db \in Database /\ Sound(db) /\ OneClaim(db) /\ clock \in Nat /\ db.lastEventAt <= clock
  BY PlaneAssumption DEF SteadyInv, SettledInv, IInv, TypeOK
<1>2. CASE ClaimedKeys(db) = {}
  BY <1>1, <1>2 DEF Recovered
<1>3. CASE ClaimedKeys(db) # {}
  <2>1. PICK k \in ClaimedKeys(db) : Recovered = FinalizeAttempt(db, k, "interrupted", clock)
    BY <1>3 DEF Recovered
  <2>2. Sound(FinalizeAttempt(db, k, "interrupted", clock))
    BY <1>1, FinalizeSound DEF Outcomes
  <2>3. FinalizeAttempt(db, k, "interrupted", clock).lastEventAt = clock
    BY <1>1 DEF FinalizeAttempt, WithEvent, Database
  <2> QED BY <1>1, <2>1, <2>2, <2>3
<1> QED BY <1>2, <1>3

\* Crashes, starts and the clock.
LEMMA EnvironmentSteady ==
    ASSUME AllInWindow, ClockMayStepBack = FALSE, SteadyInv, SettledInv', Environment
    PROVE  SteadyInv'
<1>1. CASE Crash
  BY <1>1, SteadyAtRest DEF Crash, SteadyInv, OwnCauses
<1>2. CASE Start \/ StartRefused
  <2>1. /\ (db' = Recovered /\ CanRecover) \/ db' = db
        /\ op' = op /\ clock' = clock /\ fatal' = fatal
    BY <1>2 DEF Start, StartRefused
  <2>2. op = Idle
    BY <1>2 DEF Start, StartRefused, SteadyInv, SettledInv, IInv, DownOK
  <2>3. Sound(db') /\ db'.lastEventAt <= clock'
    BY <2>1, RecoveredSound DEF SteadyInv
  <2> QED BY <2>1, <2>2, <2>3, SteadyAtRest DEF SteadyInv, NoInternalFatal, OwnCauses
<1>3. CASE Tick
  <2>1. /\ clock \in Nat /\ clock' \in Nat /\ clock < clock' /\ UNCHANGED <<db, boot, up, fatal, op>>
        /\ db.lastEventAt \in Nat /\ op.at \in Nat
    BY <1>3, PlaneAssumption DEF Tick, SteadyInv, SettledInv, IInv, TypeOK, Database
  <2>2. db'.lastEventAt <= clock' /\ (op.at <= clock => op'.at <= clock')
    BY <2>1 DEF SteadyInv
  <2>3. Prepared'
    BY <2>1, <2>2 DEF SteadyInv, Prepared, ClaimedKeys
  <2> QED BY <2>1, <2>2, <2>3 DEF SteadyInv, NoInternalFatal
<1> QED BY <1>1, <1>2, <1>3 DEF Environment

\* An empty database is sound.
LEMMA SteadyInit == Init => SteadyInv
<1> SUFFICES ASSUME Init PROVE SteadyInv
  OBVIOUS
<1>1. db = EmptyDatabase /\ op = Idle /\ fatal = "none" /\ clock = 0
  BY DEF Init
<1>2. SettledInv
  BY SettledInit
<1>3. /\ Existing(db) = {} /\ \A S : WithStatus(db, S) = {}
      /\ \A p \in Previews : db.previews[p] = None /\ db.approvals[p] = None
      /\ \A r \in Releases : db.readbacks[r] = None
      /\ \A k \in Keys : db.attempts[k] = None /\ db.idem[k] = None
      /\ db.eventsOrdered /\ db.lastEventAt = 0
  BY <1>1 DEF WithStatus, Existing, EmptyDatabase
<1>4. InLine(db)
  BY LineInvInit DEF LineInv
<1>5. Checked(db) /\ KeysStand(db)
  BY <1>3 DEF Checked, LinksStand, KeysStand, Keys
<1> QED BY <1>1, <1>2, <1>3, <1>4, <1>5
        DEF SteadyInv, SettledInv, IInv, TypeOK, Sound, NoInternalFatal, Prepared, Idle

\* With every boot managed, a clock that is not set back and no more releases
\* than the bounded history keeps, no service latches the fatal error because
\* of what it wrote itself: the verifier refuses none of the writes, the guards
\* of the store agree with those of the service and the gate with the database
\* (verifyRepositorySemantics, claimReadbackAttempt, previewBaseAgreesWithRuntime).
THEOREM NothingOfItsOwnIsFatal ==
    ASSUME AllManaged, ClockMayStepBack = FALSE, AllInWindow
    PROVE  Spec => []NoInternalFatal
<1>1. SteadyInv /\ [Next]_vars => SteadyInv'
  <2> SUFFICES ASSUME SteadyInv, [Next]_vars PROVE SteadyInv'
    OBVIOUS
  <2>1. SettledInv'
    BY SettledNext DEF SteadyInv
  <2>2. CASE UNCHANGED vars
    BY <2>1, <2>2 DEF vars, SteadyInv, NoInternalFatal, Prepared, ClaimedKeys
  <2> QED BY <2>1, <2>2, PrepareSteady, DeploySteady, EnvironmentSteady DEF Next
<1>2. SteadyInv => NoInternalFatal
  BY DEF SteadyInv
<1> QED BY <1>1, <1>2, SteadyInit, PTL DEF Spec
=============================================================================
