---------------------------- MODULE ControlPlane ----------------------------
(***************************************************************************)
(* The deployment control plane: the write operations of                   *)
(* control-plane/service.ts over the control store, the activation gate    *)
(* (activation-authority-internal.ts) that decides what is dispatched, and *)
(* the crash and restart of the process that owns them (server/start.ts).  *)
(*                                                                         *)
(* Every operation runs under the mutation coordinator's writer lock       *)
(* (module MutationCoordinator), so at most one is in flight, and none     *)
(* starts after the fatal error has been latched.  An operation is split   *)
(* where it leaves durable state behind and a crash could strike:          *)
(*   Publish / Resume / Reconcile   the checks and, for a new release, the *)
(*                                  transaction that creates it;           *)
(*   StageAndClaim                  the gate's candidate and the durable   *)
(*                                  claim of the readback;                 *)
(*   ObserveAndFinalize             the readback and the transaction that  *)
(*                                  makes its outcome final;               *)
(*   CommitGate                     the reread and the switch of the gate. *)
(* An operation that answers blocked or unavailable changes nothing and is *)
(* a stuttering step.  fatal keeps why the runtime latched its fatal error *)
(***************************************************************************)
EXTENDS ControlStore

CONSTANTS
    ReadbackOutcomes,           \* what the service may observe of a staged candidate:
                                \* the gate's own driver returns the candidate itself,
                                \* a driver put in its place may not
    ManagedBoots,               \* the boots createManagedFixtureRuntime makes; any
                                \* other is an assembly built over the store
    ClockMayStepBack,           \* whether the wall clock may be set back
    MaxClock,                   \* bound on the wall clock
    MaxBoot                     \* bound: the last boot, which does not crash

ASSUME PlaneAssumption ==
    /\ ReadbackOutcomes \subseteq Outcomes \ {"interrupted"}
    /\ ManagedBoots \subseteq Nat
    /\ ClockMayStepBack \in BOOLEAN
    /\ MaxClock \in Nat
    /\ MaxBoot \in Nat \ {0}

\* What the gate may have staged.
Candidates == [release : Releases, revision : Nat, desired : ModuleSets, proof : BOOLEAN]

ASSUME CandidateAssumption == None \notin Candidates

VARIABLES
    db,                         \* the control database, the only durable part
    boot,                       \* the owner boot of the running process
    up,                         \* whether the process is running
    fatal,                      \* why the fatal error is latched, or "none"
    snapshot,                   \* the gate's activation snapshot
    stage,                      \* the gate's staged candidate, or None
    op,                         \* the operation in flight
    clock                       \* the wall clock

vars == <<db, boot, up, fatal, snapshot, stage, op, clock>>

Causes == {"none", "io", "clock", "verifier", "disagreement", "readback_tie",
           "preview_replay", "approval_replay", "publish_replay",
           "reconcile_replay", "nothing_unresolved", "mismatched_request"}

Inactive == [release |-> None, revision |-> 0, desired |-> None]

Idle == [pc |-> "idle", kind |-> "none", key |-> None, release |-> None,
         at |-> 0, outcome |-> "none"]

Init ==
    /\ db = EmptyDatabase
    /\ boot = 1
    /\ up = TRUE
    /\ fatal = "none"
    /\ snapshot = Inactive
    /\ stage = None
    /\ op = Idle
    /\ clock = 0

-----------------------------------------------------------------------------
(* Helpers of the operations.                                              *)

Ready == up /\ fatal = "none" /\ op = Idle

\* The snapshot the database would give the gate.
ActiveSnapshot(d) ==
    LET r == ActiveRelease(d) IN
    IF r = None THEN Inactive
    ELSE [release |-> r, revision |-> d.releases[r].revision,
          desired |-> d.releases[r].desired]

\* previewBaseAgreesWithRuntime.
GateAgreesWith(d) ==
    /\ snapshot = ActiveSnapshot(d)
    /\ snapshot.release # None =>
         /\ d.readbacks[snapshot.release] # None
         /\ d.readbacks[snapshot.release].outcome = "verified"

TripFatal(cause) == fatal' = cause /\ UNCHANGED db

\* A repository transaction.  What the verifier refuses is rolled back and
\* quarantines the store; the verification after COMMIT can fail as well,
\* and then the write is durable although the operation fails.  Such failures
\* are explored only while a later boot could still find what they left.
Transaction(new) ==
    \/ Verifies(new) /\ db' = new /\ fatal' = "none"
    \/ Verifies(new) /\ boot < MaxBoot /\ db' = new /\ fatal' = "io"
    \/ ~Verifies(new) /\ TripFatal("verifier")

\* The same inside the critical section, where every failure is fatal.
CriticalTransaction(new) ==
    \/ Transaction(new)
    \/ boot < MaxBoot /\ TripFatal("io")

volatile == <<boot, up, snapshot, stage, clock>>

-----------------------------------------------------------------------------
(* Register, preview and approval.                                         *)

Register(m) ==
    /\ Ready
    /\ m \notin db.registered
    /\ Transaction(RegisterModule(db, m, clock))
    /\ UNCHANGED <<volatile, op>>

\* desired is asked for by a change and taken from the target of a rollback.
CreatePreview(p, creator, desired, target) ==
    /\ Ready
    /\ db.previews[p] = None
    /\ IF ~GateAgreesWith(db) THEN TripFatal("disagreement")
       ELSE /\ target # None =>
                 /\ snapshot.release # None
                 /\ target \in History(db)
                 /\ db.releases[target].revision < snapshot.revision
                 /\ db.releases[target].status \in Settled
                 /\ desired = db.releases[target].desired
            /\ desired \in db.registered
            /\ Transaction(InsertPreview(db, p,
                 [creator |-> creator, base |-> snapshot.release,
                  baseRevision |-> snapshot.revision, desired |-> desired,
                  target |-> target, expiresAt |-> clock + Ttl,
                  consumed |-> FALSE], clock))
    /\ UNCHANGED <<volatile, op>>

\* The same request again: replayedPreviewMatchesEnvelope compares the
\* consumed flag of the row with the one of the recorded answer.
ReplayPreview(p) ==
    /\ Ready
    /\ db.previews[p] # None
    /\ db.previews[p].consumed
    /\ TripFatal("preview_replay")
    /\ UNCHANGED <<volatile, op>>

Decide(p, approver, decision) ==
    /\ Ready
    /\ db.previews[p] # None
    /\ db.approvals[p] = None
    /\ ~db.previews[p].consumed
    /\ db.previews[p].creator # approver
    /\ ~Expired(db, p, clock)
    /\ Transaction(InsertApproval(db, p,
         [approver |-> approver, decision |-> decision, consumed |-> FALSE], clock))
    /\ UNCHANGED <<volatile, op>>

\* replayedApprovalMatchesEnvelope wants the approval unconsumed.
ReplayDecision(p) ==
    /\ Ready
    /\ db.approvals[p] # None
    /\ db.approvals[p].consumed
    /\ TripFatal("approval_replay")
    /\ UNCHANGED <<volatile, op>>

-----------------------------------------------------------------------------
(* Publish.                                                                *)

Begin(kind, key, r) ==
    op' = [pc |-> "stage", kind |-> kind, key |-> key, release |-> r,
           at |-> clock, outcome |-> "none"]

\* A new key, with the approval of preview q for the publication of preview p.
Publish(k, p, q, r) ==
    /\ Ready
    /\ db.idem[k] = None
    /\ NewestUnresolved(db) = None
    /\ db.previews[p] # None
    /\ db.approvals[q] # None
    /\ IF q # p THEN TripFatal("mismatched_request") /\ UNCHANGED op
       ELSE IF db.approvals[p].approver = db.previews[p].creator
       THEN TripFatal("disagreement") /\ UNCHANGED op
       ELSE /\ ~db.previews[p].consumed
            /\ ~db.approvals[p].consumed
            /\ db.approvals[p].decision = "approve"
            /\ IF ~GateAgreesWith(db) THEN TripFatal("disagreement") /\ UNCHANGED op
               ELSE /\ db.previews[p].base = snapshot.release
                    /\ db.previews[p].baseRevision = snapshot.revision
                    /\ db.previews[p].desired \in db.registered
                    /\ ~Expired(db, p, clock)
                    /\ r \notin Existing(db)
                    /\ CanPublish(db, p, clock)
                    /\ Transaction(PublishRelease(db, k, p, r, clock))
                    /\ IF fatal' = "none" THEN Begin("publish", k, r)
                       ELSE UNCHANGED op
    /\ UNCHANGED volatile

\* The same request again while its release has no readback yet.
Resume(k) ==
    /\ Ready
    /\ db.idem[k] # None
    /\ db.idem[k].status = "domain_committed"
    /\ LET r == db.idem[k].release IN
       IF /\ db.releases[r].status = "pending"
          /\ \A j \in Keys : db.attempts[j] # None => db.attempts[j].release # r
       THEN Begin("resume", k, r) /\ UNCHANGED <<db, fatal>>
       ELSE TripFatal("disagreement") /\ UNCHANGED op
    /\ UNCHANGED volatile

\* publishedReleaseMatchesEnvelope and reconciledReleaseMatchesEnvelope: the
\* recorded answer is compared with what the release is by now.
AnswerStillHolds(d, k) ==
    LET r == d.idem[k].release IN
    /\ d.releases[r].status # "superseded"
    /\ d.releases[r].outcome = d.idem[k].outcome

\* The same request again after it was answered.
ReplayPublish(k) ==
    /\ Ready
    /\ db.idem[k] # None
    /\ db.idem[k].status = "completed"
    /\ ~AnswerStillHolds(db, k)
    /\ TripFatal("publish_replay")
    /\ UNCHANGED <<volatile, op>>

-----------------------------------------------------------------------------
(* Reconcile.                                                              *)

Reconcile(k, r) ==
    /\ Ready
    /\ db.idem[k] = None
    /\ db.releases[r] # None
    /\ IF NewestUnresolved(db) = None
       THEN TripFatal("nothing_unresolved") /\ UNCHANGED op
       ELSE /\ db.releases[r].status = "manual_review"
            /\ NewestUnresolved(db) = r
            /\ IF /\ db.readbacks[r] # None
                  /\ db.readbacks[r].outcome = db.releases[r].outcome
                  /\ db.readbacks[r].outcome # "verified"
               THEN Begin("reconcile", k, r) /\ UNCHANGED <<db, fatal>>
               ELSE TripFatal("disagreement") /\ UNCHANGED op
    /\ UNCHANGED volatile

ReplayReconcile(k) ==
    /\ Ready
    /\ db.idem[k] # None
    /\ IF db.idem[k].status # "completed" THEN TripFatal("disagreement")
       ELSE ~AnswerStillHolds(db, k) /\ TripFatal("reconcile_replay")
    /\ UNCHANGED <<volatile, op>>

-----------------------------------------------------------------------------
(* The critical section of publish, resume and reconcile.                  *)

Candidate(d, r) ==
    [release |-> r, revision |-> d.releases[r].revision,
     desired |-> d.releases[r].desired, proof |-> FALSE]

\* Any failure aborts the staged candidate before the fatal error is latched.
Continue(pc, newStage) ==
    IF fatal' = "none"
    THEN op' = [op EXCEPT !.pc = pc] /\ stage' = newStage
    ELSE op' = Idle /\ stage' = None

\* Mutant: the gate switches when the candidate is staged.
StageSwitchesGate ==
    /\ op.pc = "stage"
    /\ LET r == op.release IN
       /\ CriticalTransaction(ClaimAttempt(db, op.key, r, boot, op.at))
       /\ Continue("observe", Candidate(db, r))
       /\ snapshot' = [release |-> r, revision |-> db.releases[r].revision,
                       desired |-> db.releases[r].desired]
    /\ UNCHANGED <<boot, up, clock>>

\* stageCandidate refuses a second candidate and a revision that is not newer.
StageAndClaim ==
    /\ op.pc = "stage"
    /\ LET r == op.release IN
       /\ IF /\ stage = None
             /\ db.releases[r].revision > snapshot.revision
             /\ CanClaim(db, op.key, r, op.at)
          THEN CriticalTransaction(ClaimAttempt(db, op.key, r, boot, op.at))
          ELSE TripFatal(IF CanClaim(db, op.key, r, clock) THEN "clock" ELSE "disagreement")
       /\ Continue("observe", Candidate(db, r))
    /\ UNCHANGED <<boot, up, snapshot, clock>>

\* Mutant: every observation gets the gate's commit proof.
ObserveProvesAlways(outcome) ==
    /\ op.pc = "observe"
    /\ CriticalTransaction(FinalizeAttempt(db, op.key, outcome, op.at))
    /\ IF fatal' = "none"
       THEN /\ op' = [op EXCEPT !.pc = "commit", !.outcome = outcome]
            /\ stage' = [stage EXCEPT !.proof = TRUE]
       ELSE op' = Idle /\ stage' = None
    /\ UNCHANGED <<boot, up, snapshot, clock>>

\* Only a verified observation gets the gate's commit proof.
ObserveAndFinalize(outcome) ==
    /\ op.pc = "observe"
    /\ IF OwnerCanFinalize(db, op.key, boot, op.at)
       THEN CriticalTransaction(FinalizeAttempt(db, op.key, outcome, op.at))
       ELSE TripFatal("clock")
    /\ IF fatal' = "none"
       THEN /\ op' = [op EXCEPT !.pc = "commit", !.outcome = outcome]
            /\ stage' = [stage EXCEPT !.proof = (outcome = "verified")]
       ELSE op' = Idle /\ stage' = None
    /\ UNCHANGED <<boot, up, snapshot, clock>>

\* Mutant: a reconciled release is never activated in the running process.
CommitOnlyPublish ==
    /\ op.pc = "commit"
    /\ snapshot' = IF stage.proof /\ op.kind = "publish"
                   THEN [release |-> stage.release, revision |-> stage.revision,
                         desired |-> stage.desired]
                   ELSE snapshot
    /\ stage' = None
    /\ op' = Idle
    /\ UNCHANGED <<db, fatal, boot, up, clock>>

\* publish and reconcile want their readback to be the latest in the state.
CommitGate ==
    /\ op.pc = "commit"
    /\ IF op.kind # "resume" /\ LatestReadback(db) # op.release
       THEN TripFatal("readback_tie") /\ UNCHANGED snapshot
       ELSE /\ snapshot' = IF stage.proof
                           THEN [release |-> stage.release,
                                 revision |-> stage.revision,
                                 desired |-> stage.desired]
                           ELSE snapshot
            /\ UNCHANGED <<db, fatal>>
    /\ stage' = None
    /\ op' = Idle
    /\ UNCHANGED <<boot, up, clock>>

-----------------------------------------------------------------------------
(* The process and its clock.                                              *)

\* The process dies, or is stopped after a fatal error.
Crash ==
    /\ up
    /\ boot < MaxBoot
    /\ up' = FALSE
    /\ fatal' = "none"
    /\ snapshot' = Inactive
    /\ stage' = None
    /\ op' = Idle
    /\ UNCHANGED <<db, boot, clock>>

\* recoverPriorBootReadbackAttempts: the claim of an earlier boot ends unknown.
CanRecover ==
    \A k \in ClaimedKeys(db) :
        /\ RecoveryCanFinalize(db, k, boot + 1, clock)
        /\ Verifies(FinalizeAttempt(db, k, "interrupted", clock))

\* Mutant: the claims of earlier boots are left alone.
RecoverNothing == db

Recovered ==
    IF ClaimedKeys(db) = {} THEN db
    ELSE FinalizeAttempt(db, CHOOSE k \in ClaimedKeys(db) : TRUE, "interrupted", clock)

\* Mutant: the start does not look for a pending release.
StartupIgnoresPending(d) ==
    LET a == ActiveRelease(d) IN a # None => LatestReadback(d) = a

\* loadManagedActivationRestoreEvidence, over the recovered database.
StartupAccepts(d) ==
    LET u == NewestUnresolved(d)
        a == ActiveRelease(d)
    IN
    /\ WithStatus(d, {"pending"}) = {}
    /\ u # None => /\ d.readbacks[u] # None
                   /\ d.readbacks[u].outcome # "verified"
                   /\ d.readbacks[u].outcome = d.releases[u].outcome
                   /\ LatestReadback(d) = u
    /\ a # None => /\ d.readbacks[a] # None
                   /\ d.readbacks[a].outcome = "verified"
                   /\ LatestReadback(d) = a
                   /\ d.attempts[d.readbacks[a].attempt].phase = "finalized"

\* The process starts and the gate is restored from the active release.
\* How the process is started next.
NextIsManaged == boot + 1 \in ManagedBoots

Start ==
    /\ ~up
    /\ NextIsManaged => CanRecover /\ StartupAccepts(Recovered)
    /\ db' = IF NextIsManaged THEN Recovered ELSE db
    /\ snapshot' = ActiveSnapshot(db')
    /\ boot' = boot + 1
    /\ up' = TRUE
    /\ UNCHANGED <<fatal, stage, op, clock>>

\* The recovery is durable although the start is refused before listening.
StartRefused ==
    /\ ~up
    /\ NextIsManaged
    /\ CanRecover
    /\ ~StartupAccepts(Recovered)
    /\ db' = Recovered
    /\ UNCHANGED <<boot, up, fatal, snapshot, stage, op, clock>>

\* The wall clock goes on, or is set back.
Tick ==
    /\ \E t \in 0..MaxClock \ {clock} : (t > clock \/ ClockMayStepBack) /\ clock' = t
    /\ UNCHANGED <<db, boot, up, fatal, snapshot, stage, op>>

-----------------------------------------------------------------------------
Prepare ==
    \/ \E m \in ModuleSets : Register(m)
    \/ \E p \in Previews :
         \/ \E a \in Actors :
              \/ \E m \in ModuleSets, t \in Releases \cup {None} : CreatePreview(p, a, m, t)
              \/ \E decision \in {"approve", "reject"} : Decide(p, a, decision)
         \/ ReplayPreview(p)
         \/ ReplayDecision(p)

Deploy ==
    \/ \E k \in PublishKeys :
         \/ \E p, q \in Previews, r \in Releases : Publish(k, p, q, r)
         \/ Resume(k)
         \/ ReplayPublish(k)
    \/ \E k \in ReconcileKeys :
         \/ \E r \in Releases : Reconcile(k, r)
         \/ ReplayReconcile(k)
    \/ StageAndClaim
    \/ \E outcome \in ReadbackOutcomes : ObserveAndFinalize(outcome)
    \/ CommitGate

Environment == Crash \/ Start \/ StartRefused \/ Tick

Next == Prepare \/ Deploy \/ Environment

Spec == Init /\ [][Next]_vars

\* A started operation runs on and a supervisor restarts the process.
Fairness ==
    /\ WF_vars(StageAndClaim)
    /\ WF_vars(\E outcome \in ReadbackOutcomes : ObserveAndFinalize(outcome))
    /\ WF_vars(CommitGate)
    /\ WF_vars(Start)
    /\ WF_vars(StartRefused)

FairSpec == Spec /\ Fairness

-----------------------------------------------------------------------------
OpKinds == {"none", "publish", "resume", "reconcile"}

TypeOK ==
    /\ db \in Database
    /\ boot \in 1..MaxBoot
    /\ up \in BOOLEAN
    /\ fatal \in Causes
    /\ snapshot \in [release : Releases \cup {None}, revision : Nat,
                     desired : ModuleSets \cup {None}]
    /\ stage \in Candidates \cup {None}
    /\ op \in [pc : {"idle", "stage", "observe", "commit"}, kind : OpKinds,
               key : Keys \cup {None}, release : Releases \cup {None},
               at : 0..MaxClock, outcome : Outcomes \cup {"none"}]
    /\ clock \in 0..MaxClock

\* What the gate dispatches by was verified and made durable before: the
\* release of the snapshot is in the database, verified, with the same modules
\* and revision.  commitCandidate needs the proof of a verified observation
\* and comes after finalizeReadbackAndComplete; no failure, crash or restart
\* may get the gate ahead of the store.
GateServesVerified ==
    snapshot # Inactive =>
        /\ snapshot.release \in WithStatus(db, Settled)
        /\ snapshot.revision = db.releases[snapshot.release].revision
        /\ snapshot.desired = db.releases[snapshot.release].desired

\* Between two operations of a healthy runtime the gate serves exactly the
\* active release of the database (previewBaseAgreesWithRuntime, which makes
\* every later preview and publish fatal when it does not hold).
GateAgrees ==
    (up /\ fatal = "none" /\ op = Idle) =>
        /\ stage = None
        /\ snapshot = ActiveSnapshot(db)

\* A service of the managed runtime never latches the fatal error because of
\* what it wrote itself: the verifier accepts every write the operations make,
\* the guards of the store agree with those of the service, and the gate
\* agrees with the database, in every order of operations, crashes and
\* recoveries (while the wall clock is not set back).
NoInternalFatal == fatal \notin {"verifier", "disagreement", "clock"}

\* The managed runtime is never idle over an unfinished deployment: whatever
\* crashed or failed half way is settled before it listens again.
IdleIsSettled ==
    (up /\ fatal = "none" /\ op = Idle) =>
        WithStatus(db, {"pending"}) = {} /\ ClaimedKeys(db) = {}

\* A readback that was claimed gets its outcome: from the operation that
\* claimed it, or after a crash from the recovery of the next managed start,
\* unless the runtime has latched its fatal error and waits to be stopped.
ClaimsAreFinalized ==
    \A k \in Keys : k \in ClaimedKeys(db)
                       ~> (k \notin ClaimedKeys(db) \/ fatal # "none" \/ boot \notin ManagedBoots)

-----------------------------------------------------------------------------
(* What the documents promise and the code does not keep: each of these is *)
(* checked by a run that finds it violated.                                *)

\* A completed publish with the same key and request is answered with the
\* result that was recorded, whatever became of its release afterwards.
CompletedPublishReplays == fatal # "publish_replay"

\* The start after a crash reads a pending release back, once, and settles it.
PendingIsReadBack ==
    \A r \in Releases :
        (~up /\ r \in WithStatus(db, {"pending"})) ~> r \notin WithStatus(db, {"pending"})

-----------------------------------------------------------------------------
(* The control plane implements the line of releases.                      *)

lineMap ==
    LET S == WithStatus(db, Settled) IN
    [i \in 1..Cardinality(S) |->
        db.releases[CHOOSE r \in S : db.releases[r].revision = i].desired]

candidateMap ==
    LET u == NewestUnresolved(db) IN IF u = None THEN None ELSE db.releases[u].desired

Line == INSTANCE ReleaseLine
            WITH line <- lineMap, candidate <- candidateMap, serving <- snapshot.revision

\* Every behaviour of the control plane is one of the line.
ImplementsLine == Line!Spec

=============================================================================
