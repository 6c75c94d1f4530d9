---------------------------- MODULE ControlStore ----------------------------
(***************************************************************************)
(* The durable control store (control-plane/sqlite-control-store.ts): the  *)
(* tables a deployment goes through, the write operations of the           *)
(* repository as functions from one database to the next, and the          *)
(* verifier the store runs over the whole database around every call.      *)
(*                                                                         *)
(* A database d is a record of tables.  A row that has not been inserted   *)
(* is None.  What is abstracted:                                           *)
(*   - a set of module references is one value of ModuleSets;              *)
(*   - an approval is filed under its preview (preview_ref is UNIQUE in    *)
(*     module_approvals);                                                  *)
(*   - the idempotency row of a registration, a preview or an approval is  *)
(*     inserted completed with the domain row and never changes, so the    *)
(*     domain row stands for both;                                         *)
(*   - an idempotency key is scoped by its action, so the keys of publish  *)
(*     and of reconcile are disjoint; a readback attempt is filed under    *)
(*     the key that claimed it;                                            *)
(*   - of the event log only the instant of the last event and whether the *)
(*     instants never decreased are kept;                                  *)
(*   - reason codes are part of the outcome of a readback.                 *)
(***************************************************************************)
EXTENDS Integers, FiniteSets

CONSTANTS
    Actors,                     \* operators who create and approve previews
    ModuleSets,                 \* sets of exact module references
    Previews,                   \* preview references
    PublishKeys,                \* idempotency keys of deployments.publish
    ReconcileKeys,              \* idempotency keys of deployments.reconcile
    MaxReleases,                \* bound: releases that can be created
    HistoryWindow,              \* CONTROL_STATE_RELEASE_HISTORY_WINDOW
    Ttl,                        \* preview time to live
    None                        \* SQL NULL, or no row

Releases == 1..MaxReleases      \* release ids, in their string order
Keys     == PublishKeys \cup ReconcileKeys

ASSUME StoreAssumption ==
    /\ MaxReleases \in Nat
    /\ HistoryWindow \in Nat \ {0}
    /\ Ttl \in Nat \ {0}
    /\ PublishKeys \cap ReconcileKeys = {}
    /\ None \notin Releases \cup Keys \cup Previews \cup ModuleSets \cup Actors

Outcomes == {"verified", "mismatch", "unknown", "interrupted"}
Settled    == {"verified", "superseded"}
Unresolved == {"pending", "manual_review"}

-----------------------------------------------------------------------------
(* The types of the tables.  Instants, boots and revisions are naturals.   *)

PreviewRow ==
    [creator : Actors, base : Releases \cup {None}, baseRevision : Nat,
     desired : ModuleSets, target : Releases \cup {None}, expiresAt : Nat,
     consumed : BOOLEAN]
ApprovalRow ==
    [approver : Actors, decision : {"approve", "reject"}, consumed : BOOLEAN]
ReleaseRow ==
    [status : Settled \cup Unresolved, revision : Nat,
     previous : Releases \cup {None}, preview : Previews, desired : ModuleSets,
     createdAt : Nat, outcome : Outcomes \cup {None},
     supersededBy : Releases \cup {None}]
IdempotencyRow ==
    [status : {"domain_committed", "completed"}, release : Releases,
     outcome : Outcomes \cup {None}, createdAt : Nat]
AttemptRow ==
    [phase : {"claimed", "finalized"}, release : Releases, boot : Nat,
     claimedAt : Nat, outcome : Outcomes \cup {None}]
ReadbackRow == [attempt : Keys, outcome : Outcomes, checkedAt : Nat]

ASSUME RowAssumption ==
    None \notin PreviewRow \cup ApprovalRow \cup ReleaseRow
                \cup IdempotencyRow \cup AttemptRow \cup ReadbackRow

Database ==
    [registered    : SUBSET ModuleSets,
     previews      : [Previews -> PreviewRow \cup {None}],
     approvals     : [Previews -> ApprovalRow \cup {None}],
     releases      : [Releases -> ReleaseRow \cup {None}],
     idem          : [Keys -> IdempotencyRow \cup {None}],
     attempts      : [Keys -> AttemptRow \cup {None}],
     readbacks     : [Releases -> ReadbackRow \cup {None}],
     lastEventAt   : Nat,
     eventsOrdered : BOOLEAN]

EmptyDatabase ==
    [registered    |-> {},
     previews      |-> [p \in Previews |-> None],
     approvals     |-> [p \in Previews |-> None],
     releases      |-> [r \in Releases |-> None],
     idem          |-> [k \in Keys |-> None],
     attempts      |-> [k \in Keys |-> None],
     readbacks     |-> [r \in Releases |-> None],
     lastEventAt   |-> 0,
     eventsOrdered |-> TRUE]

-----------------------------------------------------------------------------
(* Queries.                                                                *)

Existing(d)     == {r \in Releases : d.releases[r] # None}
WithStatus(d, S) == {r \in Existing(d) : d.releases[r].status \in S}
Revision(d, r)  == IF r = None THEN 0 ELSE d.releases[r].revision

Newest(d, R) ==
    IF R = {} THEN None
    ELSE CHOOSE r \in R : \A s \in R : Revision(d, s) <= Revision(d, r)

ActiveRelease(d)    == Newest(d, WithStatus(d, {"verified"}))
NewestUnresolved(d) == Newest(d, WithStatus(d, Unresolved))

\* Mutant: the window is one release too small.
HistoryOneShort(d) ==
    {r \in Existing(d) :
        Cardinality({s \in Existing(d) : Revision(d, s) > Revision(d, r)}) < HistoryWindow - 1}

\* The releases of the bounded history, the newest by revision.
History(d) ==
    {r \in Existing(d) :
        Cardinality({s \in Existing(d) : Revision(d, s) > Revision(d, r)}) < HistoryWindow}

\* The current readback with the latest instant; ties go to the larger id.
LatestReadback(d) ==
    LET R == {r \in Releases : d.readbacks[r] # None}
        At(r) == d.readbacks[r].checkedAt
    IN  IF R = {} THEN None
        ELSE CHOOSE r \in R : \A s \in R : At(s) < At(r) \/ (At(s) = At(r) /\ s <= r)

ClaimedKeys(d) == {k \in Keys : d.attempts[k] # None /\ d.attempts[k].phase = "claimed"}

Expired(d, p, t) == d.previews[p].expiresAt <= t

-----------------------------------------------------------------------------
(* Writes.  Each is the body of one transaction.                           *)

WithEvent(d, t) ==
    [d EXCEPT !.lastEventAt = t, !.eventsOrdered = @ /\ d.lastEventAt <= t]

RegisterModule(d, m, t) ==
    WithEvent([d EXCEPT !.registered = @ \cup {m}], t)

InsertPreview(d, p, row, t) ==
    WithEvent([d EXCEPT !.previews[p] = row], t)

InsertApproval(d, p, row, t) ==
    WithEvent([d EXCEPT !.approvals[p] = row], t)

\* The checks of publishReleaseInDatabase, for an unused idempotency key.
CanPublish(d, p, t) ==
    /\ NewestUnresolved(d) = None
    /\ d.previews[p] # None
    /\ ~d.previews[p].consumed
    /\ ~Expired(d, p, t)
    /\ d.previews[p].base = ActiveRelease(d)
    /\ d.previews[p].baseRevision = Revision(d, ActiveRelease(d))
    /\ d.approvals[p] # None
    /\ d.approvals[p].decision = "approve"
    /\ ~d.approvals[p].consumed
    /\ \A k \in PublishKeys :
         d.idem[k] # None => d.idem[k].status # "domain_committed"

PublishRelease(d, k, p, r, t) ==
    WithEvent(
      [d EXCEPT
        !.idem[k] = [status |-> "domain_committed", release |-> r,
                     outcome |-> None, createdAt |-> t],
        !.previews[p].consumed = TRUE,
        !.approvals[p].consumed = TRUE,
        !.releases[r] = [status       |-> "pending",
                         revision     |-> d.previews[p].baseRevision + 1,
                         previous     |-> d.previews[p].base,
                         preview      |-> p,
                         desired      |-> d.previews[p].desired,
                         createdAt    |-> t,
                         outcome      |-> None,
                         supersededBy |-> None]], t)

\* claimReadbackAttemptInDatabase.  A publish claims for the release of its
\* own idempotency row, a reconcile for the newest unresolved release.
CanClaim(d, k, r, t) ==
    /\ d.attempts[k] = None
    /\ d.releases[r] # None
    /\ IF k \in PublishKeys
       THEN /\ d.idem[k] # None
            /\ d.idem[k].status = "domain_committed"
            /\ d.idem[k].release = r
            /\ d.idem[k].createdAt <= t
            /\ d.releases[r].status = "pending"
       ELSE d.idem[k] = None /\ NewestUnresolved(d) = r
    /\ \A j \in ClaimedKeys(d) : d.attempts[j].release # r

ClaimAttempt(d, k, r, boot, t) ==
    [d EXCEPT
      !.idem[k] = IF k \in PublishKeys THEN @
                  ELSE [status |-> "domain_committed", release |-> r,
                        outcome |-> None, createdAt |-> t],
      !.attempts[k] = [phase |-> "claimed", release |-> r, boot |-> boot,
                       claimedAt |-> t, outcome |-> None]]

\* finalizeReadbackAndCompleteInDatabase, by the owner or by recovery.
CanFinalize(d, k, t) ==
    LET r == d.attempts[k].release IN
    /\ d.attempts[k].phase = "claimed"
    /\ d.idem[k].status = "domain_committed"
    /\ d.releases[r].status \in Unresolved
    /\ k \in PublishKeys => d.readbacks[r] = None
    /\ d.attempts[k].claimedAt <= t
    /\ d.lastEventAt <= t

\* The boot that claimed may finalize, recovery only what another boot claimed.
OwnerCanFinalize(d, k, b, t)    == CanFinalize(d, k, t) /\ d.attempts[k].boot = b
RecoveryCanFinalize(d, k, b, t) == CanFinalize(d, k, t) /\ d.attempts[k].boot # b

\* A verified readback activates the release and supersedes the active one.
Resolved(d, r, outcome) ==
    LET active == ActiveRelease(d) IN
    [s \in Releases |->
       IF s = r
       THEN [d.releases[r] EXCEPT
               !.status = IF outcome = "verified" THEN "verified" ELSE "manual_review",
               !.outcome = outcome]
       ELSE IF outcome = "verified" /\ s = active
       THEN [d.releases[s] EXCEPT !.status = "superseded", !.supersededBy = r]
       ELSE d.releases[s]]

FinalizeAttempt(d, k, outcome, t) ==
    LET r == d.attempts[k].release IN
    WithEvent(
      [d EXCEPT
        !.readbacks[r] = [attempt |-> k, outcome |-> outcome, checkedAt |-> t],
        !.releases = Resolved(d, r, outcome),
        !.attempts[k] = [@ EXCEPT !.phase = "finalized", !.outcome = outcome],
        !.idem[k] = [@ EXCEPT !.status = "completed", !.outcome = outcome]], t)

-----------------------------------------------------------------------------
(* The verifier (verifyRepositorySemantics).  It reads every table before  *)
(* a write, before its COMMIT and after it.                                *)

\* verifyPreviewSemantics and assertModulePreviewAuthoritySemantics.
PreviewVerifies(d, p) ==
    LET v == d.previews[p] IN
    /\ IF v.base = None THEN v.baseRevision = 0
       ELSE /\ d.releases[v.base] # None
            /\ d.releases[v.base].revision = v.baseRevision
            /\ d.releases[v.base].status \in Settled
    /\ v.target # None =>
         /\ v.target \in History(d)
         /\ d.releases[v.target].revision < v.baseRevision
         /\ d.releases[v.target].status \in Settled
         /\ d.releases[v.target].desired = v.desired

\* verifyApprovalSemantics.
ApprovalVerifies(d, p) ==
    LET published == {r \in Existing(d) : d.releases[r].preview = p} IN
    /\ d.previews[p] # None
    /\ d.approvals[p].consumed = d.previews[p].consumed
    /\ d.approvals[p].consumed => d.approvals[p].decision = "approve"
    /\ Cardinality(published) = IF d.approvals[p].consumed THEN 1 ELSE 0

\* verifyReleaseGateSemantics and verifyReleaseRecoverySemantics.
ReleaseVerifies(d, r) ==
    LET v == d.releases[r]
        p == v.preview
        b == d.readbacks[r]
    IN
    /\ d.previews[p] # None /\ d.approvals[p] # None
    /\ d.approvals[p].decision = "approve"
    /\ d.previews[p].consumed /\ d.approvals[p].consumed
    /\ v.createdAt < d.previews[p].expiresAt
    /\ v.previous = d.previews[p].base
    /\ v.revision = d.previews[p].baseRevision + 1
    /\ v.desired = d.previews[p].desired
    /\ \E k \in PublishKeys : d.idem[k] # None /\ d.idem[k].release = r
    /\ CASE v.status = "pending"       -> b = None
         [] v.status \in Settled       -> b # None /\ b.outcome = "verified"
         [] v.status = "manual_review" -> b # None /\ b.outcome # "verified"
                                                   /\ b.outcome = v.outcome

\* The release line of verifyRepositorySemantics: contiguous revisions, each
\* release on top of the one before, which it superseded once verified.
LineVerifies(d) ==
    /\ \A r \in Existing(d) :
         LET v == d.releases[r]
             below == {s \in Existing(d) : d.releases[s].revision < v.revision}
             before == Newest(d, below)
         IN /\ v.revision = Revision(d, before) + 1
            /\ v.previous = before
            /\ \A s \in Existing(d) : d.releases[s].revision = v.revision => s = r
            /\ before # None =>
                 IF v.status \in Unresolved THEN d.releases[before].status = "verified"
                 ELSE /\ d.releases[before].status = "superseded"
                      /\ d.releases[before].supersededBy = r
    /\ \A r, s \in WithStatus(d, Unresolved) : r = s
    /\ \A r, s \in WithStatus(d, {"verified"}) : r = s
    /\ Existing(d) # {} => d.releases[Newest(d, Existing(d))].status # "superseded"

\* verifyReadbackSemantics: a current readback is that of a finalized attempt.
ReadbackVerifies(d, r) ==
    LET k == d.readbacks[r].attempt IN
    /\ d.releases[r] # None
    /\ IF d.readbacks[r].outcome = "verified" THEN d.releases[r].status \in Settled
       ELSE d.releases[r].status = "manual_review"
    /\ d.attempts[k] # None
    /\ d.attempts[k].phase = "finalized"
    /\ d.attempts[k].release = r
    /\ d.attempts[k].outcome = d.readbacks[r].outcome

\* verifyReadbackAttemptGraph.
AttemptVerifies(d, k) ==
    LET a == d.attempts[k] IN
    /\ d.idem[k] # None
    /\ d.idem[k].release = a.release
    /\ d.releases[a.release] # None
    /\ IF a.phase = "claimed"
       THEN /\ d.idem[k].status = "domain_committed"
            /\ k \in PublishKeys => d.readbacks[a.release] = None
            /\ d.releases[a.release].status \in Unresolved
       ELSE /\ d.idem[k].status = "completed"
            /\ d.idem[k].outcome = a.outcome
            /\ d.readbacks[a.release] # None
            /\ a.outcome = "verified" => d.readbacks[a.release].outcome = "verified"

\* verifyIdempotencySemantics: the row was inserted with its domain record, and
\* what it answers is what the readback of its release allows.
IdempotencyVerifies(d, k) ==
    LET i == d.idem[k]
        v == d.releases[i.release]
        b == d.readbacks[i.release]
    IN
    /\ v # None
    /\ IF k \in PublishKeys THEN v.createdAt = i.createdAt
       ELSE d.attempts[k] # None /\ d.attempts[k].claimedAt = i.createdAt
    /\ (k \in PublishKeys /\ i.status = "domain_committed") => v.status # "superseded"
    /\ i.status = "completed" =>
         /\ b # None
         /\ i.outcome = "verified" => b.outcome = "verified" /\ v.status \in Settled

Verifies(d) ==
    /\ \A p \in Previews : d.previews[p] # None => PreviewVerifies(d, p)
    /\ \A p \in Previews : d.approvals[p] # None => ApprovalVerifies(d, p)
    /\ \A r \in Existing(d) : ReleaseVerifies(d, r)
    /\ LineVerifies(d)
    /\ \A r \in Releases : d.readbacks[r] # None => ReadbackVerifies(d, r)
    /\ \A k \in Keys : d.attempts[k] # None => AttemptVerifies(d, k)
    /\ \A k \in Keys : d.idem[k] # None => IdempotencyVerifies(d, k)
    /\ d.eventsOrdered
=============================================================================
