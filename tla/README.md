# Formal models of the logistics gateway

TLA+ models of `cross-border-logistics-mcp`: a gateway that offers logistics tools to
machines, the control plane that decides which tools it offers, the portal through
which people work on shipments, and the access gateway that hands out the keys and
tokens both need. TLC checks every model on small instances; TLAPS proves every safety
property that the runs check for every value of the constants, within the assumptions of
section 5.

`PROJECT.json` is the index: which module models which source, the runs and the
properties each checks, the line range behind every definition (`map`), one small bug
for each property that the property must catch (`mutants`), the hazards of the code and
the theorems.

1. [The system](#1-the-system)
2. [The models](#2-the-models)
3. [The runs and their bounds](#3-the-runs-and-their-bounds)
4. [Fairness](#4-fairness)
5. [The proofs](#5-the-proofs)
6. [Where code and documents disagree](#6-where-code-and-documents-disagree)
7. [What is not modelled](#7-what-is-not-modelled)
8. [Plan](#8-plan)

## 1. The system

Everything is TypeScript on Node.js. A process runs the code between two `await`s
without interruption, so the hard behaviour is between awaits, between processes over
one database (SQLite or PostgreSQL), and at crashes. Paths below are relative to
`src/`; `L` is `src/logistics_mcp`, `G` is `services/access-gateway`.

### Components, state and operations

| Component (sources) | State | Operations | What is hard |
|---|---|---|---|
| Mutation coordinator (`L/control-plane/runtime-mutation-coordinator.ts`) | reader count, writer flag, queue, fatal error | `withMutation`, `withControlledDispatch`, `tripFatal` | a turn between a grant and its operation; the fatal error can fall into it; nested entry |
| Module releases (`L/control-plane/service.ts`, `sqlite-control-store.ts`, `repository.ts`, `activation-authority-internal.ts`, `L/server/start.ts`) | previews, approvals, releases, readback attempts, idempotency rows; the gate's snapshot and candidate | register, preview, approve, publish, reconcile, rollback, replay; start and recovery | three durable steps per publish with a crash between any two; gate and store must agree; verifier around every write |
| Initialization of the control state (`initializeSqliteControlState` in `sqlite-control-store.ts`) | lock file, staging directories, the state directory | initialize | processes that die with the lock or with half of it, and others that clean up after them |
| Plugin configuration (`L/control-plane/plugin-config-service.ts`, `plugin-config-store.ts`, `L/server/plugin-config-runtime.ts`) | drafts, previews, releases, apply attempts; the adapter in use | validate, preview, approve, publish, readback, reconcile; rate requests | an apply claimed before it runs; interrupted attempts; requests on the adapter that is replaced |
| Module inventory (`L/control-plane/inventory.ts`, `control-state-mapper.ts`) | none that changes | mapping and hashing | – |
| Tenant access (`L/control-plane/tenant-access-service.ts`, `sqlite-tenant-access-store.ts`, `G/postgres-store.ts`) | tenants, clients, credentials, replays, events | create, suspend, issue, rotate, revoke, acknowledge | reads before a slow hash and a transaction after it; lost answers; keys used twice |
| Token exchange (`G/service.ts`, `postgres-store.ts`, `production-store.ts`, `G/portal/access-bridge.ts`) | rate windows, audit | `exchangeToken` | eight awaits; rights that change meanwhile; locks of four buckets; a minute that ends |
| Move to PostgreSQL (`G/postgres-migration.ts`) | the source files, the schema, its history | migrate, repeat | the source is read without a transaction; a lost answer to COMMIT; names that have to be inferred |
| FCL execution (`G/portal/fcl-execution.ts`, `-store.ts`, `-contracts.ts`) | version, nodes, scope, shared data, outbox | start, amend, every node action, assignment, notices | versions and keys; amendments against work under way |
| FCL execution mail (`G/portal/fcl-execution-mail.ts`) | outbox rows with leases | dispatch, resolve, retry | several workers, leases that expire, a relay that answers late |
| MCP sessions (`L/platform/session-runtime.ts`, `L/server/http.ts`) | sessions, their rows, capacity, closed flag | open, request, end, sweep, close | a wait between the check of capacity or closing and the entry; creation given up half way |
| Tool execution (`L/server/tool-registry.ts`, `L/platform/sqlite-production-store.ts`, `L/adapters/quote`) | reservations, previews and commits, audit | reserve, run, save, read back, keep | a repeat beside its first; a timeout or a stop after the save |
| Managed providers (`L/module-runtime/managed-provider.ts`, `L/server/managed-business-provider.ts`) | generations, calls in flight, journal | refresh, activate, call, drain, dispose | activation beside calls; a journal that is in place before it is known to be |
| Module host (`L/module-runtime/host.ts`, `lease.ts`) | mounted modules, leases | mount, rollback, release | failure half way through |
| Cases and quote documents (`G/portal/cases.ts`, `fcl-customer.ts`, `services/quote-documents/workflow.ts`) | case, rates, quote, documents, reviews, PDFs, offers, orders | submit, supplement, review, approve, export, offer, confirm, accept, amend | a review in memory, a renderer that is waited for, two databases |
| Organizations, members, grants (`G/portal/organization-service.ts`, `organization-bridge.ts`, `service.ts`, `access-bridge.ts`) | organization and tenant, members, application, request, grant | create, suspend, invite, claim, change, request, decide, provision, authorize | two databases without a common transaction; answers that come late; what was read is not what is decided |
| Sessions, quotas and business access of the portal (`G/portal/session.ts`, `public-quota.ts`, `business-access/`) | browser sessions, day counters, keys | sign in, consume, exchange | counters at their limit |
| Rates and publication (`G/portal/native-admin.ts`, `fcl-operations.ts`) | drafts, publications | publish, roll back, bulk change | versions and keys |
| Synchronous PostgreSQL (`G/portal/postgres-stores.ts`, `postgres-worker.ts`) | one document for all replicas, its keys, a worker thread | read, change | a blocked thread that gives up on its worker while a COMMIT is on its way |
| Maritime schedules (`services/maritime/schedule-live`, `schedule-collector`) | evidence on disk, audit | query | windows, a race with the deadline and with the caller |
| Signing and identity (`G/production-crypto.ts`, `oci-crypto.ts`, `production-identity.ts`) | keys and their history | sign, rotate | external services |
| Quotes and rates, cargo, container, customs data (`services/quote-native`, `L/domains`, `services/customs-native`) | none | pure calculations | rounding, boundaries |
| Adapters, agent context, composition (`L/adapters`, `L/agent-context`, `L/server`) | none that changes but the drafts above | requests, parsing, wiring | – |
| Consoles, deployment, schemas (`apps`, `deploy`, `schemas`) | – | – | – |

### How they interact

```
 initializer ──> control database (SQLite)
                        ^
                        │                   start.ts: recover, restore the gate
 administrators ──> control plane ──writer lock──> coordinator <──reader lock── tool calls
                        │                                                          │  ^
                        └─ stage / commit ─> activation gate <── which modules ────┘  │
                                                                                      │
 administrators ──> plugin configuration ──apply──> adapter for rates <───────────────┤
 signed release ──> managed provider ──────────────> tools of the provider <──────────┤
 machines ──> MCP sessions ──request──> key reservation, audit ───────────────────────┘

 administrators ──> tenant access ──> credentials ──> token exchange ──> signed token ──> tool calls
                     ^      │                             │  ^
   organizations ────┘      └── move to PostgreSQL        │  │
   and members                       rate windows <───────┘  └── requests and grants of the portal

 people ──> cases ──> quotes, documents, offers ──accept──> FCL execution ──outbox──> mail workers
                          ^                                                             │
                     rates published                              directory, mail relay <┘
 people, machines ──> schedule query ──> carriers
```

- The control plane's operations and the dispatch of tools share one lock. The control
  plane models take from `MutationCoordinator` what it proves: one operation at a time
  and none after the fatal error.
- Credentials of tenant access are what an exchange looks up; their changes happen
  between the exchange's waits and are actions of `TokenExchange`. What `PortalMembers` and
  `TenantAccess` decide are switches that may turn at any step of a call in `PortalGrants`.
- An organization of the portal has a tenant in the control plane. No transaction covers
  both; the idempotency key ties them (`OrganizationBridge`).
- An acceptance starts the execution (`FclQuotes`), and the execution writes the outbox in the
  transaction of its event. `ExecutionMail` extends `FclExecution`, so the workers run beside
  every action of the people.
- The parts of the MCP server process share a clock and the process that may die; they
  are models of their own, run side by side (`MCServer`). The same holds of the parts of the
  portal (`MCPortal`).

### What makes each component correct

- **Coordinator**: a writer is alone; no waiter is lost, overtaken or woken twice;
  nothing starts after the fatal error; every call settles.
- **Releases**: the gate serves only what was verified and made durable; gate and
  database agree whenever the runtime is idle; nothing is left half done after a start;
  the runtime does not declare its own writes broken; releases form one growing line.
- **Initialization**: one state comes of it, whoever tries and whoever dies; who is told that
  he made it did; the dead lock nobody out.
- **Plugin configuration**: at rest the adapter is that of the current, verified release; no
  attempt stays open; no publication undoes one it has not seen; no request runs on a
  replaced adapter.
- **Tenant access**: of a line of rotations only the newest credential can be used; a
  secret is shown once; what the console offers is accepted.
- **Token exchange**: no bucket gives more than its limit; no token without its audit
  row; a right lost in time and not given back gives no token; exchanges do not deadlock.
- **Move to PostgreSQL**: a row that was reported as moved is there, and so is all that was written since;
  a replay names the event of its own request.
- **Execution**: nodes follow the accepted scope; finished work changes only by being
  reopened; a notice tells the state its node is in.
- **Mail**: no message leaves twice unasked; a late answer never overwrites a newer
  attempt; nothing stays in flight for ever, nor pending, unless it or a message before it has
  used up its attempts and its resolutions (section 6); nothing stale is sent.
- **Sessions**: the registry holds the open runtimes and not more than its capacity; a session that
  was removed is not put back; a creation that was given up leaves nothing.
- **Tool writes**: one save for a reservation, however calls are repeated, given up or lost;
  an answer is about the payload of its request.
- **Managed providers**: no provider is closed under a running handler; no older release is
  ever served after a newer one, restarts included.
- **Cases and documents**: approved is what was reviewed; a revision has one PDF; an accepted
  offer is the confirmed one; an order is made of what is current.
- **Organizations and grants**: a half finished change can be completed; an organization keeps an
  owner; a call gets through only with a right that still stands and that a reviewer has seen.
- **Shared store**: a change is made once, and it is made if it was answered.
- **Schedules**: a success has read every window to the end.

## 2. The models

| Module | Role |
|---|---|
| `ReadWriteLock` | abstract: what the coordinator promises its callers |
| `MutationCoordinator` | the coordinator, one action for each run of code between two awaits |
| `ReleaseLine` | abstract: releases as a line that only grows, a candidate, a gate that follows |
| `ControlStore` | the tables of the control database, its write operations as functions from one database to the next, and its verifier (no variables) |
| `ControlPlane` | the operations over `ControlStore`, the gate, the process, its crashes and its clock |
| `StateInitializer` | the lock and the directories from which that database comes |
| `TenantAccess` | the calls of administrators over tenants, clients and credentials |
| `TokenExchange` | the exchanges, their locks and counts, and the changes of the credential |
| `StoreMigration` | the move of the gateway's tables, beside the gateways that write both sides |
| `FclExecution` | the execution of a case and the outbox its events fill |
| `ExecutionMail` | EXTENDS `FclExecution`: workers, relay, leases, crashes |
| `FclQuotes` | a case from the inquiry over quote, documents and offers to the order |
| `OrganizationBridge` | an organization and its tenant, in two databases |
| `PortalMembers` | invitations, roles, the application and its owner |
| `PortalGrants` | request, review, grant, provisioning, and the authorization of a machine call |
| `SharedStore` | the portal's state in PostgreSQL: replicas, worker threads, transactions |
| `ScheduleQuery` | a live query for schedules and its race with deadline and caller |
| `ServerClock` | the clock the parts of the MCP server share |
| `Sessions`, `ToolWrites`, `ManagedProvider`, `PluginConfig` | EXTEND `ServerClock`: the parts of the MCP server |
| `MCServer`, `MCPortal` | the parts of the server and of the portal, as a sum: `part` says which of them a behaviour is of |
| other `MC...` | constants and constraints of the runs |
| `...Proofs` | theorems and their proofs: `ExecutionProofs` of `FclExecution` and `ExecutionMail`, `ServerProofs` and `PortalProofs` of the parts of the server and of the portal, `StoreProofs` of `StoreMigration`, `SharedStore` and `StateInitializer`, the others of the module they are named for |

### State and actions against the code

**`MutationCoordinator`.** `activeReaders`, `activeWriter`, `fatal` and `waiters` are the
fields of the class. `phase[c]` is where a call of `withLock` stands: `waiting` is a
promise in the queue, `granted` a promise that was resolved while its continuation has
not run, `running` the operation, `awaiting` an operation that waits for its own nested
entry. `Release` is `releaseLock` with the `drain` it runs, in one step. `CallNested` is
an operation that enters again and is refused at once by its owner token.

**`ControlStore` and `ControlPlane`.** `db` is the database as a record of tables; the
functions `InsertPreview` … `FinalizeAttempt` are the bodies of transactions, `CanPublish`,
`CanClaim`, `CanFinalize` the checks inside them, and `Verifies` the verifier that the
store runs around every write. `Transaction` models the wrapper: commit, refused by the
verifier, or committed and then failed. A publish is `Publish` (checks and the new
release), `StageAndClaim`, `ObserveAndFinalize`, `CommitGate`; the process may `Crash`
between any two. `Start` and `StartRefused` are `prepareManagedState` with the recovery of
earlier boots' attempts; a boot outside `ManagedBoots` is the assembly that does
without that recovery. `fatal` keeps the cause, so that `NoInternalFatal` can tell causes
that the design foresees from those it rules out. Replays are actions of their own where
they change something: they can latch the fatal error.

**`StateInitializer`.** A step is one change of the file system with the checks that come with
it. A lock is written under a name of its own (`temps`) and then linked to the name of the
lock (`lockFile`). `FindStale` verifies that the holder is dead, `UnlinkStale` removes
what has the name by then. `alone` is a history variable: no other process was at work
since this one began.

**`PluginConfig`.** `publication` is the operation that `#exclusive` lets in; `Publish` claims the
attempt, `Apply` waits for the requests on the old adapter behind the `barrier`, and
`FinalizeApply` stores what came of it. `Boot` settles attempts that another process claimed.

**`TenantAccess`.** A call is `Send` (clock and names are read and drawn before the waits),
one of the transactions, `Replay`, `Refuse` or `Fail`, and `Answer` or `Lose`. The history
`events` is the order of commits. `Offered` are the views `tenantDto`, `clientDto`
and `credentialDto`.

**`TokenExchange`.** `calls[e].at` is the await an exchange stands at. `counts` has a row for
each bucket and minute over PostgreSQL and a row for each bucket over SQLite; `locks` are
the advisory locks or the lock of the file. `Break` is an error or timeout of a wait with the
rollback that frees the locks, `Die` the end of the process. `late` is a history variable: the
exchange has lost its right, by revocation, suspension or withdrawal of a tool, before the last check of it, and
has not got it back.

**`StoreMigration`.** `ReadStates`, `ReadEvents`, `ReadReplays` are the reads of the source, one after
another while `ChangeSource` goes on; `Infer` looks for the event of a replay that does not name
it. `TakeMigrationLock` to `CompareBack` are the transaction and the readback; `FindHistory` is
what a second run does with a schema that is there already. `quiet` is a history variable: the source
has not changed since its reading began.

**`FclExecution`.** One operation is one synchronous transaction (`sync-transaction.ts`), so
one action. Requests with an old version or a used key change nothing and are stuttering
steps. `outbox` is keyed by the columns of its UNIQUE constraint; `bound` is what the
binding digest of a notice covers.

**`ExecutionMail`.** `Reap`, `Pick`, `Verify`, `Cancel`, `Claim`, `Send`, `Answer`, `Record` are the
transactions of `dispatchOnce` and the waits in between. The number of the attempt stands
for the random lease token: it grows with each claim. The relay (external) decides
about what it was handed whether or not the worker still listens; the directory
(external) answers active, inactive or not at all.

**`FclQuotes`.** An operation is one transaction under the locks of the case and of the rates.
`StartExport` and `FinishExport` are the two sides of the renderer. `reviews` is the memory of the
process, lost by `Restart`. `AcceptOffer` is two transactions in two databases, the start of the execution and the event; one of its
disjuncts is a process that stops between them. Documents, quote and rates are current or
not by comparing versions (`StillFormal`, `Publishable`, `Deliverable`).

**`OrganizationBridge`.** `BeginCreate` and `BeginStatus` check the portal, `ChangeTenant` is the transaction of the
control plane, `ReadTenantBack` the check that it took, `RecordOrganization` the
transaction of the portal. `BridgeEnds` is an error, a timeout or the end of the process at
any of the waits. `direct` says that an administrator has changed the tenant past the bridge.

**`PortalMembers`** and **`PortalGrants`.** Every write is one transaction that checks its caller again.
Only the creation of the application's client, the provisioning of a grant and the authorization
of a call wait for the control plane; these are two or more actions. `reviewed` is a history
variable: what the approving reviewer had read.

**`SharedStore`.** `replicas[r]` is the only thread of a replica: it waits in `Atomics.wait` for its worker, or runs the
callback of `mutate` between `begin` and `commit`. `GivesUp` is the timeout with the call for
the worker's termination, or the end of the process; the old worker is `ending` and may still
commit what it was sent. `RowIsFree` is `SELECT ... FOR UPDATE`. The document counts how often each
change is in it.

**`ScheduleQuery`.** The operation (the windows, their requests and files) and the call that waits
for it are two processes: `Strike` is the deadline or the caller, `Overtaken` the call that leaves
its operation, `GraceElapses` the end of its patience. `coverage`, `files` and `rows` are what was read, kept on
disk and audited.

**`Sessions`.** A step is what a request does between two awaits: `Receive`, then `RequestStep` by
its place (`enter`, `purge`, `register`, `connect`, …), `GiveUp` where the timer ends a creation.
`RuntimeCloses` is the runtime's own time. `created` is the list of the handler, `bindings` the
rows.

**`ToolWrites`.** `Reserve` is the row of the key, `SaveDraft` the request to the quote system (external),
`ReadBack` the check of what it saved, `Keep` what the key will say, `AuditCall` the row without
which no result leaves. The row is durable, the adapter's maps are not: `Stop` empties them.

**`ManagedProvider`.** `Refresh` reads the release file, `Prepare` probes the provider, `Write` and `ReadBackJournal` are
the journal, the switch follows. A generation is `active`, `draining`, `disposing` and gone;
`HandlerEnds` may be the end of a handler whose caller was answered long ago.

### Refinement

- `MutationCoordinator` implements `ReadWriteLock`: a call is inside from its grant to its
  release (`insideMap`), and the lock is closed by the fatal error. Checked and proved.
- `ControlPlane` implements `ReleaseLine`: the line is the modules of the settled releases by
  revision, the candidate the one unresolved release, and the gate's position the
  revision of its snapshot. Checked in `control_managed`, and proved as `PlaneImplementsLine`.

## 3. The runs and their bounds

| Run | Instance | Shows |
|---|---|---|
| `coordinator` | 4 calls, fairness | order, fatal fence, refinement and that every call settles |
| `control_managed` | 2 operators, 2 module sets, 3 previews, keys and releases, 1 reconcile key, 2 boots | the gate never ahead of the store and in agreement when idle, no fatal error of its own making, nothing left over, refinement |
| `control_live` | 1 release, 2 publish keys, 2 reconcile keys, 3 managed boots and an assembly, a clock that goes on, fairness | every claimed readback gets an outcome |
| `control_publish_replay` | 2 releases | violated on purpose, section 6 |
| `control_pending_start` | 1 release, fairness | violated on purpose, section 6 |
| `fcl_progress` | 2 nodes, 2 people, 6 versions | nodes follow the scope, notices are of now, closed nodes |
| `mail_delivery` | 2 notices, the second behind the first when that is exhausted, 2 workers, 2 attempts, 2 resolutions, 1 crash, fairness | no resend, the newest answer counts, nothing but an exhausted message and what is behind it stays pending |
| `access` | 2 calls, 3 credentials, 2 keys, 5 events, expiry | one head of a line, offers that are accepted |
| `exchange_postgres` | 2 exchanges, 1 credential in 2 buckets, limit 1, 3 minutes with expiry, fairness | limit, lost rights, no circle of locks |
| `exchange_sqlite` | 3 exchanges, 1 bucket, 2 minutes | violated on purpose, section 6 |
| `server` | sessions: 2 opened at once and 1 request that names one, capacity 1. Tool writes: 3 calls under 1 key, 2 payloads, 1 stop. Provider: 3 revisions, 2 calls, 1 death. Configuration: 3 previews, 2 rate requests, 1 crash. Initializer: 3 processes | exact registry, one save, true answers, providers in use, no older release, settled rest, rates on what is served, one state |
| `portal` | quotes: 4 versions of the case or of its document, 2 exports, 2 offers, 1 restart. Mail: 1 node through 2 versions, 2 people, 1 worker. Organization: 2 calls, a creation, 2 suspensions, 1 activation. Members: 2 people, 2 invitations. Grants: 2 tools, 2 rounds. Schedules: 5 days in windows of 2. Migration: 2 migrators in turn, 3 subjects, 2 seconds, 2 changes in each store. Shared store: 2 replicas, 2 keys, 2 workers each | the properties of section 1 for these parts |

Why the bounds are enough for the interesting cases:

- **coordinator**: overtaking needs a holder, a waiting writer, a reader behind it and a
  newcomer: four calls. Calls return to idle and are reused, so histories are unbounded.
- **control_managed**: a rollback needs an older verified target below the active
  release and becomes the third; two boots allow a crash at every durable point
  and the recovery after it. `MaxClock = 0` leaves expiry out there; `control_live`
  has a clock, and the theorem on the same property holds for any clock that is not set back.
  `HistoryWindow = MaxReleases` keeps every release in the history: with a smaller window
  `NoInternalFatal` does not hold (section 6, rollback targets).
- **control_live**: the process may die after the claim and again before the recovery, so that the
  recovery is itself interrupted; its last boot is an assembly over what is left, which resumes the publish.
- **fcl_progress**: six versions cover start, amendment, completion with a handover,
  skip, reopening and another amendment; the constraint `Early` keeps the three things that do not
  touch nodes (claim of the customer, documents, settled mail) to one each and to the first two
  versions.
- **mail_delivery**: two workers are what a lease protects from each other. The limits of attempts and of
  resolutions are equal, as both are 100 in the code (`fcl-execution-contracts.ts:66`). Two of each allow a retry
  after a reap, a late answer to the first attempt, and a message that is retried after each of its two attempts,
  so that every claim of it throws and no resolution is left to cancel it. `SecondBehindExhausted` lets the second
  notice come only when the first is exhausted, so that it waits behind it; two notices that come freely are
  too many states.
- **access**: a credential, its rotation and a rival rotation need three names and two
  concurrent calls; two keys allow a repeat and a clash. `SecondKeyMints` lets the second
  key be used only to issue and rotate.
- **exchange_postgres**: two buckets locked in different orders are the smallest circle; limit 1
  with two exchanges the smallest overrun. The third minute is after the expiry.
- **server, portal**: the parts share nothing but a clock, so the run explores each beside the
  initial state of the others; the sum has as many states as the parts together. The clock of a part goes as far as that
  part needs (`LastTime`). Capacity 1 with two openers is the smallest overrun; a third call under the key is
  needed for a repeat of a repeat; a third release for one that arrives while two are being
  exchanged; a third preview for a publication over a base that was replaced; a third process for a lock
  that two others clean up at once. `OneGivenUp` lets any request time out, at most one of those under way.
- **portal**: `CaseOrDocument` lets the case or the document have its four versions, or both have three. `NodesOnly`
  leaves out the notice to the customer, which is bound to no node and which `mail_delivery` is about, and shared
  data that are complete, which no node of this run needs. With one attempt and no resolution the claim meets its limit nowhere in this run;
  the branch that throws hands nothing over, and what the run asks of the mail is only what is handed over.
  `MigrateInTurn` names the migrator that begins first. Five days in windows of two have a whole window, a middle and
  a short last one. Two workers for each replica: one that is given up and the one that follows.
- Symmetry is used only in runs without liveness properties and over values the
  specifications treat alike.

Deadlock is checked only in `coordinator`. Elsewhere a bounded instance really stops: keys, releases,
boots, versions and exchanges run out.

## 4. Fairness

- **coordinator** `FairSpec`: continuations of resolved promises run (weak), because the
  event loop runs every ready microtask. `Finish` is strong: an operation settles in
  the end, though it may enter the coordinator again any number of times before, and
  each entry disables `Finish` for a moment. That operations settle is an assumption
  about the services; nothing in the coordinator enforces it.
- **control_live** `FairSpec`: a started operation continues, and a supervisor restarts the
  process (weak). Nothing obliges an operator to act. The clock does not step back there
  (`ClockMayStepBack = FALSE`): a start over rows from the future is refused until the clock has
  caught up, so that a clock that keeps stepping back keeps recovery away for ever.
- **mail_delivery** `FairMailSpec`: the interval of a worker fires, a timer ends every wait
  (weak on `Dispatch`), leases expire by the clock. Strong on a definite answer of the
  directory: without one the head of the queue blocks everything behind it.
- **exchange_postgres** `Fairness`: an exchange continues (weak), and PostgreSQL gives a freed
  advisory lock to those who wait for it in turn (strong on `Lock`). No fairness of
  `Break`: the property shows that no timeout is needed to get out of a circle.

The parts of `server` and `portal` are checked for safety only. Where something must come to an end there it is
stated of the state it ends in: `RestIsSettled` of a runtime at rest, `InitializerSettles` of a process that
has ended, `HalfDoneCanResume` of what a repeat finds.

## 5. The proofs

Every proof is checked by TLAPS down to its leaves. Assumptions are the named ASSUMEs
of the modules, which TLC evaluates in the runs.

| Module | Theorems | Argument |
|---|---|---|
| `MutationCoordinatorProofs` | `TypeCorrect`, `WriterExcludesAll`, `WaitersAreWoken`, `QueueOrder`, `FatalIsFinal`, `CoordinatorImplementsLock` | `Exclusion` alone is not inductive: a release grants from the queue, so the queue must hold exactly the waiting calls (`QueueOK`) and a queue behind readers must start with a writer (`NoLostWakeup`). The conjunction is inductive; the counter of readers is related to the set of readers by cardinality lemmas. The refinement maps each action to a step of the lock or a stutter. |
| `ControlPlaneProofs` | `TypeCorrect`, `GateNeverAhead`, `GateAgreesAtRest` | The gate is right because the step before it was: `IInv` says for each `pc` of the operation in flight what the database already holds (staged candidate, claim, outcome and proof), that the database passes the verifier, and that everything a snapshot rests on stays settled. |
| | `IdleStaysSettled` | With every boot managed (`AllManaged`). `SettledInv` adds to `IInv` that there is at most one claim and that what is open is of the operation in flight: a start leaves nothing open, a publish opens one release, its last step closes it. |
| | `PlaneImplementsLine` | No assumption beyond those of the module. The settled releases have the revisions from 1 on without a gap, the verified one is the last of them and the unresolved one comes next (`InLine`); the verifier alone does not say so, the writes do. Each action is then a step of `ReleaseLine` or a stutter. |
| | `NothingOfItsOwnIsFatal` | With every boot managed, a clock that is not set back, and no more releases than the history keeps (`AllInWindow`; section 6, rollback targets). The verifier is restated without a choice or a count (`Checked`, `VerifiesIsChecked`), and one lemma for each write (`RegisterSound`, `PreviewSound`, `ApprovalSound`, `PublishSound`, `ClaimSound`, `FinalizeSound`) shows that the write leaves a database in which it holds. What the service has checked before its transaction still holds in it (`Prepared`), so that the guards of the store agree with those of the service. |
| `ExecutionProofs` | `TypeCorrect`, `NodesFollowScope`, `NoticesAreOfNow`, `FinishedWork` | Notices of the newest event are bound to their nodes as they are; every change of a node takes a new version, so older notices are not of the newest event. |
| | `NoResend` | Hand-overs of a message are counted by attempts; an attempt beyond the first needs `pending` after a claim, which only a person's retry gives back (`MailInv`). |
| | `RecordIsOfTheNewest`, `SentIsStillTrue` | `RelayInv`: a lease is the number of its attempt, no two workers hold the same, and what a worker is about to record is what the relay decided about its own attempt. Only `Send` hands over, and it has looked at the node again (`OnlySendHandsOver`). |
| `TenantAccessProofs` | `AccessTypeCorrect`, `LinesStayLines`, `SecretsAreShownOnce`, `OffersMeetTheStore` | What a waiting call knows (`CallsKnow`) and that names drawn by different calls are apart (`DrawsApart`) make the first three inductive. What is offered is compared with what the store accepts over every row the types allow. |
| `TokenExchangeProofs` | `ExchangeTypeCorrect`, `NoTokenWithoutAudit`, `NoTokenAfterLoss`, `LimitIsKept` | The shape of a call at each wait gives the first three. The limit (for PostgreSQL) rests on `RowsCount`: a row holds exactly the number of exchanges it was given to; `HoldsLocks`: an exchange between count and write holds the locks of its buckets; and `RoomIsThere`: what it counted is still true. `LimitIsKept` has the assumption `Store = "postgres"`; `exchange_sqlite` shows that it is needed. |
| `ServerProofs` | `OneSave`, `AnswersTell` | `ToolInv`. Every save has its reservation (`RowsCoverSaves`), and the one call that may still save holds the row of its key, whose time has not come (`SaversHold`): a row outlives the call that made it, so that a key is not given away under a call that has yet to save. |
| | `RegistryStaysExact` | `SessionInv`: a session in the registry has its runtime open, and one without an entry is looked after by the request that opens it (`EntriesAreOpen`, by the place at which each request waits); a closed registry has only sessions of requests that were waiting when it closed (`ClosedIsEmpty`). |
| | `ProvidersOutliveCalls`, `ServedNeverRollsBack` | `ProviderInv`: the generation of a running call is active or draining, and the journal, in the store and in memory, is never behind what is served (`JournalLeads`), through a death between write and switch as well. |
| | `RestStaysSettled`, `RatesKeepTheirAdapter` | `ConfigInv`: what is in use is the current release, or the one whose application was observed exactly and is about to be recorded; the others are behind the fence. |
| `StoreProofs` | `MoveKeepsAll`, with its parts `WhatMovedIsThere` and `WhatMovedIsNamed` | `MigrationInv`: the schema is moved into only when it is absent, so nothing written since is overwritten. The event of a replay is stored beside it: if the source has not changed since the events were read, the only candidate is that event; else the result that was kept tells. `StatesInv` adds that a status follows from the parity of its events. |
| | `ChangesAreMadeOnce` | `SharedInv`: one worker at most has the row, what it holds is the newest document (with its change, before the COMMIT) and its key has not been used; a replica that has not given up stands where its worker stands. |
| | `InitializerStaysSettled` | `InitializerInv`: a claim for each step of a process of what it owns, and a stronger one for a process that has been alone since it began. |
| `PortalProofs` | `OwnerStays` | Needs no more than the types (`MembersAreTyped`): every transaction that could take the owner away looks for another one itself. |
| | `AdmittedWithRight` | `GrantsInv`: what the queue shows of a version is what that version asks for, and a grant is no wider than what its reviewer had read. |
| | `HalfDoneIsResumable` | Counting. Each store only ever changes to the other status, so among the keys it has done those that activate (the creation included) are as many as those that suspend, and one more while it is active (`Balanced`). What the portal recorded the tenant has applied; so where the two disagree there is a key whose target is the tenant's status and that only the tenant has done. `BridgeInv` is the types, `CallsFollow`, `StartsWithCreate` and `Balanced` of both stores. |
| | `OnePdf`, `AcceptedAsConfirmed`, `OrdersOfWhatIsCurrent`, `ApprovedWasReviewed` | `QuoteInv`, in four parts for the four groups of variables (settings, documents, PDFs, orders): a review is of the latest revision and says what that was made for, a PDF is of a revision that exists. The two action properties follow from it and the guards of the step in question. |
| | `SuccessWasWhole` | `ScheduleInv`: what an operation has covered at each of its places, and that a call can answer success only for an operation that settled with it before anything stopped the call. |

Besides, each module proves its inductive invariant and its type invariant (`Invariance`, `...Invariant`,
`MembersAreTyped`, `ShapeInvariance`).

What the constants are assumed to be, beyond the bounds being numbers: `None` and the like are no rows
(`RecordAssumption`, `EntryAssumption`, `ReleaseAssumption`, `CandidateAssumption`, `RowAssumption`), there is at
least one key of a change (`SharedAssumption`), an initializer may try at least twice
(`InitializerAssumption`; the code tries a fixed number of times). The hypotheses of single theorems are those
named in the table.

Proved of the specification and checked by no run, since other properties there imply or need them: the type invariants,
`Exclusion`, `NoLostWakeup` and `QueueOK` of the coordinator, that tokens are audited, that a secret is
shown once, the two parts of `MigrationKeepsAll`, and the inductive invariants.

Only model-checked: the four liveness properties (`EveryCallSettles`, `ClaimsAreFinalized`,
`PendingIsHandled`, `EveryExchangeEnds`), which TLAPS does not reach, as it has no rule for
fairness over ENABLED. The properties of the runs that end in a violation do not hold and have no proof.

## 6. Where code and documents disagree

Three runs end in a violation, each of a sentence in the repository's documents:

- `control_publish_replay`: repeating a completed publish with its key should return the
  recorded result; once a later release has superseded the first the code compares with the
  release as it is by now and trips the fatal error (`L/control-plane/service.ts:3035`).
- `control_pending_start`: a release that waits for its readback should be read back
  before the server listens; the start is refused instead, every time
  (`L/server/start.ts:544`).
- `exchange_sqlite`: the counts of a minute should be atomic; over SQLite an exchange
  of the minute before resets the row of the new minute
  (`G/production-store.ts:395`).

What else the models show and a maintainer may want to know, without a run of its own:

- **Releases.** The replay of a preview or of an approval after a publish consumed it is fatal as
  well (`ReplayPreview`, `ReplayDecision`); so is a reconcile with nothing to
  reconcile (`Reconcile`, `service.ts:4047`).
- **Rollback targets.** The verifier compares the target of every stored rollback preview, those long
  consumed included, with the history it has read, and the history is bounded to the newest 128 releases
  (`sqlite-control-store.ts:3498`, `:5321–5342`; `repository.ts:1358`). Once the
  target of a preview has left that window, no write passes the verifier and the runtime latches its fatal error:
  after 128 later releases, or at once when a rollback names the oldest release of a full window, as its own publication
  moves the window on. `docs/rfcs/2026-08-22-admin-control-state-dto-v1.md:236` asks only that a
  target in the bounded window be an older revision. `control_managed` with `HistoryWindow = 2` shows it in 18 states;
  this is why `NothingOfItsOwnIsFatal` assumes `MaxReleases <= HistoryWindow`.
- **Initialization.** A process that cleans up verifies that the lock's owner is dead and then removes the
  file by its name; with three processes that name may by then be a lock that is alive, and two hold
  it at once, though
  `tests/control-plane/sqlite-control-store-security.test.ts:1614` says that a live lock is never
  stolen. The rename onto a non-empty directory still keeps a single state (`InitializerSettles`), but
  the loser may be told `cleanup_failed`. Abandoned staging directories and empty
  temporary locks are never removed.
- **Plugin configuration.** The reconcile of a release that was superseded meanwhile marks
  it for manual review although nothing is wrong with it.
- **Managed providers.** Two retired generations whose calls never end refuse every later activation
  (`managed-provider.ts:66`). In the schedule runtime a release whose definitions are refused leaves the
  prepared provider open: the check comes before the `try` that closes it (`:142`).
- **Sessions.** A `register` that waits for expired sessions to close may enter a registry
  that was closed meanwhile (`L/platform/session-runtime.ts:213`).
- **Clocks.** An operation on credentials compares the expiry with the clock it read before it waited
  (`tenant-access-service.ts:926`), and an exchange marks the credential used though it expired
  meanwhile (`G/service.ts:275`).
- **Quotes.** An offer that has not expired may be confirmed after the rates it was made of have been
  published anew (`services/quote-documents/workflow.ts:902–929` is not consulted by the confirmation);
  accepting the execution then refuses it.
- **Execution.** A service that is dropped and accepted again keeps its cancelled node (`Amend`).
- **Mail.** `verifyUsers` has no timeout (`fcl-execution-mail.ts:189`): a directory that never answers
  keeps the worker in its run. A message that is refused a hundred times, and retried by a person each
  time, is pending with 100 attempts and 100 resolutions: the hundred and first claim throws, as its row would not
  pass the schema (`fcl-execution-contracts.ts:66`, `fcl-execution-mail.ts:197`), nobody can cancel it, as
  that too would add a resolution (`:129`), and each dispatch ends at it. It and every message behind it, those of
  other cases included, wait until it no longer applies (its node has moved on, for one) or one of its people is no
  longer active, which cancels it. The acceptance runbook
  (`docs/runbooks/2026-09-23-fcl-execution-v2-acceptance.md:45`) says that the limit of 100 resolutions fails closed;
  that the queue behind the message stops with it is said nowhere. `mail_delivery` reaches this state, and
  `PendingIsHandled` names it (`Exhausted`) as the one exception; without it the property is violated
  there. `Paid` in `MailInv` (proved) says that a pending message has no more attempts than retries, so that nothing
  short of a hundred retries leads to it.
- **Organizations.** After a change that ended half way only the same key completes it; another key is told
  of the difference and nothing repairs it. A creation is refused before it looks for its key once the expiry of
  the owner's invitation has passed (`organization-service.ts:80–101`): a completed one is then answered
  `input_invalid` instead of its result, and one that ended half way needs a later expiry under the same key.
- **Grants.** Suspend the application, suspend its owner, resume the application: an active
  application of a suspended owner, though `application_owner_protected` exists to prevent it. The rule that nobody
  reviews their own request is a comparison with the one who made the draft; a reviewer who submitted it, or
  who owns the application, may decide it
  (`docs/product/2026-09-05-mcp-product-redesign/12-api-platform-pages.md:107`).
- **Schedules.** An aborted query with finished windows should be `partial` and go to manual review
  (`docs/rfcs/2026-09-18-ocean-schedule-product-integration-v1.md:632`); the collector does so, and
  `schedule-live/service.ts:211–229` answers `unavailable` nevertheless. A `query_completed` may be written
  after the cancellation, which line 640 forbids.
- **Migration.** `actionNames` (`G/postgres-migration.ts:210`) does not know `client.create`, so a source with
  such a replay is refused. Two changes of a status in one second cannot be told apart and are refused too.
  Replays of version 3 keep no result: repeating their key after the move fails as corrupt.
  That the old writers have stopped is the runbook's demand, not the code's.
- **Prices.** The preview of a bulk change counts the estimates of the changed rates; the publication reprices
  every unlocked stale estimate (`services/quote-native/fcl-operations.ts`).

## 7. What is not modelled

`PROJECT.json` lists each part with its reason. About a tenth of the implementation's lines
stands behind a definition. The rest is for the most part not a matter of states: parsing and
validation of inputs, row and schema checks, pure mappings between contracts, rendering, user
interfaces and deployment scripts. Of what does have state:

- **module inventory and registration**: computed once, from what is mounted;
- **module host and leases** (`L/module-runtime/host.ts`): mounting in order with a rollback in
  reverse. A mount and a close at the same time could leave a tool without a host, but production mounts
  with `mountSync` only, where nothing can come between;
- **server composition and start**, beyond the start of the control plane: it runs once, in one order;
- **cargo and container calculations**: functions of their inputs, in decimal arithmetic;
- **adapters, agent context**: requests and answers without a memory of their own;
- **signing keys and identity**: the history of keys and the cache of its readers are worth a model, see section 8;
- **portal sessions, quotas and business access**: counters and rows that one transaction reads and writes;
- **rates: maintenance, estimates and publication**, beyond what a quote sees of them: a release that is
  published anew;
- **customs data**: packages are published by one process and read by their digest;
- **consoles, deployment, schemas**: no state on the server.

Abstractions worth knowing within the models:

- the control plane takes a set of modules as one value, and the registration of a
  module as a flag; schemas of rows are not checked, their relations are;
- the store's transactions are atomic; that they are is SQLite's and PostgreSQL's part. Where that is
  not enough the locks are modelled: for the counts of an exchange, and in `SharedStore` for the
  lock of the one row (`SELECT … FOR UPDATE`) that all the changes of a kind of portal state take;
- `SharedStore` leaves out reads outside a change, session rows, changes without a key, large
  payloads that go through a file, the making of the schema and the close at the end of a process;
- the application's own exchange (`issueAuthorizedToken`) and the verification of tokens
  are left out;
- in `TokenExchange` an expiry is compared with the minute in which the exchange began, as the code does, so that one
  that passes during the exchange is not a right that was lost (section 6, clocks);
- in `OrganizationBridge` the expiry of the owner's invitation lies ahead whenever a creation is repeated;
- `StateInitializer` is the initialization of the control state; those of the tenant access store and of the
  plugin configuration do without the lock and are not modelled;
- the parts of `server` and of `portal` share nothing but a clock, as the code does between them.

## 8. Plan

Built so far, in this order: coordinator, releases, execution and mail, tenant access, token
exchange; then sessions, tool writes, providers, plugin configuration, the initializer; quotes
and offers, organizations, members, grants, schedule queries, the migration and the shared store.

Left, by weight:

1. **Signing keys** (`G/production-crypto.ts`): rotation, the history of keys and the cache of the verifiers. A
   token that was signed must be verifiable as long as it lives.
2. **Rates**: maintenance tasks, estimates and the publication as a version of its own, composed with
   `FclQuotes`.
3. **Initializers of the other stores**, which do without the lock.
4. **Module host and leases**, should `mount` ever be used beside `mountSync`.
5. **Pure calculations** (chargeable weight, loading, surcharges) against reference
   definitions over bounded inputs.
6. **Portal sessions, quotas and business access**.

Proofs still worth having: `NothingOfItsOwnIsFatal` beyond the window for histories without rollback
previews, and with a clock that is set back, where the fatal error of a start over rows from the future would have to be told
from the others; that `ReleaseLine` and the line of plugin configurations are instances of one abstract
line; and, as soon as a rule for fairness over ENABLED is at hand, the four liveness properties.
