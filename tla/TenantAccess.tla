----------------------------- MODULE TenantAccess -----------------------------
(***************************************************************************)
(* Tenants, their clients and the credentials of machines                  *)
(* (control-plane/tenant-access-service.ts over the repository of          *)
(* control-plane/sqlite-tenant-access-store.ts).                           *)
(*                                                                         *)
(* A call of an administrator reads the clock, draws the name and the      *)
(* secret of a credential it may create, waits (for the state it looks the *)
(* credential up in, for the hash of the secret) and runs one transaction: *)
(* a key that was used before gives its recorded result again or is a      *)
(* conflict; otherwise the rows are checked, written and recorded with the *)
(* events of the change.  The answer may be lost on its way.  What is      *)
(* abstracted:                                                             *)
(*   - the secret of a credential is its name: both are drawn together;    *)
(*   - labels, roles, tools, timestamps and the reasons of a refusal;      *)
(*   - a second is as long as it takes anything to happen or to expire.    *)
(***************************************************************************)
EXTENDS Integers, Sequences, FiniteSets

CONSTANTS
    Tenants, Clients,           \* names of tenants and, within each, of clients
    Credentials,                \* names a credential can draw
    Keys,                       \* idempotency keys of the administrators
    Calls,                      \* calls under way at the same time
    None,
    Lifetime,                   \* seconds a credential is valid
    MaxTime, MaxEvents          \* bounds on the clock and on the history

ASSUME AccessAssumption ==
    /\ None \notin Tenants \cup Clients \cup Credentials \cup Keys
    /\ Lifetime \in Nat \ {0}
    /\ MaxTime \in Nat
    /\ MaxEvents \in Nat

VARIABLES
    tenants,                    \* the status of each tenant
    clients,                    \* the status of each client of each tenant
    credentials,                \* the row of each credential
    replays,                    \* the recorded result of each action and key
    events,                     \* the history
    now,                        \* the clock
    calls,                      \* what each call is doing
    shown                       \* answers that carried the secret

tables == <<tenants, clients, credentials, replays, events>>
vars   == <<tenants, clients, credentials, replays, events, now, calls, shown>>

Account == Tenants \X Clients

(* The requests of the API, by what they are about. *)
Request(actions, ts, cs, xs, states) ==
    [action : actions, tenant : ts, client : cs, credential : xs, status : states]

Minting == {"credential.issue", "credential.rotate"}

TenantRequests ==
    Request({"tenant.create"}, Tenants, {None}, {None}, {"active"})
        \cup Request({"tenant.status"}, Tenants, {None}, {None}, {"active", "suspended"})
ClientRequests ==
    Request({"client.create", "credential.issue"}, Tenants, Clients, {None}, {"active"})
        \cup Request({"client.status"}, Tenants, Clients, {None}, {"active", "disabled"})
CredentialRequests ==
    Request({"credential.rotate", "credential.revoke", "credential.acknowledge"},
            {None}, {None}, Credentials, {"active"})
Requests == TenantRequests \cup ClientRequests \cup CredentialRequests

Actions == {"tenant.create", "tenant.status", "client.create", "client.status",
            "credential.issue", "credential.rotate", "credential.revoke",
            "credential.acknowledge"}

NoRow == [status |-> "absent", account |-> None, acked |-> FALSE, expires |-> 0,
          from |-> None]
Row   == [status : {"active", "revoked"}, account : Account, acked : BOOLEAN,
          expires : Nat, from : Credentials \cup {None}]

Event == [action : {"tenant.created", "tenant.active", "tenant.suspended",
                    "client.created", "client.active", "client.disabled",
                    "credential.issued", "credential.rotated", "credential.revoked",
                    "credential.acknowledged"},
          tenant : Tenants, client : Clients \cup {None}, credential : Credentials \cup {None}]

Result == [request : Requests, credential : Credentials \cup {None}]

Call == [at : {"idle", "sent", "answered"}, request : Requests \cup {None},
         key : Keys \cup {None}, started : 0..MaxTime, id : Credentials \cup {None},
         fresh : BOOLEAN, credential : Credentials \cup {None}]
Idle == [at |-> "idle", request |-> None, key |-> None, started |-> 0, id |-> None,
         fresh |-> FALSE, credential |-> None]

Init ==
    /\ tenants = [t \in Tenants |-> "absent"]
    /\ clients = [a \in Account |-> "absent"]
    /\ credentials = [x \in Credentials |-> NoRow]
    /\ replays = [slot \in Actions \X Keys |-> None]
    /\ events = <<>>
    /\ now = 0
    /\ calls = [c \in Calls |-> Idle]
    /\ shown = [x \in Credentials |-> 0]

-----------------------------------------------------------------------------
(* What the transaction of a request checks, row by row. *)

Stored(x) == credentials[x].status # "absent"

\* The tenant and the client a request is about.
Party(q) == IF q.credential = None THEN <<q.tenant, q.client>>
            ELSE credentials[q.credential].account

TenantAllows(q) ==
    LET status == tenants[Party(q)[1]] IN
    CASE q.action = "tenant.create" -> status = "absent"
      [] q.action = "tenant.status" -> status \notin {"absent", q.status}
      [] q.action = "client.status" -> status = "active" \/ (status # "absent" /\ q.status = "disabled")
      [] q.action = "credential.revoke" -> TRUE
      [] OTHER -> status = "active"

\* Mutant: credentials of a client that is disabled are acknowledged.
ClientNeverAsked(q) ==
    CASE q.action = "client.create" -> clients[Party(q)] = "absent"
      [] q.action = "client.status" -> clients[Party(q)] \notin {"absent", q.status}
      [] OTHER -> TRUE

ClientAllows(q) ==
    CASE q.action \in {"tenant.create", "tenant.status", "credential.revoke"} -> TRUE
      [] q.action = "client.create" -> clients[Party(q)] = "absent"
      [] q.action = "client.status" -> clients[Party(q)] \notin {"absent", q.status}
      [] q.action = "credential.issue" -> clients[Party(q)] # "disabled"
      [] OTHER -> clients[Party(q)] = "active"

CredentialAllows(q, at) ==
    q.credential # None =>
        LET row == credentials[q.credential] IN
        /\ row.status = "active"
        /\ row.expires > at
        /\ q.action = "credential.rotate" => row.acked
        /\ q.action = "credential.acknowledge" => ~row.acked

Accepts(q, at) == TenantAllows(q) /\ ClientAllows(q) /\ CredentialAllows(q, at)

-----------------------------------------------------------------------------
(* The calls. *)

\* Names that nothing holds: they are drawn at random, so they never meet.
Undrawn == {x \in Credentials :
              ~Stored(x) /\ shown[x] = 0 /\ \A c \in Calls : calls[c].id # x}

Waiting(c)  == calls[c].at = "sent"
Earlier(c)  == replays[<<calls[c].request.action, calls[c].key>>]

\* Up to the transaction: the clock is read and names are drawn before the waits.
Send(c, q, k) ==
    /\ calls[c] = Idle
    /\ q.credential # None => Stored(q.credential)
    /\ \E id \in IF q.action \in Minting THEN Undrawn ELSE {None} :
         calls' = [calls EXCEPT ![c] = [at |-> "sent", request |-> q, key |-> k,
                                        started |-> now, id |-> id, fresh |-> FALSE,
                                        credential |-> None]]
    /\ UNCHANGED <<tenants, clients, credentials, replays, events, now, shown>>

Commits(c, action) ==
    /\ Waiting(c)
    /\ calls[c].request.action = action
    /\ Earlier(c) = None
    /\ Accepts(calls[c].request, calls[c].started)

\* The end of every transaction that wrote: its events and its result.
Records(c, changes, x) ==
    /\ Len(events) + Len(changes) <= MaxEvents
    /\ events' = events \o changes
    /\ replays' = [replays EXCEPT ![<<calls[c].request.action, calls[c].key>>] =
                     [request |-> calls[c].request, credential |-> x]]
    /\ calls' = [calls EXCEPT ![c].at = "answered", ![c].fresh = TRUE, ![c].credential = x]
    /\ UNCHANGED <<now, shown>>

Change(action, account, x) ==
    <<[action |-> action, tenant |-> account[1], client |-> account[2], credential |-> x]>>

CreateTenant(c) ==
    LET q == calls[c].request IN
    /\ Commits(c, "tenant.create")
    /\ tenants' = [tenants EXCEPT ![q.tenant] = "active"]
    /\ Records(c, Change("tenant.created", Party(q), None), None)
    /\ UNCHANGED <<clients, credentials>>

SetTenantStatus(c) ==
    LET q == calls[c].request IN
    /\ Commits(c, "tenant.status")
    /\ tenants' = [tenants EXCEPT ![q.tenant] = q.status]
    /\ Records(c, Change(IF q.status = "active" THEN "tenant.active" ELSE "tenant.suspended",
                         Party(q), None), None)
    /\ UNCHANGED <<clients, credentials>>

CreateClient(c) ==
    LET q == calls[c].request IN
    /\ Commits(c, "client.create")
    /\ clients' = [clients EXCEPT ![Party(q)] = "active"]
    /\ Records(c, Change("client.created", Party(q), None), None)
    /\ UNCHANGED <<tenants, credentials>>

SetClientStatus(c) ==
    LET q == calls[c].request IN
    /\ Commits(c, "client.status")
    /\ clients' = [clients EXCEPT ![Party(q)] = q.status]
    /\ Records(c, Change(IF q.status = "active" THEN "client.active" ELSE "client.disabled",
                         Party(q), None), None)
    /\ UNCHANGED <<tenants, credentials>>

Minted(c, account, from) ==
    [status |-> "active", account |-> account, acked |-> FALSE,
     expires |-> calls[c].started + Lifetime, from |-> from]

\* A client that does not exist yet is created on the way.
IssueCredential(c) ==
    LET a == Party(calls[c].request)
        new == IF clients[a] = "absent" THEN Change("client.created", a, None) ELSE <<>>
    IN /\ Commits(c, "credential.issue")
       /\ clients' = [clients EXCEPT ![a] = "active"]
       /\ credentials' = [credentials EXCEPT ![calls[c].id] = Minted(c, a, None)]
       /\ Records(c, new \o Change("credential.issued", a, calls[c].id), calls[c].id)
       /\ UNCHANGED tenants

\* Mutant: the old credential was read before the secret was hashed and is not
\* looked at again.
RotateFromRead(c) ==
    LET q == calls[c].request IN
    /\ Waiting(c) /\ q.action = "credential.rotate" /\ Earlier(c) = None
    /\ TenantAllows(q) /\ ClientAllows(q)
    /\ credentials' = [credentials EXCEPT
                         ![q.credential].status = "revoked",
                         ![calls[c].id] = Minted(c, Party(q), q.credential)]
    /\ Records(c, Change("credential.rotated", Party(q), calls[c].id), calls[c].id)
    /\ UNCHANGED <<tenants, clients>>

RotateCredential(c) ==
    LET q == calls[c].request IN
    /\ Commits(c, "credential.rotate")
    /\ credentials' = [credentials EXCEPT
                         ![q.credential].status = "revoked",
                         ![calls[c].id] = Minted(c, Party(q), q.credential)]
    /\ Records(c, Change("credential.rotated", Party(q), calls[c].id), calls[c].id)
    /\ UNCHANGED <<tenants, clients>>

RevokeCredential(c) ==
    LET q == calls[c].request IN
    /\ Commits(c, "credential.revoke")
    /\ credentials' = [credentials EXCEPT ![q.credential].status = "revoked"]
    /\ Records(c, Change("credential.revoked", Party(q), q.credential), q.credential)
    /\ UNCHANGED <<tenants, clients>>

AcknowledgeDelivery(c) ==
    LET q == calls[c].request IN
    /\ Commits(c, "credential.acknowledge")
    /\ credentials' = [credentials EXCEPT ![q.credential].acked = TRUE]
    /\ Records(c, Change("credential.acknowledged", Party(q), q.credential), q.credential)
    /\ UNCHANGED <<tenants, clients>>

\* The recorded result again: what was drawn for this call is dropped.
Replay(c) ==
    /\ Waiting(c)
    /\ Earlier(c) # None
    /\ Earlier(c).request = calls[c].request
    /\ calls' = [calls EXCEPT ![c].at = "answered", ![c].credential = Earlier(c).credential]
    /\ UNCHANGED <<tenants, clients, credentials, replays, events, now, shown>>

Leave(c) ==
    /\ calls' = [calls EXCEPT ![c] = Idle]
    /\ UNCHANGED <<tenants, clients, credentials, replays, events, now, shown>>

\* An error of the API: a conflict of keys, or rows that do not allow it.
Refuse(c) ==
    /\ Waiting(c)
    /\ IF Earlier(c) = None THEN ~Accepts(calls[c].request, calls[c].started)
       ELSE Earlier(c).request # calls[c].request
    /\ Leave(c)

\* The store is closed, out of reach or out of time, and rolls back.
Fail(c) == Waiting(c) /\ Leave(c)

\* The answer reaches the administrator; only the first one has the secret.
Answer(c) ==
    /\ calls[c].at = "answered"
    /\ calls' = [calls EXCEPT ![c] = Idle]
    /\ shown' = [x \in Credentials |->
                   IF calls[c].fresh /\ x = calls[c].id THEN shown[x] + 1 ELSE shown[x]]
    /\ UNCHANGED <<tenants, clients, credentials, replays, events, now>>

\* The connection or the process is gone before it.
Lose(c) == calls[c].at = "answered" /\ Leave(c)

Tick ==
    /\ now < MaxTime
    /\ now' = now + 1
    /\ UNCHANGED <<tenants, clients, credentials, replays, events, calls, shown>>

Commit(c) ==
    \/ CreateTenant(c) \/ SetTenantStatus(c) \/ CreateClient(c) \/ SetClientStatus(c)
    \/ IssueCredential(c) \/ RotateCredential(c) \/ RevokeCredential(c)
    \/ AcknowledgeDelivery(c)

Next ==
    \/ \E c \in Calls :
         \/ \E q \in Requests, k \in Keys : Send(c, q, k)
         \/ Commit(c) \/ Replay(c) \/ Refuse(c) \/ Fail(c) \/ Answer(c) \/ Lose(c)
    \/ Tick

Spec == Init /\ [][Next]_vars

-----------------------------------------------------------------------------
(* The views of the service. *)

Offerable == {"tenant.status", "client.status", "credential.rotate", "credential.revoke",
              "credential.acknowledge"}

\* credentialDto: what is left to do with a credential.
CredentialOffers(x) ==
    LET row    == credentials[x]
        usable == tenants[row.account[1]] = "active" /\ clients[row.account] = "active"
    IN IF row.status # "active" \/ row.expires <= now THEN {}
       ELSE {"credential.revoke"}
              \cup (IF usable THEN {IF row.acked THEN "credential.rotate"
                                    ELSE "credential.acknowledge"} ELSE {})

\* tenantDto and clientDto: the other status, of a client only while its tenant
\* is active.
Offered(q) ==
    CASE q.action = "tenant.status" ->
           /\ tenants[q.tenant] # "absent"
           /\ q.status = (IF tenants[q.tenant] = "active" THEN "suspended" ELSE "active")
      [] q.action = "client.status" ->
           /\ tenants[q.tenant] = "active" /\ clients[Party(q)] # "absent"
           /\ q.status = (IF clients[Party(q)] = "active" THEN "disabled" ELSE "active")
      [] OTHER -> q.action \in CredentialOffers(q.credential)

-----------------------------------------------------------------------------
AccessTypeOK ==
    /\ tenants \in [Tenants -> {"absent", "active", "suspended"}]
    /\ clients \in [Account -> {"absent", "active", "disabled"}]
    /\ credentials \in [Credentials -> Row \cup {NoRow}]
    /\ replays \in [Actions \X Keys -> Result \cup {None}]
    /\ events \in Seq(Event)
    /\ now \in 0..MaxTime
    /\ calls \in [Calls -> Call]
    /\ shown \in [Credentials -> Nat]

\* A line of rotations has one head: a credential is rotated at most once, and
\* one that was rotated is revoked, so of a line at most the newest can be
\* used; whoever else read the old one before the hash of a secret was ready
\* (rotateCredential, repository rotateCredential).
LinesHaveOneHead ==
    \A x, y \in Credentials :
        (Stored(x) /\ credentials[x].from # None) =>
            /\ credentials[credentials[x].from].status = "revoked"
            /\ credentials[x].from = credentials[y].from => x = y

\* A secret is shown once, by the call that created its credential, and only
\* when the credential exists: lost answers, repeated requests and calls that
\* share a key never show another one (secret_delivery one_time and withheld).
SecretIsShownOnce ==
    \A x \in Credentials : shown[x] <= 1 /\ (shown[x] = 1 => Stored(x))

\* What the view of the service offers is what the store accepts, and nothing
\* more is accepted than offered, except that a client can also be disabled
\* while its tenant is suspended (tenantDto, clientDto, credentialDto against
\* the checks of the repository).
OffersAreAccepted ==
    \A q \in Requests :
        q.action \in Offerable /\ (q.credential # None => Stored(q.credential)) =>
            /\ Offered(q) => Accepts(q, now)
            /\ Accepts(q, now) =>
                 Offered(q) \/ (q.action = "client.status" /\ q.status = "disabled"
                                /\ tenants[q.tenant] = "suspended")

=============================================================================
