---------------------------- MODULE FclExecution ----------------------------
(***************************************************************************)
(* The execution of one accepted freight case                              *)
(* (services/access-gateway/portal/fcl-execution.ts) and the notifications *)
(* each of its events leaves in the outbox                                 *)
(* (services/access-gateway/portal/fcl-execution-mail.ts).                 *)
(*                                                                         *)
(* An operation is one synchronous transaction over the case database: it  *)
(* compares the version its author read, changes the record, appends one   *)
(* event, stores the outbox rows of the event and commits.  A request with *)
(* an old version or a key that was used before changes nothing, and is a  *)
(* stuttering step.  What is abstracted:                                   *)
(*   - the event of version v is v; a row of the outbox is named by the    *)
(*     columns of its UNIQUE constraint, the event, node and audience;     *)
(*   - the form of a node is whether it holds what its completion needs;   *)
(*   - a routing without a responsible person stands for every gap of the  *)
(*     configuration (no active person, no address);                       *)
(*   - accounts are active; what the directory says of them is asked for   *)
(*     by the worker (module ExecutionMail).                               *)
(***************************************************************************)
EXTENDS Integers, FiniteSets

CONSTANTS
    Users, Owner,               \* accounts, and the one that owns the case
    Nodes,                      \* the fixed nodes a service needs
    SharedNodes,                \* nodes whose completion needs shared data
    DocumentNodes,              \* the customs nodes documents are sent from
    Routings,                   \* what may be configured for a node
    ResolutionLimit,            \* resolutions of one message, 100 in the code
    MaxVersion,                 \* bound on the version of the execution
    None                        \* no node row, no person

ASSUME ExecutionAssumption ==
    /\ Owner \in Users
    /\ None \notin Users \cup Nodes
    /\ SharedNodes \subseteq Nodes
    /\ DocumentNodes \subseteq Nodes
    /\ Routings \subseteq [responsible : Users \cup {None}, internal : BOOLEAN,
                           external : BOOLEAN]
    /\ ResolutionLimit \in Nat
    /\ MaxVersion \in Nat

VARIABLES
    version,                    \* of the execution; 0 before it is started
    nodes,                      \* the row of each node, or None
    scope,                      \* nodes of the newest acceptance
    shared,                     \* whether the shared data is complete
    coordinator,                \* an account
    claimed,                    \* whether a customer has claimed the case
    outbox                      \* the messages, by name

progress == <<version, nodes, scope, shared, coordinator>>
executionVars == <<version, nodes, scope, shared, coordinator, claimed, outbox>>

Open     == {"not_started", "active", "exception"}
Terminal == {"completed", "skipped", "cancelled"}

Row     == [status : Open \cup Terminal, cycle : Nat, routing : Routings, ready : BOOLEAN]
Binding == [status : Open \cup Terminal, cycle : Nat, routing : Routings]

ASSUME RowAssumption == None \notin Row \cup Binding

Kinds       == {"internal", "external", "documents", "customer"}
MessageName == [event : Nat, node : Nodes \cup {None}, kind : Kinds]

MailStatus == {"pending", "sending", "smtp_accepted", "failed", "unknown", "cancelled"}
Codes      == {"none", "relay", "lease_expired", "changed", "human"}

\* lease is the token of the claim, 0 when there is none: attempts grows with
\* every claim, so the number of the attempt stands for the random token.
Message ==
    [bound : Binding \cup {None}, actor : Users \cup {None}, status : MailStatus,
     attempts : Nat, lease : Nat, code : Codes, resolved : Nat, retried : Nat]

Init ==
    /\ version = 0
    /\ nodes = [n \in Nodes |-> None]
    /\ scope = {}
    /\ shared = FALSE
    /\ coordinator = Owner
    /\ claimed = FALSE
    /\ outbox = [i \in {} |-> None]

-----------------------------------------------------------------------------
(* Helpers.                                                                *)

HasNode(n)    == nodes[n] # None
IsOpen(n)     == HasNode(n) /\ nodes[n].status \in Open
IsTerminal(n) == HasNode(n) /\ nodes[n].status \in Terminal

\* configurationMissing
Configured(row) == row.routing.responsible # None

\* What a message is bound to: the binding digest of fcl-execution-mail.ts.
BindingOf(row) == [status |-> row.status, cycle |-> row.cycle, routing |-> row.routing]

Manager(u)       == u \in {Owner, coordinator}
NodeAccess(u, n) == HasNode(n) /\ (Manager(u) \/ u = nodes[n].routing.responsible)

NewRow(routing) ==
    [status |-> "not_started", cycle |-> 1, routing |-> routing, ready |-> FALSE]

NewMessage(bound, actor) ==
    [bound |-> bound, actor |-> actor, status |-> "pending", attempts |-> 0,
     lease |-> 0, code |-> "none", resolved |-> 0, retried |-> 0]

Name(e, n, k) == [event |-> e, node |-> n, kind |-> k]

Insert(new, rows, actor) ==
    outbox' = [i \in DOMAIN outbox \cup new |->
                 IF i \in DOMAIN outbox THEN outbox[i]
                 ELSE NewMessage(IF i.node = None THEN None ELSE BindingOf(rows[i.node]),
                                 actor)]

\* enqueue: who is told of event e about the given nodes.  A mention and an
\* internal event stay inside, and the customer hears of public node actions.
Notices(e, about, rows, audience) ==
    {Name(e, n, "internal") : n \in {m \in about :
        Configured(rows[m]) /\ rows[m].routing.internal}}
    \cup {Name(e, n, "external") : n \in {m \in about :
        /\ audience \in {"public", "assignment"}
        /\ Configured(rows[m]) /\ rows[m].routing.external}}
    \cup (IF audience = "public" /\ claimed THEN {Name(e, None, "customer")} ELSE {})

\* Mutant: a write that keeps the version of an execution that was started.
KeepVersion(rows) ==
    version < MaxVersion /\ version' = (IF version = 0 THEN 1 ELSE version) /\ nodes' = rows

\* mutate: the next version with the changed rows.
Write(rows) == version < MaxVersion /\ version' = version + 1 /\ nodes' = rows

Quiet  == UNCHANGED outbox
Tell(about, audience) == Insert(Notices(version', about, nodes', audience), nodes', None)

-----------------------------------------------------------------------------
(* The customer, the acceptance and its amendments.                        *)

\* FclCustomerService.claim: once, with a notice of its own.
ClaimCase ==
    /\ ~claimed
    /\ claimed' = TRUE
    /\ Insert({Name(0, None, "customer")}, nodes, None)
    /\ UNCHANGED progress

\* createInTransaction, for the nodes of the services that were accepted.
StartExecution(S, routing, c) ==
    /\ version = 0
    /\ S # {}
    /\ Write([n \in Nodes |-> IF n \in S THEN NewRow(routing[n]) ELSE None])
    /\ scope' = S
    /\ coordinator' = c
    /\ Tell({}, "public")
    /\ UNCHANGED <<shared, claimed>>

\* Mutant: an amendment that cancels whatever left the scope.
AmendAll(S, routing, c) ==
    /\ version > 0
    /\ S # {}
    /\ Write([n \in Nodes |->
         IF ~HasNode(n) THEN IF n \in S THEN NewRow(routing[n]) ELSE None
         ELSE IF n \notin S THEN [nodes[n] EXCEPT !.status = "cancelled"]
         ELSE nodes[n]])
    /\ scope' = S
    /\ coordinator' = c
    /\ Quiet
    /\ UNCHANGED <<shared, claimed>>

\* amendInTransaction: a node that exists already is kept as it is.
Amend(S, routing, c) ==
    /\ version > 0
    /\ S # {}
    /\ Write([n \in Nodes |->
         IF ~HasNode(n) THEN IF n \in S THEN NewRow(routing[n]) ELSE None
         ELSE IF n \notin S /\ IsOpen(n) THEN [nodes[n] EXCEPT !.status = "cancelled"]
         ELSE nodes[n]])
    /\ scope' = S
    /\ coordinator' = c
    /\ Quiet
    /\ UNCHANGED <<shared, claimed>>

-----------------------------------------------------------------------------
(* Work on the nodes.                                                      *)

SaveShared(u, complete) ==
    /\ version > 0
    /\ Manager(u)
    /\ Write(nodes)
    /\ shared' = complete
    /\ Quiet
    /\ UNCHANGED <<scope, coordinator, claimed>>

SaveNode(u, n, ready) ==
    /\ NodeAccess(u, n)
    /\ IsOpen(n)
    /\ Write([nodes EXCEPT ![n].ready = ready])
    /\ Quiet
    /\ UNCHANGED <<scope, shared, coordinator, claimed>>

StartNode(u, n, audience) ==
    /\ NodeAccess(u, n)
    /\ IsOpen(n)
    /\ nodes[n].status # "active"
    /\ Configured(nodes[n])
    /\ Write([nodes EXCEPT ![n].status = "active"])
    /\ Tell({n}, audience)
    /\ UNCHANGED <<scope, shared, coordinator, claimed>>

\* One event completes a node and starts those it is handed over to.
CompleteNode(u, n, targets, audience) ==
    /\ NodeAccess(u, n)
    /\ nodes[n].status \in {"active", "exception"}
    /\ Configured(nodes[n])
    /\ nodes[n].ready /\ (n \in SharedNodes => shared)
    /\ targets # {} => Manager(u)
    /\ \A m \in targets : /\ m # n
                          /\ HasNode(m)
                          /\ nodes[m].status = "not_started"
                          /\ Configured(nodes[m])
    /\ Write([m \in Nodes |->
         IF m = n THEN [nodes[m] EXCEPT !.status = "completed"]
         ELSE IF m \in targets THEN [nodes[m] EXCEPT !.status = "active"]
         ELSE nodes[m]])
    /\ Tell(IF targets = {} THEN {n} ELSE targets, audience)
    /\ UNCHANGED <<scope, shared, coordinator, claimed>>

\* node_exception and node_return; the same signal with another reason counts.
SignalNode(u, n, audience) ==
    /\ NodeAccess(u, n)
    /\ IsOpen(n)
    /\ Write([nodes EXCEPT ![n].status = "exception"])
    /\ Tell({n}, audience)
    /\ UNCHANGED <<scope, shared, coordinator, claimed>>

SkipNode(u, n, audience) ==
    /\ Manager(u)
    /\ IsOpen(n)
    /\ Write([nodes EXCEPT ![n].status = "skipped"])
    /\ Tell({n}, audience)
    /\ UNCHANGED <<scope, shared, coordinator, claimed>>

\* Mutant: a node of a service that is no longer accepted is reopened.
ReopenAny(u, n, audience) ==
    /\ Manager(u)
    /\ IsTerminal(n)
    /\ Write([nodes EXCEPT ![n].status = "not_started", ![n].cycle = @ + 1])
    /\ Tell({n}, audience)
    /\ UNCHANGED <<scope, shared, coordinator, claimed>>

ReopenNode(u, n, audience) ==
    /\ Manager(u)
    /\ IsTerminal(n)
    /\ n \in scope
    /\ Write([nodes EXCEPT ![n].status = "not_started", ![n].cycle = @ + 1])
    /\ Tell({n}, audience)
    /\ UNCHANGED <<scope, shared, coordinator, claimed>>

\* Only a change of the people involved is told; the rest may change as well.
AssignNode(u, n, routing) ==
    /\ Manager(u)
    /\ IsOpen(n)
    /\ Write([nodes EXCEPT ![n].routing = routing])
    /\ Tell(IF routing.responsible # nodes[n].routing.responsible THEN {n} ELSE {},
            "assignment")
    /\ UNCHANGED <<scope, shared, coordinator, claimed>>

Mention(u, n) ==
    /\ NodeAccess(u, n)
    /\ IsOpen(n)
    /\ Configured(nodes[n])
    /\ nodes[n].routing.internal
    /\ Write(nodes)
    /\ Tell({n}, "mention")
    /\ UNCHANGED <<scope, shared, coordinator, claimed>>

\* applyDefaults: nodes that have not been started take the configured routing.
ApplyDefaults(routing) ==
    LET rows == [n \in Nodes |->
                   IF HasNode(n) /\ nodes[n].status = "not_started"
                   THEN [nodes[n] EXCEPT !.routing = routing[n]] ELSE nodes[n]]
    IN /\ version > 0
       /\ rows # nodes
       /\ Write(rows)
       /\ Quiet
       /\ UNCHANGED <<scope, shared, coordinator, claimed>>

\* sendDocuments: one message for each version and node is enough here.
SendDocuments(u, n) ==
    /\ n \in DocumentNodes
    /\ NodeAccess(u, n)
    /\ nodes[n].status \notin {"skipped", "cancelled"}
    /\ Name(version, n, "documents") \notin DOMAIN outbox
    /\ Insert({Name(version, n, "documents")}, nodes, u)
    /\ UNCHANGED <<progress, claimed>>

-----------------------------------------------------------------------------
(* The people who settle what the mail relay left open (mailAction and,    *)
(* without a new version of the execution, resolveCaseMail).               *)

Settled(i, status, code) ==
    outbox' = [outbox EXCEPT ![i].status = status, ![i].code = code, ![i].lease = 0,
                             ![i].resolved = @ + 1]

Noted(u) ==
    \/ version > 0 /\ Manager(u) /\ Write(nodes)
    \/ u = Owner /\ UNCHANGED <<version, nodes>>

Resolve(u, i, status) ==
    /\ outbox[i].status \in {"unknown", "failed", "pending"}
    /\ status \in {"smtp_accepted", "failed", "cancelled"}
    /\ outbox[i].resolved + outbox[i].retried < ResolutionLimit
    /\ Settled(i, status, "human")
    /\ Noted(u)
    /\ UNCHANGED <<scope, shared, coordinator, claimed>>

Retry(u, i) ==
    /\ outbox[i].status = "failed"
    /\ outbox[i].resolved + outbox[i].retried < ResolutionLimit
    /\ outbox' = [outbox EXCEPT ![i].status = "pending", ![i].code = "none",
                                ![i].lease = 0, ![i].retried = @ + 1]
    /\ Noted(u)
    /\ UNCHANGED <<scope, shared, coordinator, claimed>>

-----------------------------------------------------------------------------
Accept ==
    \/ ClaimCase
    \/ \E S \in SUBSET Nodes, routing \in [Nodes -> Routings], c \in Users :
         StartExecution(S, routing, c) \/ Amend(S, routing, c)

Work ==
    \E u \in Users :
      \/ \E complete \in BOOLEAN : SaveShared(u, complete)
      \/ \E n \in Nodes :
           \/ \E ready \in BOOLEAN : SaveNode(u, n, ready)
           \/ \E audience \in {"public", "internal"} :
                \/ StartNode(u, n, audience)
                \/ \E targets \in SUBSET Nodes : CompleteNode(u, n, targets, audience)
                \/ SignalNode(u, n, audience)
                \/ SkipNode(u, n, audience)
                \/ ReopenNode(u, n, audience)
           \/ \E routing \in Routings : AssignNode(u, n, routing)
           \/ Mention(u, n)
           \/ SendDocuments(u, n)

Configure == \E routing \in [Nodes -> Routings] : ApplyDefaults(routing)

Settle ==
    \E u \in Users, i \in DOMAIN outbox :
        \/ \E status \in {"smtp_accepted", "failed", "cancelled"} : Resolve(u, i, status)
        \/ Retry(u, i)

Next == Accept \/ Work \/ Configure \/ Settle

Spec == Init /\ [][Next]_executionVars

-----------------------------------------------------------------------------
ExecutionTypeOK ==
    /\ version \in 0..MaxVersion
    /\ nodes \in [Nodes -> Row \cup {None}]
    /\ scope \subseteq Nodes
    /\ shared \in BOOLEAN
    /\ coordinator \in Users
    /\ claimed \in BOOLEAN
    /\ DOMAIN outbox \subseteq MessageName
    /\ \A i \in DOMAIN outbox : outbox[i] \in Message

\* The nodes and the newest acceptance agree: every accepted service has its
\* node, and a node whose service was dropped stays closed, whatever sequence of
\* amendments, skips and reopenings led here (amendInTransaction, nodeAction).
ScopeDecidesNodes ==
    version > 0 => \A n \in Nodes : /\ n \in scope => HasNode(n)
                                    /\ HasNode(n) /\ n \notin scope => IsTerminal(n)

\* A notice of the newest event shows its node as the node is now: no change of
\* a node shares its version with another, so the digest a notice is bound to
\* tells the worker whether anything happened since (mutate, enqueue).
NoticesOfNow ==
    \A i \in DOMAIN outbox :
        i.node # None /\ i.event = version => outbox[i].bound = BindingOf(nodes[i.node])

Reopened(n) ==
    /\ nodes'[n] = [nodes[n] EXCEPT !.status = "not_started", !.cycle = nodes[n].cycle + 1]
    /\ n \in scope

OnlyReopened == \A n \in Nodes : IsTerminal(n) /\ nodes'[n] # nodes[n] => Reopened(n)

\* Finished work is never redone or revised silently: a closed node changes in
\* one way only, reopened into its next cycle while its service is accepted
\* (docs/rfcs/2026-09-23-fcl-execution-v2.md, 3.1).
ClosedStaysClosed == [][OnlyReopened]_executionVars

=============================================================================
