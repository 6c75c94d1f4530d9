-------------------------- MODULE ExecutionProofs -----------------------------
(***************************************************************************)
(* The execution of a case and the notices about it, for every set of      *)
(* people, nodes, routings and workers and every bound: first what the     *)
(* people do (FclExecution), then what the workers send (ExecutionMail).   *)
(***************************************************************************)
EXTENDS ExecutionMail, FiniteSetTheorems, TLAPS

-----------------------------------------------------------------------------
(***************************************************************************)
(* The execution of a case for any people, nodes, routings and any number  *)
(* of versions: its type, that nodes follow the accepted scope, that a     *)
(* notice shows its node at its own version, and that finished work is     *)
(* only ever reopened.                                                     *)
(***************************************************************************)

\* Before the execution is started there are no nodes.
NothingBefore == version = 0 => \A n \in Nodes : ~HasNode(n)

\* No message belongs to an event that has not happened.
EventsPast == \A i \in DOMAIN outbox : i.event <= version

RecordOK ==
    /\ version \in 0..MaxVersion
    /\ nodes \in [Nodes -> Row \cup {None}]
    /\ scope \subseteq Nodes
    /\ shared \in BOOLEAN
    /\ coordinator \in Users
    /\ claimed \in BOOLEAN
    /\ ScopeDecidesNodes
    /\ NothingBefore

OutboxOK ==
    /\ DOMAIN outbox \subseteq MessageName
    /\ \A i \in DOMAIN outbox : outbox[i] \in Message
    /\ EventsPast
    /\ NoticesOfNow

\* The inductive invariant.  That a notice shows its node is not inductive by
\* itself: a new version must find no message under its own number.
IInv == RecordOK /\ OutboxOK

-----------------------------------------------------------------------------
(* Rows and messages.                                                      *)

LEMMA BindingType ==
    ASSUME NEW row \in Row
    PROVE  BindingOf(row) \in Binding
BY DEF BindingOf, Row, Binding

LEMMA RowIsNotNone == None \notin Row
BY RowAssumption

LEMMA NewRowType ==
    ASSUME NEW routing \in Routings
    PROVE  NewRow(routing) \in Row /\ NewRow(routing).status = "not_started"
BY DEF NewRow, Row, Open, Terminal

LEMMA NewMessageType ==
    ASSUME NEW bound \in Binding \cup {None}, NEW actor \in Users \cup {None}
    PROVE  NewMessage(bound, actor) \in Message /\ NewMessage(bound, actor).bound = bound
BY DEF NewMessage, Message, MailStatus, Codes

\* Messages that are inserted for the version the record has after the step, or
\* for the case itself, keep the outbox in order; those that exist stay.
LEMMA InsertKeepsOutbox ==
    ASSUME IInv, RecordOK',
           NEW new \in SUBSET MessageName, NEW actor \in Users \cup {None},
           Insert(new, nodes', actor),
           \A i \in new : i.node # None => i.event = version' /\ HasNode(i.node)',
           \A i \in new : i.node = None => i.event <= version',
           \/ version' = version /\ nodes' = nodes
           \/ version' = version + 1
    PROVE  OutboxOK'
<1> DEFINE Fresh(i) == NewMessage(IF i.node = None THEN None ELSE BindingOf(nodes'[i.node]), actor)
<1>1. DOMAIN outbox' = DOMAIN outbox \cup new
  BY DEF Insert
<1>2. \A i \in DOMAIN outbox : outbox'[i] = outbox[i]
  BY DEF Insert
<1>3. \A i \in new \ DOMAIN outbox : outbox'[i] = Fresh(i)
  BY DEF Insert
<1>4. ASSUME NEW i \in new \ DOMAIN outbox
      PROVE  /\ outbox'[i] \in Message
             /\ i.node # None => outbox'[i].bound = BindingOf(nodes'[i.node])
  <2>1. CASE i.node = None
    BY <2>1, <1>3, NewMessageType
  <2>2. CASE i.node # None
    <3>1. i.node \in Nodes
      BY <2>2 DEF MessageName
    <3>2. nodes'[i.node] \in Row
      BY <2>2, <3>1 DEF HasNode, RecordOK
    <3>3. BindingOf(nodes'[i.node]) \in Binding
      BY <3>2, BindingType
    <3> QED BY <2>2, <3>3, <1>3, NewMessageType
  <2> QED BY <2>1, <2>2
<1>5. (DOMAIN outbox \subseteq MessageName /\ \A i \in DOMAIN outbox : outbox[i] \in Message)'
  BY <1>1, <1>2, <1>4 DEF IInv, OutboxOK
<1>6. EventsPast'
  <2>1. \A i \in DOMAIN outbox : i.event \in Nat /\ i.event <= version
    BY DEF IInv, OutboxOK, EventsPast, MessageName
  <2>2. version \in Nat /\ version' \in Nat /\ version <= version'
    BY ExecutionAssumption DEF IInv, RecordOK
  <2>3. \A i \in new : i.event <= version'
    BY <2>2
  <2> QED BY <1>1, <2>1, <2>2, <2>3 DEF EventsPast
<1>7. NoticesOfNow'
  <2> SUFFICES ASSUME NEW i \in DOMAIN outbox', i.node # None, i.event = version'
               PROVE  outbox'[i].bound = BindingOf(nodes'[i.node])
    BY DEF NoticesOfNow, BindingOf
  <2>1. CASE i \in DOMAIN outbox
    <3>1. i.event <= version
      BY <2>1 DEF IInv, OutboxOK, EventsPast
    <3>2. version \in Nat
      BY ExecutionAssumption DEF IInv, RecordOK
    <3>3. version' = version /\ nodes' = nodes
      BY <3>1, <3>2
    <3> QED BY <2>1, <3>3, <1>2 DEF IInv, OutboxOK, NoticesOfNow
  <2>2. CASE i \notin DOMAIN outbox
    BY <2>2, <1>1, <1>4
  <2> QED BY <2>1, <2>2
<1> QED BY <1>5, <1>6, <1>7 DEF OutboxOK

\* What an event about existing nodes tells people keeps the outbox in order.
LEMMA TellKeepsOutbox ==
    ASSUME IInv, RecordOK', NEW about \in SUBSET Nodes, NEW audience,
           version' = version + 1,
           \A n \in about : HasNode(n)',
           Tell(about, audience)
    PROVE  OutboxOK'
<1> DEFINE new == Notices(version', about, nodes', audience)
<1>1. version' \in Nat
  BY ExecutionAssumption DEF RecordOK
<1>2. new \subseteq MessageName
  BY <1>1 DEF Notices, Name, MessageName, Kinds
<1>3. \A i \in new : i.event = version' /\ (i.node # None => i.node \in about)
  BY DEF Notices, Name
<1>4. Insert(new, nodes', None)
  BY DEF Tell
<1>5. \A i \in new : i.event <= version'
  BY <1>1, <1>3
<1> HIDE DEF new
<1> QED BY <1>2, <1>3, <1>4, <1>5, InsertKeepsOutbox

LEMMA QuietKeepsOutbox ==
    ASSUME IInv, RecordOK', Quiet, version' = version + 1
    PROVE  OutboxOK'
<1>1. version \in Nat
  BY ExecutionAssumption DEF IInv, RecordOK
<1>2. \A i \in DOMAIN outbox : i.event \in Nat /\ i.event <= version
  BY DEF IInv, OutboxOK, EventsPast, MessageName
<1>3. EventsPast' /\ NoticesOfNow'
  BY <1>1, <1>2 DEF Quiet, EventsPast, NoticesOfNow
<1> QED BY <1>3 DEF IInv, OutboxOK, Quiet

\* A message that only changes its delivery stays what it is about.
LEMMA DeliveryKeepsOutbox ==
    ASSUME IInv, RecordOK',
           DOMAIN outbox' = DOMAIN outbox,
           \A i \in DOMAIN outbox : outbox'[i] \in Message /\ outbox'[i].bound = outbox[i].bound,
           \/ version' = version /\ nodes' = nodes
           \/ version' = version + 1
    PROVE  OutboxOK'
<1>1. version \in Nat
  BY ExecutionAssumption DEF IInv, RecordOK
<1>2. \A i \in DOMAIN outbox : i.event \in Nat /\ i.event <= version
  BY DEF IInv, OutboxOK, EventsPast, MessageName
<1>3. EventsPast'
  BY <1>1, <1>2 DEF EventsPast
<1>4. NoticesOfNow'
  <2> SUFFICES ASSUME NEW i \in DOMAIN outbox, i.node # None, i.event = version'
               PROVE  outbox'[i].bound = BindingOf(nodes'[i.node])
    BY DEF NoticesOfNow, BindingOf
  <2>1. version' = version /\ nodes' = nodes
    BY <1>1, <1>2
  <2> QED BY <2>1 DEF IInv, OutboxOK, NoticesOfNow
<1> QED BY <1>3, <1>4 DEF IInv, OutboxOK

-----------------------------------------------------------------------------
(* The record.                                                             *)

\* A new version with the given rows is a record again, when the rows are rows,
\* accepted nodes keep theirs and the others stay closed.
LEMMA WriteKeepsRecord ==
    ASSUME RecordOK, NEW rows \in [Nodes -> Row \cup {None}], Write(rows),
           scope' \subseteq Nodes, coordinator' \in Users,
           shared' \in BOOLEAN, claimed' = claimed,
           \A n \in Nodes : n \in scope' => rows[n] # None,
           \A n \in Nodes \ scope' : rows[n] # None => rows[n].status \in Terminal
    PROVE  RecordOK'
<1>1. version' = version + 1 /\ version' \in 1..MaxVersion /\ nodes' = rows
  BY ExecutionAssumption DEF Write, RecordOK
<1>2. ScopeDecidesNodes'
  BY <1>1 DEF ScopeDecidesNodes, HasNode, IsTerminal
<1>3. NothingBefore'
  BY <1>1 DEF NothingBefore
<1> QED BY <1>1, <1>2, <1>3, ExecutionAssumption DEF RecordOK

\* A node that is there has a row, and the execution was started.
LEMMA NodeIsRow ==
    ASSUME RecordOK, NEW n \in Nodes, HasNode(n)
    PROVE  nodes[n] \in Row /\ version > 0
<1>1. nodes[n] \in Row
  BY DEF RecordOK, HasNode
<1>2. version # 0 /\ version \in Nat
  BY ExecutionAssumption DEF RecordOK, NothingBefore
<1> QED BY <1>1, <1>2

\* Work on one node writes a row for it and leaves the others; a node outside the
\* accepted scope is closed, so open ones and accepted ones may take any status.
LEMMA NodeWorkKeepsRecord ==
    ASSUME RecordOK, NEW n \in Nodes, HasNode(n), NEW row \in Row,
           n \in scope \/ IsOpen(n),
           Write([nodes EXCEPT ![n] = row]),
           UNCHANGED <<scope, shared, coordinator, claimed>>
    PROVE  RecordOK' /\ HasNode(n)'
<1> DEFINE rows == [nodes EXCEPT ![n] = row]
<1>1. version > 0
  BY NodeIsRow
<1>2. n \in scope
  BY <1>1 DEF RecordOK, ScopeDecidesNodes, IsOpen, IsTerminal, Open, Terminal
<1>3. rows \in [Nodes -> Row \cup {None}]
  BY DEF RecordOK
<1>4. \A m \in Nodes : m \in scope => rows[m] # None
  BY <1>1, RowIsNotNone DEF RecordOK, ScopeDecidesNodes, HasNode
<1>5. \A m \in Nodes \ scope : rows[m] # None => rows[m].status \in Terminal
  BY <1>1, <1>2 DEF RecordOK, ScopeDecidesNodes, HasNode, IsTerminal
<1>6. RecordOK'
  <2> HIDE DEF rows
  <2> QED BY <1>3, <1>4, <1>5, WriteKeepsRecord DEF RecordOK, rows
<1>7. HasNode(n)'
  BY <1>3, RowIsNotNone DEF Write, HasNode, RecordOK
<1> QED BY <1>6, <1>7

LEMMA ClaimCaseStep == ASSUME IInv, ClaimCase PROVE IInv'
<1>1. RecordOK'
  BY DEF IInv, RecordOK, ClaimCase, progress, ScopeDecidesNodes, NothingBefore,
         HasNode, IsTerminal
<1> DEFINE new == {Name(0, None, "customer")}
<1>2. new \in SUBSET MessageName /\ \A i \in new : i.node = None /\ i.event = 0
  BY DEF Name, MessageName, Kinds
<1>3. version' = version /\ nodes' = nodes /\ 0 <= version'
  BY ExecutionAssumption DEF ClaimCase, progress, IInv, RecordOK
<1>4. Insert(new, nodes', None)
  BY <1>3 DEF ClaimCase
<1>5. OutboxOK'
  <2> HIDE DEF new
  <2> QED BY <1>1, <1>2, <1>3, <1>4, InsertKeepsOutbox
<1> QED BY <1>1, <1>5 DEF IInv

LEMMA StartStep ==
    ASSUME IInv, NEW S \in SUBSET Nodes, NEW routing \in [Nodes -> Routings],
           NEW c \in Users, StartExecution(S, routing, c)
    PROVE  IInv'
<1> DEFINE rows == [n \in Nodes |-> IF n \in S THEN NewRow(routing[n]) ELSE None]
<1>1. rows \in [Nodes -> Row \cup {None}]
  BY NewRowType
<1>2. \A n \in Nodes : n \in S <=> rows[n] # None
  BY NewRowType, RowIsNotNone
<1>3. Write(rows) /\ scope' = S /\ coordinator' = c
  BY DEF StartExecution
<1>4. RecordOK'
  <2> HIDE DEF rows
  <2> QED BY <1>1, <1>2, <1>3, WriteKeepsRecord DEF StartExecution, IInv, RecordOK
<1>5. OutboxOK'
  BY <1>4, TellKeepsOutbox DEF StartExecution, Write
<1> QED BY <1>4, <1>5 DEF IInv

LEMMA AmendStep ==
    ASSUME IInv, NEW S \in SUBSET Nodes, NEW routing \in [Nodes -> Routings],
           NEW c \in Users, Amend(S, routing, c)
    PROVE  IInv'
<1> DEFINE rows == [n \in Nodes |->
         IF ~HasNode(n) THEN IF n \in S THEN NewRow(routing[n]) ELSE None
         ELSE IF n \notin S /\ IsOpen(n) THEN [nodes[n] EXCEPT !.status = "cancelled"]
         ELSE nodes[n]]
<1>1. ASSUME NEW n \in Nodes
      PROVE  /\ rows[n] \in Row \cup {None}
             /\ n \in S => rows[n] # None
             /\ n \notin S /\ rows[n] # None => rows[n].status \in Terminal
  <2>1. CASE ~HasNode(n)
    BY <2>1, NewRowType, RowIsNotNone
  <2>2. CASE HasNode(n)
    <3>1. nodes[n] \in Row
      BY <2>2, NodeIsRow DEF IInv
    <3>2. [nodes[n] EXCEPT !.status = "cancelled"] \in Row
      BY <3>1 DEF Row, Terminal
    <3>3. nodes[n].status \in Open \cup Terminal
      BY <3>1 DEF Row
    <3>4. [nodes[n] EXCEPT !.status = "cancelled"].status = "cancelled"
      BY <3>1 DEF Row
    <3> QED BY <2>2, <3>1, <3>2, <3>3, <3>4, RowIsNotNone DEF IsOpen, Terminal
  <2> QED BY <2>1, <2>2
<1>2. rows \in [Nodes -> Row \cup {None}]
  BY <1>1
<1>3. Write(rows) /\ scope' = S /\ coordinator' = c
  BY DEF Amend
<1>4. RecordOK'
  <2> HIDE DEF rows
  <2> QED BY <1>1, <1>2, <1>3, WriteKeepsRecord DEF Amend, IInv, RecordOK
<1>5. OutboxOK'
  BY <1>3, <1>4, QuietKeepsOutbox DEF Amend, Write
<1> QED BY <1>4, <1>5 DEF IInv

LEMMA SaveSharedStep ==
    ASSUME IInv, NEW u \in Users, NEW complete \in BOOLEAN, SaveShared(u, complete)
    PROVE  IInv'
<1>1. nodes \in [Nodes -> Row \cup {None}] /\ Write(nodes)
  BY DEF SaveShared, IInv, RecordOK
<1>2. RecordOK'
  BY <1>1, WriteKeepsRecord
     DEF SaveShared, IInv, RecordOK, ScopeDecidesNodes, HasNode, IsTerminal
<1>3. OutboxOK'
  BY <1>2, QuietKeepsOutbox DEF SaveShared, Write
<1> QED BY <1>2, <1>3 DEF IInv

\* Work on one node that is told, or not.
LEMMA NodeWorkStep ==
    ASSUME IInv, NEW n \in Nodes, HasNode(n), NEW row \in Row,
           n \in scope \/ IsOpen(n),
           Write([nodes EXCEPT ![n] = row]),
           UNCHANGED <<scope, shared, coordinator, claimed>>,
           \/ Quiet
           \/ \E about \in SUBSET {n}, audience \in {"public", "internal", "assignment",
                                                     "mention"} : Tell(about, audience)
    PROVE  IInv'
<1>1. RecordOK' /\ HasNode(n)'
  BY NodeWorkKeepsRecord DEF IInv
<1>2. version' = version + 1
  BY DEF Write
<1>3. OutboxOK'
  <2>1. CASE Quiet
    BY <2>1, <1>1, <1>2, QuietKeepsOutbox
  <2>2. ASSUME NEW about \in SUBSET {n}, NEW audience, Tell(about, audience)
        PROVE  OutboxOK'
    BY <2>2, <1>1, <1>2, TellKeepsOutbox
  <2> QED BY <2>1, <2>2
<1> QED BY <1>1, <1>3 DEF IInv

LEMMA SaveNodeStep ==
    ASSUME IInv, NEW u \in Users, NEW n \in Nodes, NEW ready \in BOOLEAN,
           SaveNode(u, n, ready)
    PROVE  IInv'
<1>1. HasNode(n) /\ nodes[n] \in Row /\ IsOpen(n)
  BY NodeIsRow DEF SaveNode, NodeAccess, IInv
<1>2. [nodes[n] EXCEPT !.ready = ready] \in Row
  BY <1>1 DEF Row
<1>3. Write([nodes EXCEPT ![n] = [nodes[n] EXCEPT !.ready = ready]])
  BY DEF SaveNode
<1> QED BY <1>1, <1>2, <1>3, NodeWorkStep DEF SaveNode

\* The status of a node with access to it.
LEMMA StatusRow ==
    ASSUME NEW row \in Row, NEW s \in Open \cup Terminal
    PROVE  [row EXCEPT !.status = s] \in Row
BY DEF Row

LEMMA StartNodeStep ==
    ASSUME IInv, NEW u \in Users, NEW n \in Nodes, NEW audience \in {"public", "internal"},
           StartNode(u, n, audience)
    PROVE  IInv'
<1>1. HasNode(n) /\ nodes[n] \in Row /\ IsOpen(n)
  BY NodeIsRow DEF StartNode, NodeAccess, IInv
<1>2. [nodes[n] EXCEPT !.status = "active"] \in Row
  BY <1>1, StatusRow DEF Open
<1>3. Write([nodes EXCEPT ![n] = [nodes[n] EXCEPT !.status = "active"]])
      /\ Tell({n}, audience)
  BY DEF StartNode
<1> QED BY <1>1, <1>2, <1>3, NodeWorkStep DEF StartNode

LEMMA SignalNodeStep ==
    ASSUME IInv, NEW u \in Users, NEW n \in Nodes, NEW audience \in {"public", "internal"},
           SignalNode(u, n, audience)
    PROVE  IInv'
<1>1. HasNode(n) /\ nodes[n] \in Row /\ IsOpen(n)
  BY NodeIsRow DEF SignalNode, NodeAccess, IInv
<1>2. [nodes[n] EXCEPT !.status = "exception"] \in Row
  BY <1>1, StatusRow DEF Open
<1>3. Write([nodes EXCEPT ![n] = [nodes[n] EXCEPT !.status = "exception"]])
      /\ Tell({n}, audience)
  BY DEF SignalNode
<1> QED BY <1>1, <1>2, <1>3, NodeWorkStep DEF SignalNode

LEMMA SkipNodeStep ==
    ASSUME IInv, NEW u \in Users, NEW n \in Nodes, NEW audience \in {"public", "internal"},
           SkipNode(u, n, audience)
    PROVE  IInv'
<1>1. HasNode(n) /\ nodes[n] \in Row /\ IsOpen(n)
  BY NodeIsRow DEF SkipNode, IsOpen, IInv
<1>2. [nodes[n] EXCEPT !.status = "skipped"] \in Row
  BY <1>1, StatusRow DEF Terminal
<1>3. Write([nodes EXCEPT ![n] = [nodes[n] EXCEPT !.status = "skipped"]])
      /\ Tell({n}, audience)
  BY DEF SkipNode
<1> QED BY <1>1, <1>2, <1>3, NodeWorkStep DEF SkipNode

LEMMA ReopenNodeStep ==
    ASSUME IInv, NEW u \in Users, NEW n \in Nodes, NEW audience \in {"public", "internal"},
           ReopenNode(u, n, audience)
    PROVE  IInv'
<1> DEFINE row == [nodes[n] EXCEPT !.status = "not_started", !.cycle = nodes[n].cycle + 1]
<1>1. HasNode(n) /\ nodes[n] \in Row /\ n \in scope
  BY NodeIsRow DEF ReopenNode, IsTerminal, IInv
<1>2. row \in Row
  <2>1. nodes[n].cycle + 1 \in Nat
    BY <1>1 DEF Row
  <2>2. "not_started" \in Open \cup Terminal
    BY DEF Open
  <2> QED BY <1>1, <2>1, <2>2 DEF Row
<1>3. Write([nodes EXCEPT ![n] = row]) /\ Tell({n}, audience)
  BY DEF ReopenNode
<1> HIDE DEF row
<1> QED BY <1>1, <1>2, <1>3, NodeWorkStep DEF ReopenNode

LEMMA AssignNodeStep ==
    ASSUME IInv, NEW u \in Users, NEW n \in Nodes, NEW routing \in Routings,
           AssignNode(u, n, routing)
    PROVE  IInv'
<1>1. HasNode(n) /\ nodes[n] \in Row /\ IsOpen(n)
  BY NodeIsRow DEF AssignNode, IsOpen, IInv
<1>2. [nodes[n] EXCEPT !.routing = routing] \in Row
  BY <1>1 DEF Row
<1>3. Write([nodes EXCEPT ![n] = [nodes[n] EXCEPT !.routing = routing]])
  BY DEF AssignNode
<1>4. \E about \in SUBSET {n} : Tell(about, "assignment")
  BY DEF AssignNode
<1> QED BY <1>1, <1>2, <1>3, <1>4, NodeWorkStep DEF AssignNode

LEMMA MentionStep ==
    ASSUME IInv, NEW u \in Users, NEW n \in Nodes, Mention(u, n)
    PROVE  IInv'
<1>1. HasNode(n) /\ nodes[n] \in Row /\ IsOpen(n)
  BY NodeIsRow DEF Mention, NodeAccess, IInv
<1>2. [nodes EXCEPT ![n] = nodes[n]] = nodes
  BY DEF IInv, RecordOK
<1>3. Write([nodes EXCEPT ![n] = nodes[n]]) /\ Tell({n}, "mention")
  BY <1>2 DEF Mention
<1> QED BY <1>1, <1>3, NodeWorkStep DEF Mention

\* A handover closes one node and starts others, all of them accepted.
LEMMA CompleteNodeStep ==
    ASSUME IInv, NEW u \in Users, NEW n \in Nodes, NEW targets \in SUBSET Nodes,
           NEW audience \in {"public", "internal"},
           CompleteNode(u, n, targets, audience)
    PROVE  IInv'
<1> DEFINE rows == [m \in Nodes |->
         IF m = n THEN [nodes[m] EXCEPT !.status = "completed"]
         ELSE IF m \in targets THEN [nodes[m] EXCEPT !.status = "active"]
         ELSE nodes[m]]
<1>1. HasNode(n) /\ IsOpen(n) /\ n \notin targets
  BY DEF CompleteNode, NodeAccess, IsOpen, Open
<1>2. \A m \in targets : HasNode(m) /\ IsOpen(m)
  BY DEF CompleteNode, IsOpen, Open
<1>3. version > 0
  BY <1>1, NodeIsRow DEF IInv
<1>4. \A m \in targets \cup {n} : nodes[m] \in Row /\ m \in scope
  BY <1>1, <1>2, <1>3, NodeIsRow
     DEF IInv, RecordOK, ScopeDecidesNodes, IsOpen, IsTerminal, Open, Terminal
<1>5. ASSUME NEW m \in Nodes
      PROVE  /\ rows[m] \in Row \cup {None}
             /\ HasNode(m) <=> rows[m] # None
             /\ m \notin scope => rows[m] = nodes[m]
  <2>1. CASE m = n
    BY <2>1, <1>1, <1>4, StatusRow, RowIsNotNone DEF Terminal
  <2>2. CASE m # n /\ m \in targets
    BY <2>2, <1>2, <1>4, StatusRow, RowIsNotNone DEF Open
  <2>3. CASE m # n /\ m \notin targets
    BY <2>3 DEF IInv, RecordOK, HasNode
  <2> QED BY <2>1, <2>2, <2>3
<1>6. rows \in [Nodes -> Row \cup {None}]
  BY <1>5
<1>7. Write(rows) /\ nodes' = rows /\ version' = version + 1
  BY DEF CompleteNode, Write
<1>8. RecordOK'
  <2>1. \A m \in Nodes : m \in scope => rows[m] # None
    BY <1>3, <1>5 DEF IInv, RecordOK, ScopeDecidesNodes
  <2>2. \A m \in Nodes \ scope : rows[m] # None => rows[m].status \in Terminal
    BY <1>3, <1>5 DEF IInv, RecordOK, ScopeDecidesNodes, IsTerminal, HasNode
  <2> HIDE DEF rows
  <2> QED BY <1>6, <1>7, <2>1, <2>2, WriteKeepsRecord DEF CompleteNode, IInv, RecordOK
<1>9. \A m \in targets \cup {n} : HasNode(m)'
  BY <1>1, <1>2, <1>5, <1>7 DEF HasNode
<1>10. OutboxOK'
  <2>1. Tell(IF targets = {} THEN {n} ELSE targets, audience)
    BY DEF CompleteNode
  <2> HIDE DEF rows
  <2> QED BY <2>1, <1>7, <1>8, <1>9, TellKeepsOutbox
<1> QED BY <1>8, <1>10 DEF IInv

LEMMA ApplyDefaultsStep ==
    ASSUME IInv, NEW routing \in [Nodes -> Routings], ApplyDefaults(routing)
    PROVE  IInv'
<1> DEFINE rows == [n \in Nodes |->
         IF HasNode(n) /\ nodes[n].status = "not_started"
         THEN [nodes[n] EXCEPT !.routing = routing[n]] ELSE nodes[n]]
<1>1. ASSUME NEW n \in Nodes
      PROVE  /\ rows[n] \in Row \cup {None}
             /\ HasNode(n) <=> rows[n] # None
             /\ HasNode(n) => rows[n].status = nodes[n].status
  <2>1. CASE HasNode(n)
    <3>1. nodes[n] \in Row /\ routing[n] \in Routings
      BY <2>1, NodeIsRow DEF IInv
    <3>2. /\ [nodes[n] EXCEPT !.routing = routing[n]] \in Row
          /\ [nodes[n] EXCEPT !.routing = routing[n]].status = nodes[n].status
      BY <3>1 DEF Row
    <3> QED BY <2>1, <3>1, <3>2, RowIsNotNone
  <2>2. CASE ~HasNode(n)
    BY <2>2 DEF HasNode
  <2> QED BY <2>1, <2>2
<1>2. rows \in [Nodes -> Row \cup {None}]
  BY <1>1
<1>3. Write(rows) /\ version > 0
  BY ExecutionAssumption DEF ApplyDefaults
<1>4. RecordOK'
  <2>1. \A m \in Nodes : m \in scope => rows[m] # None
    BY <1>1, <1>3 DEF IInv, RecordOK, ScopeDecidesNodes
  <2>2. \A m \in Nodes \ scope : rows[m] # None => rows[m].status \in Terminal
    BY <1>1, <1>3 DEF IInv, RecordOK, ScopeDecidesNodes, IsTerminal
  <2>3. UNCHANGED <<scope, shared, coordinator, claimed>>
    BY DEF ApplyDefaults
  <2> HIDE DEF rows
  <2> QED BY <1>2, <1>3, <2>1, <2>2, <2>3, WriteKeepsRecord DEF IInv, RecordOK
<1>5. OutboxOK'
  BY <1>4, QuietKeepsOutbox DEF ApplyDefaults, Write
<1> QED BY <1>4, <1>5 DEF IInv

LEMMA SendDocumentsStep ==
    ASSUME IInv, NEW u \in Users, NEW n \in Nodes, SendDocuments(u, n)
    PROVE  IInv'
<1> DEFINE new == {Name(version, n, "documents")}
<1>1. RecordOK' /\ HasNode(n)'
  BY DEF SendDocuments, NodeAccess, IInv, RecordOK, progress, ScopeDecidesNodes,
         NothingBefore, HasNode, IsTerminal
<1>2. version \in Nat /\ version' = version /\ nodes' = nodes
  BY ExecutionAssumption DEF SendDocuments, progress, IInv, RecordOK
<1>3. new \in SUBSET MessageName /\ \A i \in new : i.event = version' /\ i.node = n
  BY <1>2 DEF Name, MessageName, Kinds
<1>4. n # None
  BY ExecutionAssumption
<1>5. Insert(new, nodes', u)
  BY <1>2 DEF SendDocuments
<1>6. OutboxOK'
  <2> HIDE DEF new
  <2> QED BY <1>1, <1>2, <1>3, <1>4, <1>5, InsertKeepsOutbox
<1> QED BY <1>1, <1>6 DEF IInv

\* Settling a message may be noted in the record.
LEMMA NotedKeepsRecord ==
    ASSUME RecordOK, NEW u \in Users, Noted(u),
           UNCHANGED <<scope, shared, coordinator, claimed>>
    PROVE  /\ RecordOK'
           /\ \/ version' = version /\ nodes' = nodes
              \/ version' = version + 1
<1>1. CASE version > 0 /\ Write(nodes)
  <2>1. RecordOK'
    BY <1>1, WriteKeepsRecord
       DEF RecordOK, ScopeDecidesNodes, HasNode, IsTerminal
  <2> QED BY <1>1, <2>1 DEF Write
<1>2. CASE UNCHANGED <<version, nodes>>
  BY <1>2 DEF RecordOK, ScopeDecidesNodes, NothingBefore, HasNode, IsTerminal
<1> QED BY <1>1, <1>2 DEF Noted

LEMMA ResolveStep ==
    ASSUME IInv, NEW u \in Users, NEW i \in DOMAIN outbox,
           NEW s \in {"smtp_accepted", "failed", "cancelled"}, Resolve(u, i, s)
    PROVE  IInv'
<1>1. /\ RecordOK'
      /\ \/ version' = version /\ nodes' = nodes
         \/ version' = version + 1
  BY NotedKeepsRecord DEF Resolve, IInv
<1>2. DOMAIN outbox' = DOMAIN outbox
  BY DEF Resolve, Settled
<1>3. \A j \in DOMAIN outbox : j # i => outbox'[j] = outbox[j]
  BY DEF Resolve, Settled
<1>4. outbox'[i] = [outbox[i] EXCEPT !.status = s, !.code = "human", !.lease = 0,
                                     !.resolved = outbox[i].resolved + 1]
  BY DEF Resolve, Settled
<1>5. outbox[i] \in Message
  BY DEF IInv, OutboxOK
<1>6. outbox'[i] \in Message /\ outbox'[i].bound = outbox[i].bound
  <2> DEFINE m == outbox[i]
             k == outbox[i].resolved + 1
  <2>1. m \in Message /\ k \in Nat
    BY <1>5 DEF Message
  <2>2. s \in MailStatus /\ "human" \in Codes
    BY DEF MailStatus, Codes
  <2> DEFINE d == [m EXCEPT !.status = s, !.code = "human", !.lease = 0, !.resolved = k]
  <2>3. outbox'[i] = d
    BY <1>4
  <2> HIDE DEF m, k
  <2>4. d \in Message /\ d.bound = m.bound
    BY <2>1, <2>2 DEF Message
  <2> QED BY <2>3, <2>4 DEF m
<1>7. OutboxOK'
  BY <1>1, <1>2, <1>3, <1>6, DeliveryKeepsOutbox DEF IInv, OutboxOK
<1> QED BY <1>1, <1>7 DEF IInv

LEMMA RetryStep ==
    ASSUME IInv, NEW u \in Users, NEW i \in DOMAIN outbox, Retry(u, i)
    PROVE  IInv'
<1>1. /\ RecordOK'
      /\ \/ version' = version /\ nodes' = nodes
         \/ version' = version + 1
  BY NotedKeepsRecord DEF Retry, IInv
<1>2. DOMAIN outbox' = DOMAIN outbox
  BY DEF Retry
<1>3. \A j \in DOMAIN outbox : j # i => outbox'[j] = outbox[j]
  BY DEF Retry
<1>4. outbox'[i] = [outbox[i] EXCEPT !.status = "pending", !.code = "none", !.lease = 0,
                                     !.retried = outbox[i].retried + 1]
  BY DEF Retry
<1>5. outbox[i] \in Message
  BY DEF IInv, OutboxOK
<1>6. outbox'[i] \in Message /\ outbox'[i].bound = outbox[i].bound
  <2> DEFINE m == outbox[i]
             k == outbox[i].retried + 1
  <2>1. m \in Message /\ k \in Nat
    BY <1>5 DEF Message
  <2>2. "pending" \in MailStatus /\ "none" \in Codes
    BY DEF MailStatus, Codes
  <2> DEFINE d == [m EXCEPT !.status = "pending", !.code = "none", !.lease = 0, !.retried = k]
  <2>3. outbox'[i] = d
    BY <1>4
  <2> HIDE DEF m, k
  <2>4. d \in Message /\ d.bound = m.bound
    BY <2>1, <2>2 DEF Message
  <2> QED BY <2>3, <2>4 DEF m
<1>7. OutboxOK'
  BY <1>1, <1>2, <1>3, <1>6, DeliveryKeepsOutbox DEF IInv, OutboxOK
<1> QED BY <1>1, <1>7 DEF IInv

-----------------------------------------------------------------------------
LEMMA InitInv == Init => IInv
<1> SUFFICES ASSUME Init PROVE IInv
  OBVIOUS
<1>1. RecordOK
  <2>1. 0 \in 0..MaxVersion /\ Owner \in Users
    BY ExecutionAssumption
  <2>2. ScopeDecidesNodes
    BY DEF Init, ScopeDecidesNodes
  <2>3. NothingBefore
    BY DEF Init, NothingBefore, HasNode
  <2> QED BY <2>1, <2>2, <2>3 DEF Init, RecordOK
<1>2. DOMAIN outbox = {}
  BY DEF Init
<1> QED BY <1>1, <1>2 DEF IInv, OutboxOK, EventsPast, NoticesOfNow

LEMMA NextInv == IInv /\ [Next]_executionVars => IInv'
<1> SUFFICES ASSUME IInv, [Next]_executionVars PROVE IInv'
  OBVIOUS
<1>1. CASE Accept
  BY <1>1, ClaimCaseStep, StartStep, AmendStep DEF Accept
<1>2. CASE Work
  <2> SUFFICES ASSUME NEW u \in Users,
        \/ \E complete \in BOOLEAN : SaveShared(u, complete)
        \/ \E n \in Nodes :
             \/ \E ready \in BOOLEAN : SaveNode(u, n, ready)
             \/ \E audience \in {"public", "internal"} :
                  \/ StartNode(u, n, audience)
                  \/ \E targets \in SUBSET Nodes : CompleteNode(u, n, targets, audience)
                  \/ SignalNode(u, n, audience)
                  \/ SkipNode(u, n, audience)
                  \/ ReopenNode(u, n, audience)
             \/ \E routing \in Routings : AssignNode(u, n, routing)
             \/ Mention(u, n)
             \/ SendDocuments(u, n)
      PROVE IInv'
    BY <1>2 DEF Work
  <2> QED BY SaveSharedStep, SaveNodeStep, StartNodeStep, CompleteNodeStep, SignalNodeStep,
             SkipNodeStep, ReopenNodeStep, AssignNodeStep, MentionStep, SendDocumentsStep
<1>3. CASE Configure
  BY <1>3, ApplyDefaultsStep DEF Configure
<1>4. CASE Settle
  BY <1>4, ResolveStep, RetryStep DEF Settle
<1>5. CASE UNCHANGED executionVars
  BY <1>5 DEF executionVars, IInv, RecordOK, OutboxOK, EventsPast, NoticesOfNow,
              ScopeDecidesNodes, NothingBefore, HasNode, IsTerminal, BindingOf
<1> QED BY <1>1, <1>2, <1>3, <1>4, <1>5 DEF Next

\* The inductive invariant holds in every state of every behaviour.
THEOREM Invariance == Spec => []IInv
BY InitInv, NextInv, PTL DEF Spec

\* Every variable keeps its type: rows are rows and messages are messages,
\* whatever people do to the case (fclExecutionSchema, fclOutboxSchema).
THEOREM TypeCorrect == Spec => []ExecutionTypeOK
<1>1. IInv => ExecutionTypeOK
  BY DEF IInv, RecordOK, OutboxOK, ExecutionTypeOK
<1> QED BY <1>1, Invariance, PTL

\* Every accepted service has its node and every dropped one is closed
\* (amendInTransaction, nodeAction).
THEOREM NodesFollowScope == Spec => []ScopeDecidesNodes
<1>1. IInv => ScopeDecidesNodes
  BY DEF IInv, RecordOK
<1> QED BY <1>1, Invariance, PTL

\* A notice of the newest event shows its node as it is (mutate, enqueue).
THEOREM NoticesAreOfNow == Spec => []NoticesOfNow
<1>1. IInv => NoticesOfNow
  BY DEF IInv, OutboxOK
<1> QED BY <1>1, Invariance, PTL

\* Work on one node that is open, or reopened, leaves the closed ones alone.
LEMMA OneNodeChanges ==
    ASSUME RecordOK, NEW n \in Nodes, NEW row, Write([nodes EXCEPT ![n] = row]),
           IsTerminal(n) => Reopened(n)
    PROVE  OnlyReopened
<1>1. \A m \in Nodes \ {n} : nodes'[m] = nodes[m]
  BY DEF Write, RecordOK
<1> QED BY <1>1 DEF OnlyReopened

LEMMA NotBoth ==
    ASSUME NEW n \in Nodes, IsOpen(n)
    PROVE  ~IsTerminal(n)
BY DEF IsOpen, IsTerminal, Open, Terminal

LEMMA ClosedStep == IInv /\ [Next]_executionVars => OnlyReopened
<1> SUFFICES ASSUME IInv, [Next]_executionVars PROVE OnlyReopened
  OBVIOUS
<1> USE DEF IInv
<1>1. CASE nodes' = nodes
  BY <1>1 DEF OnlyReopened
<1>2. ASSUME NEW S \in SUBSET Nodes, NEW routing \in [Nodes -> Routings], NEW c \in Users,
             StartExecution(S, routing, c)
      PROVE  OnlyReopened
  <2>1. \A n \in Nodes : ~HasNode(n)
    BY <1>2 DEF StartExecution, RecordOK, NothingBefore
  <2> QED BY <2>1 DEF OnlyReopened, IsTerminal
<1>3. ASSUME NEW S \in SUBSET Nodes, NEW routing \in [Nodes -> Routings], NEW c \in Users,
             Amend(S, routing, c)
      PROVE  OnlyReopened
  <2> SUFFICES ASSUME NEW n \in Nodes, IsTerminal(n)
               PROVE  nodes'[n] = nodes[n]
    BY DEF OnlyReopened
  <2>1. HasNode(n) /\ ~IsOpen(n)
    BY NotBoth DEF IsTerminal
  <2> QED BY <1>3, <2>1 DEF Amend, Write
<1>4. CASE Work
  <2> PICK u \in Users :
        \/ \E complete \in BOOLEAN : SaveShared(u, complete)
        \/ \E n \in Nodes :
             \/ \E ready \in BOOLEAN : SaveNode(u, n, ready)
             \/ \E audience \in {"public", "internal"} :
                  \/ StartNode(u, n, audience)
                  \/ \E targets \in SUBSET Nodes : CompleteNode(u, n, targets, audience)
                  \/ SignalNode(u, n, audience)
                  \/ SkipNode(u, n, audience)
                  \/ ReopenNode(u, n, audience)
             \/ \E routing \in Routings : AssignNode(u, n, routing)
             \/ Mention(u, n)
             \/ SendDocuments(u, n)
    BY <1>4 DEF Work
  <2>1. ASSUME NEW complete \in BOOLEAN, SaveShared(u, complete) PROVE OnlyReopened
    BY <2>1, <1>1 DEF SaveShared, Write
  <2>2. ASSUME NEW n \in Nodes, NEW ready \in BOOLEAN, SaveNode(u, n, ready)
        PROVE  OnlyReopened
    BY <2>2, OneNodeChanges, NotBoth DEF SaveNode
  <2>3. ASSUME NEW n \in Nodes, NEW audience, StartNode(u, n, audience)
        PROVE  OnlyReopened
    BY <2>3, OneNodeChanges, NotBoth DEF StartNode
  <2>4. ASSUME NEW n \in Nodes, NEW audience, SignalNode(u, n, audience)
        PROVE  OnlyReopened
    BY <2>4, OneNodeChanges, NotBoth DEF SignalNode
  <2>5. ASSUME NEW n \in Nodes, NEW audience, SkipNode(u, n, audience)
        PROVE  OnlyReopened
    BY <2>5, OneNodeChanges, NotBoth DEF SkipNode
  <2>6. ASSUME NEW n \in Nodes, NEW audience, ReopenNode(u, n, audience)
        PROVE  OnlyReopened
    <3> DEFINE row == [nodes[n] EXCEPT !.status = "not_started",
                                       !.cycle = nodes[n].cycle + 1]
    <3>1. Write([nodes EXCEPT ![n] = row]) /\ n \in scope
      BY <2>6 DEF ReopenNode
    <3>2. nodes'[n] = row
      BY <3>1 DEF Write, RecordOK
    <3> QED BY <3>1, <3>2, OneNodeChanges DEF Reopened
  <2>7. ASSUME NEW n \in Nodes, NEW routing, AssignNode(u, n, routing)
        PROVE  OnlyReopened
    BY <2>7, OneNodeChanges, NotBoth DEF AssignNode
  <2>8. ASSUME NEW n \in Nodes, NEW targets \in SUBSET Nodes, NEW audience,
               CompleteNode(u, n, targets, audience)
        PROVE  OnlyReopened
    <3>1. IsOpen(n) /\ \A m \in targets : IsOpen(m)
      BY <2>8 DEF CompleteNode, NodeAccess, IsOpen, Open
    <3>2. \A m \in Nodes : m # n /\ m \notin targets => nodes'[m] = nodes[m]
      BY <2>8 DEF CompleteNode, Write
    <3> QED BY <3>1, <3>2, NotBoth DEF OnlyReopened
  <2>9. ASSUME NEW n \in Nodes, Mention(u, n) \/ SendDocuments(u, n) PROVE OnlyReopened
    BY <2>9, <1>1 DEF Mention, SendDocuments, Write, progress
  <2> QED BY <2>1, <2>2, <2>3, <2>4, <2>5, <2>6, <2>7, <2>8, <2>9
<1>5. CASE Configure
  <2> PICK routing \in [Nodes -> Routings] : ApplyDefaults(routing)
    BY <1>5 DEF Configure
  <2> SUFFICES ASSUME NEW n \in Nodes, IsTerminal(n)
               PROVE  nodes'[n] = nodes[n]
    BY DEF OnlyReopened
  <2>1. nodes[n].status # "not_started"
    BY DEF IsTerminal, Terminal
  <2> QED BY <2>1 DEF ApplyDefaults, Write
<1>6. CASE ClaimCase
  BY <1>6, <1>1 DEF ClaimCase, progress
<1>7. CASE Settle
  <2>1. nodes' = nodes
    BY <1>7 DEF Settle, Resolve, Retry, Noted, Write
  <2> QED BY <2>1, <1>1
<1>8. CASE UNCHANGED executionVars
  BY <1>8, <1>1 DEF executionVars
<1> QED BY <1>2, <1>3, <1>4, <1>5, <1>6, <1>7, <1>8 DEF Next, Accept

\* Finished work is only ever reopened, into its next cycle and while its
\* service is accepted (nodeAction, amendInTransaction, applyDefaults).
THEOREM FinishedWork == Spec => ClosedStaysClosed
<1>1. IInv /\ [Next]_executionVars => [OnlyReopened]_executionVars
  BY ClosedStep
<1> QED BY <1>1, Invariance, PTL DEF Spec, ClosedStaysClosed

-----------------------------------------------------------------------------
(***************************************************************************)
(* A message is handed to the relay once, and once more for each retry     *)
(* that somebody asked for: for any people, workers, relay, leases and     *)
(* number of crashes.                                                      *)
(***************************************************************************)

AtWork  == {"verify", "cancel", "claim", "send", "await", "record"}
Claimed == {"send", "await", "record"}

WorkerState == [at : Steps, message : MessageName \cup {None}, token : Nat, outcome : Outcome]

\* Only the notice to the customer is about no node.
Addressed == {i \in MessageName : i.node = None <=> i.kind = "customer"}

\* Attempts are paid for: the first is free, each other one costs a retry, and a
\* message that waits still has one to spend.
Paid(m) ==
    /\ m.attempts \in Nat
    /\ m.retried \in Nat
    /\ m.attempts <= 1 + m.retried
    /\ m.status = "pending" => m.attempts <= m.retried

\* The inductive invariant: hand-overs and workers only use attempts that were made.
MailInv ==
    /\ version \in Nat
    /\ worker \in [Workers -> WorkerState]
    /\ DOMAIN outbox \subseteq Addressed
    /\ \A i \in DOMAIN outbox : Paid(outbox[i])
    /\ \A w \in Workers : worker[w].at \in AtWork => worker[w].message \in DOMAIN outbox
    /\ \A w \in Workers : worker[w].at \in Claimed =>
         worker[w].token \in 1..outbox[worker[w].message].attempts
    /\ \A h \in DOMAIN relay :
         \E i \in DOMAIN outbox : \E k \in 1..outbox[i].attempts : h = <<i, k>>

-----------------------------------------------------------------------------
(* What any step does to the messages.                                     *)

\* The message is the same, was settled, or was put back against a retry.
Later(old, new) ==
    /\ new.attempts = old.attempts
    /\ \/ new.retried = old.retried /\ (new.status = "pending" => old.status = "pending")
       \/ new.retried = old.retried + 1

\* The messages after a step without a claim.
Delivered ==
    /\ DOMAIN outbox \subseteq DOMAIN outbox'
    /\ DOMAIN outbox' \subseteq Addressed
    /\ \A i \in DOMAIN outbox : Later(outbox[i], outbox'[i])
    /\ \A i \in DOMAIN outbox' \ DOMAIN outbox :
         outbox'[i].attempts = 0 /\ outbox'[i].retried = 0

\* A message in the hands of nobody, with a result that no worker wrote.
Unheld(m) == m.status # "sending" /\ m.code # "relay"

\* The messages after a step in which no worker claims or records.
Unrecorded ==
    \A i \in DOMAIN outbox' : (i \in DOMAIN outbox /\ outbox'[i] = outbox[i]) \/ Unheld(outbox'[i])

LEMMA SameMessages ==
    DOMAIN outbox \subseteq Addressed /\ outbox' = outbox => Delivered /\ Unrecorded
BY DEF Delivered, Later, Unrecorded

LEMMA InsertDelivers ==
    ASSUME DOMAIN outbox \subseteq Addressed, NEW new \in SUBSET Addressed, NEW rows,
           NEW actor, Insert(new, rows, actor)
    PROVE  Delivered /\ Unrecorded
<1>1. DOMAIN outbox' = DOMAIN outbox \cup new
  BY DEF Insert
<1>2. \A i \in DOMAIN outbox : outbox'[i] = outbox[i]
  BY DEF Insert
<1>3. \A i \in new \ DOMAIN outbox :
        outbox'[i].attempts = 0 /\ outbox'[i].retried = 0 /\ Unheld(outbox'[i])
  BY DEF Insert, NewMessage, Unheld
<1> QED BY <1>1, <1>2, <1>3 DEF Delivered, Later, Unrecorded

LEMMA TellDelivers ==
    ASSUME DOMAIN outbox \subseteq Addressed, version' \in Nat,
           NEW about \in SUBSET Nodes, NEW audience, Tell(about, audience)
    PROVE  Delivered /\ Unrecorded
<1> DEFINE new == Notices(version', about, nodes', audience)
<1>1. new \in SUBSET Addressed
  BY ExecutionAssumption DEF Notices, Name, Addressed, MessageName, Kinds
<1>2. Insert(new, nodes', None)
  BY DEF Tell
<1> HIDE DEF new
<1> QED BY <1>1, <1>2, InsertDelivers

\* One existing message changes.
LEMMA OneMessageChanges ==
    ASSUME DOMAIN outbox \subseteq Addressed, NEW i \in DOMAIN outbox,
           DOMAIN outbox' = DOMAIN outbox,
           \A j \in DOMAIN outbox : j # i => outbox'[j] = outbox[j],
           Later(outbox[i], outbox'[i])
    PROVE  Delivered /\ (Unheld(outbox'[i]) => Unrecorded)
BY DEF Delivered, Later, Unrecorded

LEMMA ResolveDelivers ==
    ASSUME DOMAIN outbox \subseteq Addressed, NEW u, NEW i \in DOMAIN outbox,
           NEW s \in {"smtp_accepted", "failed", "cancelled"}, Resolve(u, i, s)
    PROVE  Delivered /\ Unrecorded
<1>1. DOMAIN outbox' = DOMAIN outbox /\ \A j \in DOMAIN outbox : j # i => outbox'[j] = outbox[j]
  BY DEF Resolve, Settled
<1>2. outbox'[i] = [outbox[i] EXCEPT !.status = s, !.code = "human", !.lease = 0,
                                     !.resolved = outbox[i].resolved + 1]
  BY DEF Resolve, Settled
<1>3. Later(outbox[i], outbox'[i]) /\ Unheld(outbox'[i])
  BY <1>2 DEF Later, Unheld
<1> QED BY <1>1, <1>3, OneMessageChanges

LEMMA RetryDelivers ==
    ASSUME DOMAIN outbox \subseteq Addressed, NEW u, NEW i \in DOMAIN outbox, Retry(u, i)
    PROVE  Delivered /\ Unrecorded
<1>1. DOMAIN outbox' = DOMAIN outbox /\ \A j \in DOMAIN outbox : j # i => outbox'[j] = outbox[j]
  BY DEF Retry
<1>2. outbox'[i] = [outbox[i] EXCEPT !.status = "pending", !.code = "none", !.lease = 0,
                                     !.retried = outbox[i].retried + 1]
  BY DEF Retry
<1>3. Later(outbox[i], outbox'[i]) /\ Unheld(outbox'[i])
  BY <1>2 DEF Later, Unheld
<1> QED BY <1>1, <1>3, OneMessageChanges

\* What the people do, all of it.
LEMMA PeopleDeliver ==
    ASSUME version \in Nat, DOMAIN outbox \subseteq Addressed, Next
    PROVE  version' \in Nat /\ Delivered /\ Unrecorded
<1>1. CASE ClaimCase
  <2>1. {Name(0, None, "customer")} \in SUBSET Addressed
    BY ExecutionAssumption DEF Name, Addressed, MessageName, Kinds
  <2>2. version' = version /\ Insert({Name(0, None, "customer")}, nodes, None)
    BY <1>1 DEF ClaimCase, progress
  <2> QED BY <2>1, <2>2, InsertDelivers
<1>2. ASSUME NEW S, NEW routing, NEW c, StartExecution(S, routing, c)
      PROVE  version' \in Nat /\ Delivered /\ Unrecorded
  BY <1>2, TellDelivers DEF StartExecution, Write
<1>3. ASSUME NEW S, NEW routing, NEW c, Amend(S, routing, c)
      PROVE  version' \in Nat /\ Delivered /\ Unrecorded
  BY <1>3, SameMessages DEF Amend, Write, Quiet
<1>4. CASE Work
  <2> PICK u \in Users :
        \/ \E complete \in BOOLEAN : SaveShared(u, complete)
        \/ \E n \in Nodes :
             \/ \E ready \in BOOLEAN : SaveNode(u, n, ready)
             \/ \E audience \in {"public", "internal"} :
                  \/ StartNode(u, n, audience)
                  \/ \E targets \in SUBSET Nodes : CompleteNode(u, n, targets, audience)
                  \/ SignalNode(u, n, audience)
                  \/ SkipNode(u, n, audience)
                  \/ ReopenNode(u, n, audience)
             \/ \E routing \in Routings : AssignNode(u, n, routing)
             \/ Mention(u, n)
             \/ SendDocuments(u, n)
    BY <1>4 DEF Work
  <2>1. ASSUME NEW complete, SaveShared(u, complete)
        PROVE  version' \in Nat /\ Delivered /\ Unrecorded
    BY <2>1, SameMessages DEF SaveShared, Write, Quiet
  <2>2. ASSUME NEW n, NEW ready, SaveNode(u, n, ready)
        PROVE  version' \in Nat /\ Delivered /\ Unrecorded
    BY <2>2, SameMessages DEF SaveNode, Write, Quiet
  <2>3. ASSUME NEW n \in Nodes, NEW audience,
               \/ StartNode(u, n, audience) \/ SignalNode(u, n, audience)
               \/ SkipNode(u, n, audience) \/ ReopenNode(u, n, audience)
        PROVE  version' \in Nat /\ Delivered /\ Unrecorded
    <3>1. version' = version + 1 /\ Tell({n}, audience)
      BY <2>3 DEF StartNode, SignalNode, SkipNode, ReopenNode, Write
    <3> QED BY <3>1, TellDelivers
  <2>4. ASSUME NEW n \in Nodes, NEW targets \in SUBSET Nodes, NEW audience,
               CompleteNode(u, n, targets, audience)
        PROVE  version' \in Nat /\ Delivered /\ Unrecorded
    <3>1. version' = version + 1 /\ Tell(IF targets = {} THEN {n} ELSE targets, audience)
      BY <2>4 DEF CompleteNode, Write
    <3> QED BY <3>1, TellDelivers
  <2>5. ASSUME NEW n \in Nodes, NEW routing, AssignNode(u, n, routing)
        PROVE  version' \in Nat /\ Delivered /\ Unrecorded
    <3>1. version' = version + 1 /\ \E about \in SUBSET Nodes : Tell(about, "assignment")
      BY <2>5 DEF AssignNode, Write
    <3> QED BY <3>1, TellDelivers
  <2>6. ASSUME NEW n \in Nodes, Mention(u, n)
        PROVE  version' \in Nat /\ Delivered /\ Unrecorded
    <3>1. version' = version + 1 /\ Tell({n}, "mention")
      BY <2>6 DEF Mention, Write
    <3> QED BY <3>1, TellDelivers
  <2>7. ASSUME NEW n \in Nodes, SendDocuments(u, n)
        PROVE  version' \in Nat /\ Delivered /\ Unrecorded
    <3>1. {Name(version, n, "documents")} \in SUBSET Addressed
      BY ExecutionAssumption DEF Name, Addressed, MessageName, Kinds
    <3>2. version' = version /\ Insert({Name(version, n, "documents")}, nodes, u)
      BY <2>7 DEF SendDocuments, progress
    <3> QED BY <3>1, <3>2, InsertDelivers
  <2> QED BY <2>1, <2>2, <2>3, <2>4, <2>5, <2>6, <2>7
<1>5. CASE Configure
  BY <1>5, SameMessages DEF Configure, ApplyDefaults, Write, Quiet
<1>6. CASE Settle
  <2>1. ASSUME NEW u \in Users, NEW i \in DOMAIN outbox,
               NEW s \in {"smtp_accepted", "failed", "cancelled"}, Resolve(u, i, s)
        PROVE  version' \in Nat /\ Delivered /\ Unrecorded
    BY <2>1, ResolveDelivers DEF Resolve, Noted, Write
  <2>2. ASSUME NEW u \in Users, NEW i \in DOMAIN outbox, Retry(u, i)
        PROVE  version' \in Nat /\ Delivered /\ Unrecorded
    <3>1. version' \in Nat
      BY <2>2 DEF Retry, Noted, Write
    <3>2. Delivered /\ Unrecorded
      BY <2>2, RetryDelivers
    <3> QED BY <3>1, <3>2
  <2> QED BY <1>6, <2>1, <2>2 DEF Settle
<1> QED BY <1>1, <1>2, <1>3, <1>4, <1>5, <1>6 DEF Next, Accept

-----------------------------------------------------------------------------
(* The inductive step.                                                     *)

LEMMA PaidLater ==
    ASSUME NEW old, NEW new, Paid(old), Later(old, new)
    PROVE  Paid(new)
BY DEF Paid, Later

\* A step without a claim and without a hand-over, after which every worker is
\* where it was, further on with the same message, or at rest.
LEMMA DeliveredKeepsInv ==
    ASSUME MailInv, Delivered, version' \in Nat, relay' = relay,
           worker' \in [Workers -> WorkerState],
           \A w \in Workers :
             worker'[w].at \in AtWork =>
               /\ worker'[w].message \in DOMAIN outbox
               /\ worker'[w].at \in Claimed =>
                    /\ worker[w].at \in Claimed
                    /\ worker'[w].message = worker[w].message
                    /\ worker'[w].token = worker[w].token
    PROVE  MailInv'
<1>1. \A i \in DOMAIN outbox' : Paid(outbox'[i])
  <2>1. \A i \in DOMAIN outbox : Paid(outbox'[i])
    BY PaidLater DEF MailInv, Delivered
  <2>2. \A i \in DOMAIN outbox' \ DOMAIN outbox : Paid(outbox'[i])
    BY DEF Delivered, Paid
  <2> QED BY <2>1, <2>2
<1>2. \A i \in DOMAIN outbox : outbox'[i].attempts = outbox[i].attempts
  BY DEF Delivered, Later
<1>3. \A w \in Workers : worker'[w].at \in AtWork => worker'[w].message \in DOMAIN outbox'
  BY DEF Delivered
<1>4. ASSUME NEW w \in Workers, worker'[w].at \in Claimed
      PROVE  worker'[w].token \in 1..outbox'[worker'[w].message].attempts
  <2>1. worker'[w].at \in AtWork
    BY <1>4 DEF Claimed, AtWork
  <2>2. worker[w].at \in Claimed /\ worker'[w].message = worker[w].message
        /\ worker'[w].token = worker[w].token /\ worker'[w].message \in DOMAIN outbox
    BY <1>4, <2>1
  <2> QED BY <1>2, <2>2 DEF MailInv
<1>5. \A h \in DOMAIN relay' :
        \E i \in DOMAIN outbox' : \E k \in 1..outbox'[i].attempts : h = <<i, k>>
  BY <1>2 DEF MailInv, Delivered
<1> QED BY <1>1, <1>3, <1>4, <1>5 DEF MailInv, Delivered, Paid

\* One worker moves; nothing else is claimed.
LEMMA WorkerMoves ==
    ASSUME MailInv, Delivered, version' \in Nat, relay' = relay, NEW w \in Workers,
           NEW state \in WorkerState, worker' = [worker EXCEPT ![w] = state],
           state.at \in AtWork =>
             /\ state.message \in DOMAIN outbox
             /\ state.at \in Claimed => /\ worker[w].at \in Claimed
                                       /\ state.message = worker[w].message
                                       /\ state.token = worker[w].token
    PROVE  MailInv'
<1>1. worker' \in [Workers -> WorkerState]
  BY DEF MailInv
<1>2. \A v \in Workers : worker'[v] = IF v = w THEN state ELSE worker[v]
  BY DEF MailInv
<1>3. \A v \in Workers :
        worker'[v].at \in AtWork =>
          /\ worker'[v].message \in DOMAIN outbox
          /\ worker'[v].at \in Claimed => /\ worker[v].at \in Claimed
                                         /\ worker'[v].message = worker[v].message
                                         /\ worker'[v].token = worker[v].token
  BY <1>2 DEF MailInv
<1> QED BY <1>1, <1>3, DeliveredKeepsInv

LEMMA IdleType == Idle \in WorkerState /\ Idle.at \notin AtWork
BY DEF Idle, WorkerState, AtWork, Steps, Outcome

\* A worker that goes to another step with what it has.
LEMMA GotoType ==
    ASSUME NEW state \in WorkerState, NEW step \in Steps
    PROVE  /\ [state EXCEPT !.at = step] \in WorkerState
           /\ [state EXCEPT !.at = step].at = step
           /\ [state EXCEPT !.at = step].message = state.message
           /\ [state EXCEPT !.at = step].token = state.token
BY DEF WorkerState

LEMMA GotoIs ==
    ASSUME MailInv, NEW w \in Workers, NEW step, Goto(w, step)
    PROVE  worker' = [worker EXCEPT ![w] = [worker[w] EXCEPT !.at = step]]
BY DEF Goto, MailInv

\* Before the claim a worker goes on, or rests.
LEMMA UnclaimedMove ==
    ASSUME MailInv, Delivered, version' \in Nat, relay' = relay, NEW w \in Workers,
           \/ Rest(w)
           \/ Goto(w, "pick")
           \/ worker[w].at \in AtWork /\ \E step \in {"cancel", "claim"} : Goto(w, step)
    PROVE  MailInv'
<1>1. worker[w] \in WorkerState
  BY DEF MailInv
<1>2. CASE Rest(w)
  BY <1>2, IdleType, WorkerMoves DEF Rest
<1>3. CASE Goto(w, "pick")
  <2>1. "pick" \in Steps /\ "pick" \notin AtWork
    BY DEF Steps, AtWork
  <2> DEFINE state == [worker[w] EXCEPT !.at = "pick"]
  <2>2. state \in WorkerState /\ state.at = "pick"
    BY <1>1, <2>1, GotoType
  <2>3. worker' = [worker EXCEPT ![w] = state]
    BY <1>3, GotoIs
  <2> HIDE DEF state
  <2> QED BY <2>1, <2>2, <2>3, WorkerMoves
<1>4. ASSUME worker[w].at \in AtWork, NEW step \in {"cancel", "claim"}, Goto(w, step)
      PROVE  MailInv'
  <2>1. step \in Steps /\ step \notin Claimed
    BY DEF Steps, Claimed
  <2>2. worker[w].message \in DOMAIN outbox
    BY <1>4 DEF MailInv
  <2> DEFINE state == [worker[w] EXCEPT !.at = step]
  <2>3. state \in WorkerState /\ state.at = step /\ state.message = worker[w].message
    BY <1>1, <2>1, GotoType
  <2>4. worker' = [worker EXCEPT ![w] = state]
    BY <1>4, GotoIs
  <2> HIDE DEF state
  <2> QED BY <2>1, <2>2, <2>3, <2>4, WorkerMoves
<1> QED BY <1>2, <1>3, <1>4

LEMMA ReapStep == ASSUME MailInv, NEW w \in Workers, Reap(w) PROVE MailInv'
<1>1. DOMAIN outbox' = DOMAIN outbox
  BY DEF Reap
<1>2. ASSUME NEW i \in DOMAIN outbox
      PROVE  Later(outbox[i], outbox'[i])
  <2>1. \/ outbox'[i] = outbox[i]
        \/ outbox'[i] = [outbox[i] EXCEPT !.status = "unknown", !.lease = 0,
                                          !.code = "lease_expired"]
           /\ outbox[i].status = "sending"
    BY DEF Reap
  <2>2. CASE outbox'[i] = outbox[i]
    BY <2>2 DEF Later
  <2>3. CASE outbox'[i] = [outbox[i] EXCEPT !.status = "unknown", !.lease = 0,
                                            !.code = "lease_expired"]
    <3>1. outbox'[i].attempts = outbox[i].attempts /\ outbox'[i].retried = outbox[i].retried
      BY <2>3
    <3>2. outbox'[i].status # "pending" \/ outbox[i].status = "pending"
      BY <2>1, <2>3
    <3> QED BY <3>1, <3>2 DEF Later
  <2> QED BY <2>1, <2>2, <2>3
<1>3. Delivered /\ version' \in Nat
  BY <1>1, <1>2 DEF Delivered, MailInv, Reap, progress
<1> QED BY <1>3, UnclaimedMove DEF Reap

LEMMA PickStep == ASSUME MailInv, NEW w \in Workers, Pick(w) PROVE MailInv'
<1>1. Delivered /\ version' \in Nat /\ relay' = relay
  BY SameMessages DEF Pick, MailInv, executionVars
<1>2. CASE Rest(w)
  BY <1>1, <1>2, UnclaimedMove
<1>3. ASSUME NEW i \in DOMAIN outbox, NEW step \in {"verify", "cancel"},
             worker' = [worker EXCEPT ![w].message = i, ![w].at = step]
      PROVE  MailInv'
  <2> DEFINE state == [worker[w] EXCEPT !.message = i, !.at = step]
  <2>1. worker[w] \in WorkerState /\ i \in MessageName
    BY DEF MailInv, Addressed
  <2>2. state \in WorkerState /\ state.message = i /\ state.at = step
    BY <2>1 DEF WorkerState, Steps
  <2>3. worker' = [worker EXCEPT ![w] = state]
    BY <1>3 DEF MailInv
  <2>4. step \notin Claimed
    BY DEF Claimed
  <2> HIDE DEF state
  <2> QED BY <1>1, <2>2, <2>3, <2>4, WorkerMoves
<1> QED BY <1>2, <1>3 DEF Pick, WithStatus

LEMMA VerifyStep ==
    ASSUME MailInv, NEW w \in Workers,
           NEW answer \in {"active", "inactive", "unavailable"}, Verify(w, answer)
    PROVE  MailInv'
<1>1. Delivered /\ version' \in Nat /\ relay' = relay
  BY SameMessages DEF Verify, MailInv, executionVars
<1>2. worker[w].at \in AtWork
  BY DEF Verify, At, AtWork
<1>3. Goto(w, "claim") \/ Goto(w, "cancel") \/ Rest(w)
  BY DEF Verify
<1> QED BY <1>1, <1>2, <1>3, UnclaimedMove

LEMMA CancelStep == ASSUME MailInv, NEW w \in Workers, Cancel(w) PROVE MailInv'
<1>1. worker[w].at \in AtWork
  BY DEF Cancel, At, AtWork
<1>2. Busy(w) \in DOMAIN outbox
  BY <1>1 DEF MailInv, Busy
<1>3. Delivered
  <2>1. DOMAIN outbox' = DOMAIN outbox
        /\ \A j \in DOMAIN outbox : j # Busy(w) => outbox'[j] = outbox[j]
    BY <1>2 DEF Cancel
  <2>2. Later(outbox[Busy(w)], outbox'[Busy(w)])
    BY <1>2 DEF Cancel, Later
  <2> QED BY <1>2, <2>1, <2>2, OneMessageChanges DEF MailInv
<1> QED BY <1>3, UnclaimedMove DEF Cancel, MailInv, progress

\* The claim spends the attempt that a waiting message has.
LEMMA ClaimStep == ASSUME MailInv, NEW w \in Workers, Claim(w) PROVE MailInv'
<1> DEFINE i == Busy(w)
<1>1. worker[w].at \in AtWork /\ i \in DOMAIN outbox /\ worker[w] \in WorkerState
  <2>1. worker[w].at \in AtWork
    BY DEF Claim, At, AtWork
  <2> QED BY <2>1 DEF MailInv, Busy
<1>2. version' \in Nat /\ relay' = relay
  BY DEF Claim, progress, MailInv
<1>3. ASSUME outbox[i].status = "pending",
             outbox' = [outbox EXCEPT ![i].status = "sending", ![i].attempts = @ + 1,
                                      ![i].lease = outbox[i].attempts + 1],
             worker' = [worker EXCEPT ![w].at = "send", ![w].token = outbox[i].attempts + 1]
      PROVE  MailInv'
  <2> DEFINE state == [worker[w] EXCEPT !.at = "send", !.token = outbox[i].attempts + 1]
             k == outbox[i].attempts
  <2>1. k \in Nat /\ k + 1 \in Nat /\ outbox[i].retried \in Nat /\ k <= outbox[i].retried
    BY <1>1, <1>3 DEF MailInv, Paid
  <2>2. DOMAIN outbox' = DOMAIN outbox
        /\ \A j \in DOMAIN outbox : j # i => outbox'[j] = outbox[j]
    BY <1>3
  <2>3. /\ outbox'[i].attempts = k + 1
        /\ outbox'[i].retried = outbox[i].retried
        /\ outbox'[i].status = "sending"
    <3>1. outbox'[i] = [outbox[i] EXCEPT !.status = "sending", !.attempts = k + 1,
                                         !.lease = k + 1]
      BY <1>1, <1>3
    <3> QED BY <3>1
  <2>4. Paid(outbox'[i])
    BY <2>1, <2>3 DEF Paid
  <2>5. worker' = [worker EXCEPT ![w] = state]
    BY <1>3 DEF MailInv
  <2>6. /\ state \in WorkerState
        /\ state.at = "send" /\ state.message = i /\ state.token = k + 1
    BY <1>1, <2>1 DEF WorkerState, Steps, Busy
  <2> HIDE DEF i, k, state
  <2>7. /\ worker' \in [Workers -> WorkerState]
        /\ worker'[w] = state
        /\ \A v \in Workers \ {w} : worker'[v] = worker[v]
    BY <2>5, <2>6 DEF MailInv
  <2>8. \A v \in Workers : worker'[v].at \in AtWork => worker'[v].message \in DOMAIN outbox'
    BY <1>1, <2>2, <2>6, <2>7 DEF MailInv
  <2>9. \A j \in DOMAIN outbox : \A t \in 1..outbox[j].attempts : t \in 1..outbox'[j].attempts
    <3>1. outbox[i].attempts = k
      BY DEF k
    <3> QED BY <2>1, <2>2, <2>3, <3>1
  <2>10. ASSUME NEW v \in Workers, worker'[v].at \in Claimed
         PROVE  worker'[v].token \in 1..outbox'[worker'[v].message].attempts
    <3>1. CASE v = w
      BY <3>1, <2>1, <2>3, <2>6, <2>7
    <3>2. CASE v # w
      <4>1. worker[v].at \in Claimed /\ worker[v].at \in AtWork
        BY <3>2, <2>7, <2>10 DEF Claimed, AtWork
      <4>2. worker[v].message \in DOMAIN outbox
            /\ worker[v].token \in 1..outbox[worker[v].message].attempts
        BY <4>1 DEF MailInv
      <4> QED BY <3>2, <4>2, <2>7, <2>9
    <3> QED BY <3>1, <3>2
  <2>11. \A h \in DOMAIN relay' :
           \E j \in DOMAIN outbox' : \E t \in 1..outbox'[j].attempts : h = <<j, t>>
    BY <1>2, <2>2, <2>9 DEF MailInv
  <2>12. \A j \in DOMAIN outbox' : Paid(outbox'[j])
    BY <2>2, <2>4 DEF MailInv
  <2> QED BY <1>2, <2>2, <2>7, <2>8, <2>10, <2>11, <2>12 DEF MailInv
<1>4. ASSUME outbox' = outbox, Rest(w) \/ Goto(w, "pick")
      PROVE  MailInv'
  <2>1. Delivered
    BY <1>4, SameMessages DEF MailInv
  <2> QED BY <1>2, <1>4, <2>1, UnclaimedMove
<1> QED BY <1>3, <1>4 DEF Claim

\* A worker past its claim goes on with the message and the token it has.
LEMMA ClaimedMove ==
    ASSUME MailInv, Delivered, version' \in Nat, relay' = relay, NEW w \in Workers,
           worker[w].at \in Claimed, NEW o \in Outcome,
           worker' = [worker EXCEPT ![w].at = "record", ![w].outcome = o]
    PROVE  MailInv'
<1> DEFINE state == [worker[w] EXCEPT !.at = "record", !.outcome = o]
<1>1. worker[w] \in WorkerState /\ worker[w].message \in DOMAIN outbox
  BY DEF MailInv, Claimed, AtWork
<1>2. /\ state \in WorkerState
      /\ state.message = worker[w].message /\ state.token = worker[w].token
  BY <1>1 DEF WorkerState, Steps
<1>3. worker' = [worker EXCEPT ![w] = state]
  BY DEF MailInv
<1> HIDE DEF state
<1> QED BY <1>1, <1>2, <1>3, WorkerMoves

LEMMA SendStep == ASSUME MailInv, NEW w \in Workers, Send(w) PROVE MailInv'
<1> DEFINE h == <<Busy(w), worker[w].token>>
<1>1. worker[w].at \in Claimed
  BY DEF Send, At, Claimed
<1>2. outbox' = outbox /\ version' = version
  BY DEF Send, executionVars
<1>3. Busy(w) \in DOMAIN outbox /\ worker[w].token \in 1..outbox[Busy(w)].attempts
  BY <1>1 DEF MailInv, Busy, Claimed, AtWork
<1>4. CASE Applicable(Busy(w))
  <2>1. DOMAIN relay' = DOMAIN relay \cup {h} /\ Goto(w, "await")
    BY <1>4 DEF Send
  <2> DEFINE state == [worker[w] EXCEPT !.at = "await"]
  <2>2. worker' = [worker EXCEPT ![w] = state]
    BY <2>1, GotoIs
  <2>3. /\ state \in WorkerState
        /\ state.message = worker[w].message /\ state.token = worker[w].token
    <3>1. worker[w] \in WorkerState /\ "await" \in Steps
      BY DEF MailInv, Steps
    <3> QED BY <3>1, GotoType
  <2> HIDE DEF state
  <2>4. /\ worker' \in [Workers -> WorkerState]
        /\ \A v \in Workers : worker'[v] = IF v = w THEN state ELSE worker[v]
    BY <2>2, <2>3 DEF MailInv
  <2>5. \A g \in DOMAIN relay' :
          \E i \in DOMAIN outbox' : \E k \in 1..outbox'[i].attempts : g = <<i, k>>
    BY <1>2, <1>3, <2>1 DEF MailInv
  <2>6. \A v \in Workers : worker'[v].at \in AtWork => worker'[v].message \in DOMAIN outbox'
    BY <1>2, <1>3, <2>3, <2>4 DEF MailInv, Busy
  <2>7. \A v \in Workers : worker'[v].at \in Claimed =>
          worker'[v].token \in 1..outbox'[worker'[v].message].attempts
    BY <1>2, <1>3, <2>3, <2>4 DEF MailInv, Busy
  <2> QED BY <1>2, <2>4, <2>5, <2>6, <2>7 DEF MailInv
<1>5. CASE ~Applicable(Busy(w))
  <2>1. relay' = relay
        /\ worker' = [worker EXCEPT ![w].at = "record", ![w].outcome = "cancelled"]
    BY <1>5 DEF Send
  <2>2. Delivered /\ version' \in Nat
    BY <1>2, SameMessages DEF MailInv
  <2> QED BY <1>1, <2>1, <2>2, ClaimedMove DEF Outcome
<1> QED BY <1>4, <1>5

LEMMA AnswerStep == ASSUME MailInv, NEW w \in Workers, Answer(w) PROVE MailInv'
<1>1. Delivered /\ version' \in Nat /\ relay' = relay
  BY SameMessages DEF Answer, MailInv, executionVars
<1>2. worker[w].at \in Claimed
  BY DEF Answer, At, Claimed
<1>3. \E o \in Outcome : worker' = [worker EXCEPT ![w].at = "record", ![w].outcome = o]
  BY DEF Answer, Outcome
<1> QED BY <1>1, <1>2, <1>3, ClaimedMove

LEMMA RecordStep == ASSUME MailInv, NEW w \in Workers, Record(w) PROVE MailInv'
<1>1. worker[w].at \in Claimed /\ Busy(w) \in DOMAIN outbox /\ worker[w] \in WorkerState
  BY DEF Record, At, Claimed, MailInv, AtWork, Busy
<1>2. Delivered
  <2>1. CASE outbox' = outbox
    BY <2>1, SameMessages DEF MailInv
  <2>2. CASE outbox' = [outbox EXCEPT ![Busy(w)].status = worker[w].outcome,
                                      ![Busy(w)].lease = 0, ![Busy(w)].code = "relay"]
    <3>1. DOMAIN outbox' = DOMAIN outbox
          /\ \A j \in DOMAIN outbox : j # Busy(w) => outbox'[j] = outbox[j]
      BY <2>2
    <3>2. worker[w].outcome # "pending"
      BY <1>1 DEF WorkerState, Outcome
    <3>3. Later(outbox[Busy(w)], outbox'[Busy(w)])
      <4>1. outbox'[Busy(w)] = [outbox[Busy(w)] EXCEPT !.status = worker[w].outcome,
                                                       !.lease = 0, !.code = "relay"]
        BY <1>1, <2>2
      <4>2. /\ outbox'[Busy(w)].attempts = outbox[Busy(w)].attempts
            /\ outbox'[Busy(w)].retried = outbox[Busy(w)].retried
            /\ outbox'[Busy(w)].status # "pending" \/ outbox[Busy(w)].status = "pending"
        BY <3>2, <4>1
      <4> QED BY <4>2 DEF Later
    <3> QED BY <1>1, <3>1, <3>3, OneMessageChanges DEF MailInv
  <2> QED BY <2>1, <2>2 DEF Record
<1> QED BY <1>2, UnclaimedMove DEF Record, MailInv, progress

LEMMA CrashStep == ASSUME MailInv, NEW w \in Workers, Crash(w) PROVE MailInv'
<1>1. Delivered /\ version' \in Nat /\ relay' = relay
  BY SameMessages DEF Crash, MailInv, executionVars
<1> QED BY <1>1, UnclaimedMove DEF Crash

\* What leaves the workers where they are.
LEMMA OthersStep ==
    ASSUME MailInv, Delivered, version' \in Nat, worker' = worker,
           DOMAIN relay' = DOMAIN relay
    PROVE  MailInv'
<1>1. \A i \in DOMAIN outbox' : Paid(outbox'[i])
  <2>1. \A i \in DOMAIN outbox : Paid(outbox'[i])
    BY PaidLater DEF MailInv, Delivered
  <2>2. \A i \in DOMAIN outbox' \ DOMAIN outbox : Paid(outbox'[i])
    BY DEF Delivered, Paid
  <2> QED BY <2>1, <2>2
<1>2. \A i \in DOMAIN outbox : outbox'[i].attempts = outbox[i].attempts
  BY DEF Delivered, Later
<1>3. \A w \in Workers : worker'[w].at \in AtWork => worker'[w].message \in DOMAIN outbox'
  BY DEF MailInv, Delivered
<1>4. ASSUME NEW w \in Workers, worker'[w].at \in Claimed
      PROVE  worker'[w].token \in 1..outbox'[worker'[w].message].attempts
  <2>1. worker[w].at \in AtWork
    BY <1>4 DEF Claimed, AtWork
  <2> QED BY <1>2, <1>4, <2>1 DEF MailInv
<1>5. \A h \in DOMAIN relay' :
        \E i \in DOMAIN outbox' : \E k \in 1..outbox'[i].attempts : h = <<i, k>>
  BY <1>2 DEF MailInv, Delivered
<1> QED BY <1>1, <1>3, <1>4, <1>5 DEF MailInv, Delivered

LEMMA PeopleStep == ASSUME MailInv, People PROVE MailInv'
<1>1. Delivered /\ version' \in Nat
  BY PeopleDeliver DEF MailInv, People
<1> QED BY <1>1, OthersStep DEF People, mailVars

LEMMA RelayStep == ASSUME MailInv, NEW h \in DOMAIN relay, RelayDecides(h) PROVE MailInv'
<1>1. Delivered /\ version' \in Nat /\ worker' = worker
  BY SameMessages DEF RelayDecides, MailInv, executionVars
<1>2. DOMAIN relay' = DOMAIN relay
  BY DEF RelayDecides
<1> QED BY <1>1, <1>2, OthersStep

LEMMA ExpireStep == ASSUME MailInv, NEW i \in DOMAIN outbox, Expire(i) PROVE MailInv'
<1>1. Delivered /\ version' \in Nat /\ worker' = worker /\ relay' = relay
  BY SameMessages DEF Expire, MailInv, executionVars
<1> QED BY <1>1, OthersStep

LEMMA MailInvInit == MailInit => MailInv
<1> SUFFICES ASSUME MailInit PROVE MailInv
  OBVIOUS
<1>1. version \in Nat /\ DOMAIN outbox = {} /\ DOMAIN relay = {}
  BY DEF MailInit, Init
<1>2. worker \in [Workers -> WorkerState] /\ \A w \in Workers : worker[w].at \notin AtWork
  BY IdleType DEF MailInit
<1>3. \A w \in Workers : worker[w].at \notin Claimed
  BY <1>2 DEF AtWork, Claimed
<1> QED BY <1>1, <1>2, <1>3 DEF MailInv

LEMMA MailInvNext == MailInv /\ [MailNext]_vars => MailInv'
<1> SUFFICES ASSUME MailInv, [MailNext]_vars PROVE MailInv'
  OBVIOUS
<1>1. CASE People
  BY <1>1, PeopleStep
<1>2. ASSUME NEW w \in Workers, Dispatch(w)
      PROVE  MailInv'
  BY <1>2, ReapStep, PickStep, CancelStep, ClaimStep, SendStep, AnswerStep, RecordStep,
     VerifyStep DEF Dispatch
<1>3. ASSUME NEW w \in Workers, Crash(w)
      PROVE  MailInv'
  BY <1>3, CrashStep
<1>4. ASSUME NEW h \in DOMAIN relay, RelayDecides(h)
      PROVE  MailInv'
  BY <1>4, RelayStep
<1>5. ASSUME NEW i \in DOMAIN outbox, Expire(i)
      PROVE  MailInv'
  BY <1>5, ExpireStep
<1>6. CASE UNCHANGED vars
  <2>1. Delivered /\ version' \in Nat /\ worker' = worker /\ relay' = relay
    BY <1>6, SameMessages DEF vars, mailVars, executionVars, progress, MailInv
  <2> QED BY <2>1, OthersStep
<1> QED BY <1>1, <1>2, <1>3, <1>4, <1>5, <1>6 DEF MailNext

THEOREM MailInvariance == MailSpec => []MailInv
BY MailInvInit, MailInvNext, PTL DEF MailSpec

-----------------------------------------------------------------------------
(* From the invariant to the number of hand-overs.                         *)

\* As many hand-overs as attempts, at most.
LEMMA HandedOverBound ==
    ASSUME MailInv, NEW i \in DOMAIN outbox
    PROVE  /\ Cardinality(HandedOver(i)) \in Nat
           /\ Cardinality(HandedOver(i)) <= outbox[i].attempts
<1> DEFINE n == outbox[i].attempts
           f == [k \in 1..n |-> <<i, k>>]
           all == {<<i, k>> : k \in 1..n}
<1>1. n \in Nat
  BY DEF MailInv, Paid
<1>2. IsFiniteSet(1..n) /\ Cardinality(1..n) = n
  <2>1. /\ IsFiniteSet(1..n)
        /\ Cardinality(1..n) = IF 1 > n THEN 0 ELSE n - 1 + 1
    BY <1>1, FS_Interval
  <2> QED BY <1>1, <2>1
<1>3. f \in Bijection(1..n, all)
  <2>1. f \in [1..n -> all] /\ \A k \in 1..n : f[k] = <<i, k>>
    OBVIOUS
  <2>2. \A k, l \in 1..n : f[k] = f[l] => k = l
    BY <2>1
  <2>3. \A p \in all : \E k \in 1..n : f[k] = p
    BY <2>1
  <2> HIDE DEF f, all
  <2> QED BY <2>1, <2>2, <2>3 DEF Bijection, Injection, Surjection, IsInjective
<1>4. IsFiniteSet(all) /\ Cardinality(all) = n
  <2>1. ExistsBijection(1..n, all)
    BY <1>3 DEF ExistsBijection
  <2> HIDE DEF all
  <2> QED BY <1>2, <2>1, FS_Bijection
<1>5. HandedOver(i) \subseteq all
  <2> SUFFICES ASSUME NEW h \in DOMAIN relay, h[1] = i PROVE h \in all
    BY DEF HandedOver
  <2>1. PICK j \in DOMAIN outbox : \E k \in 1..outbox[j].attempts : h = <<j, k>>
    BY DEF MailInv
  <2>2. j = i
    BY <2>1
  <2> QED BY <2>1, <2>2
<1> HIDE DEF all
<1>6. IsFiniteSet(HandedOver(i)) /\ Cardinality(HandedOver(i)) <= n
  BY <1>4, <1>5, FS_Subset
<1> QED BY <1>6, FS_CardinalityType

\* The relay gets a message once, and once more for each retry (dispatchOnce,
\* mailAction), with any number of workers and crashes.
THEOREM NoResend == MailSpec => []NoUnaskedResend
<1>1. MailInv => NoUnaskedResend
  <2> SUFFICES ASSUME MailInv, NEW i \in DOMAIN outbox
               PROVE  Cardinality(HandedOver(i)) <= 1 + outbox[i].retried
    BY DEF NoUnaskedResend
  <2>1. /\ Cardinality(HandedOver(i)) \in Nat
        /\ Cardinality(HandedOver(i)) <= outbox[i].attempts
    BY HandedOverBound
  <2>2. /\ outbox[i].attempts \in Nat /\ outbox[i].retried \in Nat
        /\ outbox[i].attempts <= 1 + outbox[i].retried
    BY DEF MailInv, Paid
  <2> QED BY <2>1, <2>2
<1> QED BY <1>1, MailInvariance, PTL

-----------------------------------------------------------------------------
(* What was handed over, heard and written down.                           *)

HandOver(w) == <<worker[w].message, worker[w].token>>
Newest(i)   == <<i, outbox[i].attempts>>

\* What the relay made of a hand-over gives this result.
Backed(result, h, made) ==
    /\ result = "smtp_accepted" => h \in DOMAIN made /\ made[h] = "accepted"
    /\ result = "failed"        => h \in DOMAIN made /\ made[h] = "rejected"
    /\ result = "cancelled"     => h \notin DOMAIN made

\* Every claim is an attempt of its own; a worker knows what became of it.
RelayInv ==
    /\ MailInv
    /\ \A i \in DOMAIN outbox :
         outbox[i].status = "sending" => outbox[i].lease = outbox[i].attempts
    /\ \A v, w \in Workers :
         worker[v].at \in Claimed /\ worker[w].at \in Claimed /\ v # w =>
           HandOver(v) # HandOver(w)
    /\ \A w \in Workers :
         /\ worker[w].at = "send"   => HandOver(w) \notin DOMAIN relay
         /\ worker[w].at = "await"  => HandOver(w) \in DOMAIN relay
         /\ worker[w].at = "record" => Backed(worker[w].outcome, HandOver(w), relay)
    /\ \A i \in DOMAIN outbox : outbox[i].code = "relay" => Backed(outbox[i].status, Newest(i), relay)
    /\ \A i \in DOMAIN outbox, w \in Workers :
         outbox[i].code = "relay" /\ outbox[i].status = "cancelled"
           /\ worker[w].at \in Claimed => HandOver(w) # Newest(i)

\* A step in which no worker claims, hands over or records, and the relay
\* decides nothing: a worker past its claim stays there or has heard a result.
LEMMA NothingRecorded ==
    ASSUME RelayInv, MailInv', Delivered, Unrecorded, relay' = relay,
           \A w \in Workers :
             worker'[w].at \in Claimed =>
               /\ worker[w].at \in Claimed
               /\ worker'[w].message = worker[w].message
               /\ worker'[w].token = worker[w].token
               /\ \/ worker'[w].at = worker[w].at /\ worker'[w].outcome = worker[w].outcome
                  \/ worker'[w].at = "record" /\ Backed(worker'[w].outcome, HandOver(w), relay)
    PROVE  RelayInv'
<1>1. \A w \in Workers : worker'[w].at \in Claimed =>
        worker[w].at \in Claimed /\ HandOver(w)' = HandOver(w)
  BY DEF HandOver
<1>2. relay' = relay
  OBVIOUS
<1>3. \A i \in DOMAIN outbox' :
        (outbox'[i].status = "sending" \/ outbox'[i].code = "relay") =>
          i \in DOMAIN outbox /\ outbox'[i] = outbox[i]
  BY DEF Unrecorded, Unheld
<1>4. \A i \in DOMAIN outbox' :
        outbox'[i].status = "sending" => outbox'[i].lease = outbox'[i].attempts
  BY <1>3 DEF RelayInv
<1>5. \A v, w \in Workers :
        worker'[v].at \in Claimed /\ worker'[w].at \in Claimed /\ v # w =>
          HandOver(v)' # HandOver(w)'
  BY <1>1 DEF RelayInv
<1>6. ASSUME NEW w \in Workers
      PROVE  /\ worker'[w].at = "send"   => HandOver(w)' \notin DOMAIN relay'
             /\ worker'[w].at = "await"  => HandOver(w)' \in DOMAIN relay'
             /\ worker'[w].at = "record" => Backed(worker'[w].outcome, HandOver(w)', relay')
  <2>1. CASE worker'[w].at \in Claimed
    <3>1. HandOver(w)' = HandOver(w)
      BY <1>1, <2>1
    <3>2. CASE worker'[w].at = worker[w].at /\ worker'[w].outcome = worker[w].outcome
      BY <1>2, <3>1, <3>2 DEF RelayInv
    <3>3. CASE worker'[w].at = "record" /\ Backed(worker'[w].outcome, HandOver(w), relay)
      BY <1>2, <3>1, <3>3
    <3> QED BY <2>1, <3>2, <3>3
  <2>2. CASE worker'[w].at \notin Claimed
    BY <2>2 DEF Claimed
  <2> QED BY <2>1, <2>2
<1>7. \A i \in DOMAIN outbox' :
        outbox'[i].code = "relay" => Backed(outbox'[i].status, Newest(i)', relay')
  BY <1>2, <1>3 DEF RelayInv, Newest
<1>8. \A i \in DOMAIN outbox', w \in Workers :
        outbox'[i].code = "relay" /\ outbox'[i].status = "cancelled"
          /\ worker'[w].at \in Claimed => HandOver(w)' # Newest(i)'
  BY <1>1, <1>3 DEF RelayInv, Newest
<1> QED BY <1>4, <1>5, <1>6, <1>7, <1>8 DEF RelayInv

\* The workers stay, or one of them leaves for a place before its claim.
LEMMA NobodyRecords ==
    ASSUME RelayInv, MailInv', Delivered, Unrecorded, relay' = relay,
           \/ worker' = worker
           \/ \E w \in Workers : Rest(w) \/ \E step \in {"pick", "cancel"} : Goto(w, step)
           \/ \E w \in Workers, i \in DOMAIN outbox, step \in {"verify", "cancel"} :
                worker' = [worker EXCEPT ![w].message = i, ![w].at = step]
           \/ \E w \in Workers : worker[w].at = "verify" /\ Goto(w, "claim")
    PROVE  RelayInv'
<1>1. worker \in [Workers -> WorkerState]
  BY DEF RelayInv, MailInv
<1>2. \A w \in Workers : worker'[w] = worker[w] \/ worker'[w].at \notin Claimed
  <2>1. CASE worker' = worker
    BY <2>1
  <2>2. ASSUME NEW w \in Workers, Rest(w)
        PROVE  \A v \in Workers : worker'[v] = worker[v] \/ worker'[v].at \notin Claimed
    BY <1>1, <2>2 DEF Rest, Idle, Claimed
  <2>3. ASSUME NEW w \in Workers, NEW step \in {"pick", "cancel", "claim"}, Goto(w, step)
        PROVE  \A v \in Workers : worker'[v] = worker[v] \/ worker'[v].at \notin Claimed
    <3>1. worker'[w].at = step /\ \A v \in Workers \ {w} : worker'[v] = worker[v]
      BY <1>1, <2>3 DEF Goto, WorkerState
    <3> QED BY <3>1 DEF Claimed
  <2>4. ASSUME NEW w \in Workers, NEW i, NEW step \in {"verify", "cancel"},
               worker' = [worker EXCEPT ![w].message = i, ![w].at = step]
        PROVE  \A v \in Workers : worker'[v] = worker[v] \/ worker'[v].at \notin Claimed
    <3>1. worker'[w].at = step /\ \A v \in Workers \ {w} : worker'[v] = worker[v]
      BY <1>1, <2>4 DEF WorkerState
    <3> QED BY <3>1 DEF Claimed
  <2> QED BY <2>1, <2>2, <2>3, <2>4
<1> QED BY <1>2, NothingRecorded

\* A worker goes to its record with a result that is so.
LEMMA WorkerHeard ==
    ASSUME RelayInv, MailInv', Delivered, Unrecorded, relay' = relay, NEW w \in Workers,
           worker[w].at \in Claimed, NEW o \in Outcome, Backed(o, HandOver(w), relay),
           worker' = [worker EXCEPT ![w].at = "record", ![w].outcome = o]
    PROVE  RelayInv'
<1>1. worker \in [Workers -> WorkerState]
  BY DEF RelayInv, MailInv
<1>2. /\ worker'[w].at = "record" /\ worker'[w].outcome = o
      /\ worker'[w].message = worker[w].message /\ worker'[w].token = worker[w].token
      /\ \A v \in Workers \ {w} : worker'[v] = worker[v]
  <2>1. worker'[w] = [worker[w] EXCEPT !.at = "record", !.outcome = o]
        /\ \A v \in Workers \ {w} : worker'[v] = worker[v]
    BY <1>1
  <2> DEFINE state == [worker[w] EXCEPT !.at = "record", !.outcome = o]
  <2>2. /\ state.at = "record" /\ state.outcome = o
        /\ state.message = worker[w].message /\ state.token = worker[w].token
    <3>1. worker[w] \in WorkerState
      BY <1>1
    <3> QED BY <3>1 DEF WorkerState
  <2>3. worker'[w] = state
    BY <2>1
  <2> HIDE DEF state
  <2> QED BY <2>1, <2>2, <2>3
<1> QED BY <1>2, NothingRecorded

\* A claim is a new attempt: nobody has it, and nothing was handed over for it.
LEMMA ClaimRecords ==
    ASSUME RelayInv, MailInv', NEW w \in Workers, Claim(w)
    PROVE  RelayInv'
<1> DEFINE i == Busy(w)
<1>1. /\ i \in DOMAIN outbox /\ worker \in [Workers -> WorkerState] /\ worker[w].message = i
      /\ outbox[i].attempts \in Nat /\ relay' = relay
  <2>1. worker[w].at \in AtWork
    BY DEF Claim, At, AtWork
  <2> QED BY <2>1 DEF RelayInv, MailInv, Busy, Paid, Claim
<1>2. ASSUME outbox' = [outbox EXCEPT ![i].status = "sending", ![i].attempts = @ + 1,
                                      ![i].lease = outbox[i].attempts + 1],
             worker' = [worker EXCEPT ![w].at = "send", ![w].token = outbox[i].attempts + 1]
      PROVE  RelayInv'
  <2> DEFINE k == outbox[i].attempts
  <2>1. /\ DOMAIN outbox' = DOMAIN outbox
        /\ \A j \in DOMAIN outbox : j # i => outbox'[j] = outbox[j]
        /\ outbox'[i].status = "sending" /\ outbox'[i].lease = k + 1
        /\ outbox'[i].attempts = k + 1
    <3>1. /\ DOMAIN outbox' = DOMAIN outbox
          /\ \A j \in DOMAIN outbox : j # i => outbox'[j] = outbox[j]
          /\ outbox'[i] = [outbox[i] EXCEPT !.status = "sending", !.attempts = k + 1,
                                            !.lease = k + 1]
      BY <1>1, <1>2
    <3> QED BY <3>1
  <2>2. /\ worker'[w].at = "send" /\ worker'[w].message = i /\ worker'[w].token = k + 1
        /\ \A v \in Workers \ {w} : worker'[v] = worker[v]
    <3>1. worker'[w] = [worker[w] EXCEPT !.at = "send", !.token = k + 1]
          /\ \A v \in Workers \ {w} : worker'[v] = worker[v]
      BY <1>1, <1>2
    <3>2. worker[w] \in WorkerState
      BY <1>1
    <3> QED BY <1>1, <3>1, <3>2 DEF WorkerState
  <2> HIDE DEF i
  <2>3. k \in Nat /\ k + 1 \notin 1..k
    BY <1>1
  <2>4. \A v \in Workers \ {w} :
          HandOver(v)' = HandOver(v) /\ (worker[v].at \in Claimed => HandOver(v) # <<i, k + 1>>)
    <3> SUFFICES ASSUME NEW v \in Workers \ {w}
                 PROVE  /\ HandOver(v)' = HandOver(v)
                        /\ worker[v].at \in Claimed => HandOver(v) # <<i, k + 1>>
      OBVIOUS
    <3>1. HandOver(v)' = HandOver(v)
      BY <2>2 DEF HandOver
    <3>2. worker[v].at \in Claimed => worker[v].token \in 1..outbox[worker[v].message].attempts
      BY DEF RelayInv, MailInv
    <3> QED BY <2>3, <3>1, <3>2 DEF HandOver
  <2>5. HandOver(w)' = <<i, k + 1>>
    BY <2>2 DEF HandOver
  <2>6. <<i, k + 1>> \notin DOMAIN relay
    <3> SUFFICES ASSUME <<i, k + 1>> \in DOMAIN relay PROVE FALSE
      OBVIOUS
    <3>1. PICK j \in DOMAIN outbox : \E t \in 1..outbox[j].attempts : <<i, k + 1>> = <<j, t>>
      BY DEF RelayInv, MailInv
    <3> QED BY <2>3, <3>1
  <2> HIDE DEF k
  <2>7. relay' = relay
    BY <1>1
  <2>8. \A j \in DOMAIN outbox' :
          outbox'[j].status = "sending" => outbox'[j].lease = outbox'[j].attempts
    BY <2>1 DEF RelayInv
  <2>9. \A u, v \in Workers :
          worker'[u].at \in Claimed /\ worker'[v].at \in Claimed /\ u # v =>
            HandOver(u)' # HandOver(v)'
    BY <2>2, <2>4, <2>5 DEF RelayInv
  <2>10. \A v \in Workers :
           /\ worker'[v].at = "send"   => HandOver(v)' \notin DOMAIN relay'
           /\ worker'[v].at = "await"  => HandOver(v)' \in DOMAIN relay'
           /\ worker'[v].at = "record" => Backed(worker'[v].outcome, HandOver(v)', relay')
    BY <1>1, <2>2, <2>4, <2>5, <2>6, <2>7 DEF RelayInv
  <2>11. \A j \in DOMAIN outbox' :
           outbox'[j].code = "relay" => Backed(outbox'[j].status, Newest(j)', relay')
    <3>1. Backed(outbox'[i].status, <<i, outbox'[i].attempts>>, relay')
      BY <2>1 DEF Backed
    <3>2. ASSUME NEW j \in DOMAIN outbox, j # i, outbox'[j].code = "relay"
          PROVE  Backed(outbox'[j].status, Newest(j)', relay')
      <4>1. outbox'[j] = outbox[j] /\ Newest(j)' = Newest(j)
        BY <2>1, <3>2 DEF Newest
      <4>2. Backed(outbox[j].status, Newest(j), relay)
        BY <3>2, <4>1 DEF RelayInv
      <4> QED BY <2>7, <4>1, <4>2
    <3> QED BY <2>1, <3>1, <3>2 DEF Newest
  <2>12. \A j \in DOMAIN outbox', v \in Workers :
           outbox'[j].code = "relay" /\ outbox'[j].status = "cancelled"
             /\ worker'[v].at \in Claimed => HandOver(v)' # Newest(j)'
    <3> SUFFICES ASSUME NEW j \in DOMAIN outbox', NEW v \in Workers, outbox'[j].code = "relay",
                        outbox'[j].status = "cancelled", worker'[v].at \in Claimed
                 PROVE  HandOver(v)' # Newest(j)'
      OBVIOUS
    <3>1. j # i /\ Newest(j)' = Newest(j) /\ outbox'[j] = outbox[j] /\ j \in DOMAIN outbox
      BY <2>1 DEF Newest
    <3>2. CASE v = w
      BY <2>5, <3>1, <3>2 DEF Newest
    <3>3. CASE v # w
      BY <2>2, <2>4, <3>1, <3>3 DEF RelayInv
    <3> QED BY <3>2, <3>3
  <2> QED BY <2>8, <2>9, <2>10, <2>11, <2>12 DEF RelayInv
<1>3. ASSUME outbox' = outbox, Rest(w) \/ Goto(w, "pick")
      PROVE  RelayInv'
  BY <1>1, <1>3, SameMessages, NobodyRecords DEF RelayInv, MailInv
<1> QED BY <1>2, <1>3 DEF Claim

\* A hand-over is of the worker that made the attempt, and of nobody else.
LEMMA SendRecords ==
    ASSUME RelayInv, MailInv', NEW w \in Workers, Send(w)
    PROVE  RelayInv'
<1> DEFINE h == HandOver(w)
<1>1. /\ worker \in [Workers -> WorkerState] /\ worker[w].at = "send"
      /\ outbox' = outbox /\ DOMAIN outbox \subseteq Addressed /\ h \notin DOMAIN relay
  BY DEF RelayInv, MailInv, Send, At, executionVars
<1>2. Delivered /\ Unrecorded
  BY <1>1, SameMessages
<1>3. CASE Applicable(Busy(w))
  <2>1. /\ relay' = [x \in DOMAIN relay \cup {h} |->
                       IF x \in DOMAIN relay THEN relay[x] ELSE "open"]
        /\ Goto(w, "await")
    BY <1>3 DEF Send, HandOver, Busy
  <2>2. /\ worker'[w].at = "await" /\ HandOver(w)' = h
        /\ \A v \in Workers \ {w} : worker'[v] = worker[v] /\ HandOver(v)' = HandOver(v)
    <3>1. worker'[w] = [worker[w] EXCEPT !.at = "await"] /\ worker[w] \in WorkerState
          /\ \A v \in Workers \ {w} : worker'[v] = worker[v]
      BY <1>1, <2>1 DEF Goto
    <3> QED BY <3>1 DEF HandOver, WorkerState
  <2> HIDE DEF h
  <2>3. DOMAIN relay' = DOMAIN relay \cup {h} /\ \A x \in DOMAIN relay : relay'[x] = relay[x]
    BY <2>1
  <2>4. \A result, x : x # h => (Backed(result, x, relay') <=> Backed(result, x, relay))
    BY <2>3 DEF Backed
  <2>5. worker[w].at \in Claimed /\ \A v \in Workers \ {w} : worker[v].at \in Claimed => HandOver(v) # h
    BY <1>1 DEF Claimed, RelayInv, h
  <2>6. \A u, v \in Workers :
          worker'[u].at \in Claimed /\ worker'[v].at \in Claimed /\ u # v =>
            HandOver(u)' # HandOver(v)'
    BY <2>2, <2>5 DEF RelayInv, h
  <2>7. \A v \in Workers :
          /\ worker'[v].at = "send"   => HandOver(v)' \notin DOMAIN relay'
          /\ worker'[v].at = "await"  => HandOver(v)' \in DOMAIN relay'
          /\ worker'[v].at = "record" => Backed(worker'[v].outcome, HandOver(v)', relay')
    <3> SUFFICES ASSUME NEW v \in Workers \ {w}
                 PROVE  /\ worker[v].at = "send"   => HandOver(v) \notin DOMAIN relay'
                        /\ worker[v].at = "await"  => HandOver(v) \in DOMAIN relay'
                        /\ worker[v].at = "record" => Backed(worker[v].outcome, HandOver(v), relay')
      BY <2>2, <2>3
    <3>1. worker[v].at \in Claimed => HandOver(v) # h
      BY <2>5
    <3> QED BY <2>3, <2>4, <3>1 DEF RelayInv, Claimed
  <2>8. \A i \in DOMAIN outbox :
          outbox[i].code = "relay" => Backed(outbox[i].status, Newest(i), relay')
    <3> SUFFICES ASSUME NEW i \in DOMAIN outbox, outbox[i].code = "relay"
                 PROVE  Backed(outbox[i].status, Newest(i), relay')
      OBVIOUS
    <3>1. Backed(outbox[i].status, Newest(i), relay) /\ Newest(i)' = Newest(i)
      BY <1>1 DEF RelayInv, Newest
    <3>2. CASE Newest(i) # h
      BY <1>1, <2>4, <3>1, <3>2
    <3>3. CASE Newest(i) = h
      <4>1. outbox[i].status # "cancelled"
        BY <2>5, <3>3 DEF RelayInv, h
      <4>2. outbox[i].status # "smtp_accepted" /\ outbox[i].status # "failed"
        BY <1>1, <3>1, <3>3 DEF Backed
      <4> QED BY <1>1, <4>1, <4>2 DEF Backed
    <3> QED BY <3>2, <3>3
  <2>9. \A i \in DOMAIN outbox : Newest(i)' = Newest(i)
    BY <1>1 DEF Newest
  <2>10. \A i \in DOMAIN outbox, v \in Workers :
           outbox[i].code = "relay" /\ outbox[i].status = "cancelled"
             /\ worker'[v].at \in Claimed => HandOver(v)' # Newest(i)
    BY <2>2, <2>5 DEF RelayInv, h
  <2> QED BY <1>1, <2>6, <2>7, <2>8, <2>9, <2>10 DEF RelayInv
<1>4. CASE ~Applicable(Busy(w))
  <2>1. relay' = relay
        /\ worker' = [worker EXCEPT ![w].at = "record", ![w].outcome = "cancelled"]
    BY <1>4 DEF Send
  <2>2. Backed("cancelled", h, relay) /\ worker[w].at \in Claimed /\ "cancelled" \in Outcome
    BY <1>1 DEF Backed, Claimed, Outcome
  <2> QED BY <1>2, <2>1, <2>2, WorkerHeard
<1> QED BY <1>3, <1>4

LEMMA AnswerRecords ==
    ASSUME RelayInv, MailInv', NEW w \in Workers, Answer(w)
    PROVE  RelayInv'
<1>1. /\ relay' = relay /\ worker[w].at = "await" /\ worker[w].at \in Claimed
      /\ outbox' = outbox /\ DOMAIN outbox \subseteq Addressed
  BY DEF Answer, At, Claimed, executionVars, RelayInv, MailInv
<1>2. HandOver(w) \in DOMAIN relay
  BY <1>1 DEF RelayInv
<1>3. PICK o \in {"unknown"} \cup
              (CASE relay[HandOver(w)] = "accepted" -> {"smtp_accepted"}
                 [] relay[HandOver(w)] = "rejected" -> {"failed"}
                 [] OTHER -> {}) :
        worker' = [worker EXCEPT ![w].at = "record", ![w].outcome = o]
  BY DEF Answer, HandOver, Busy
<1>4. Backed(o, HandOver(w), relay) /\ o \in Outcome
  BY <1>2, <1>3 DEF Backed, Outcome
<1> QED BY <1>1, <1>3, <1>4, SameMessages, WorkerHeard

\* The lease that a worker finds as its own is that of the newest attempt.
LEMMA RecordRecords ==
    ASSUME RelayInv, MailInv', NEW w \in Workers, Record(w)
    PROVE  RelayInv'
<1> DEFINE i == Busy(w)
<1>1. /\ worker \in [Workers -> WorkerState] /\ worker[w].at = "record"
      /\ worker[w].at \in Claimed /\ i \in DOMAIN outbox /\ worker[w].message = i
      /\ DOMAIN outbox \subseteq Addressed /\ relay' = relay /\ Rest(w)
  BY DEF RelayInv, MailInv, Record, At, Claimed, AtWork, Busy
<1>2. CASE outbox' = outbox
  BY <1>1, <1>2, SameMessages, NobodyRecords
<1>3. ASSUME outbox[i].status = "sending", outbox[i].lease = worker[w].token,
             outbox' = [outbox EXCEPT ![i].status = worker[w].outcome, ![i].lease = 0,
                                      ![i].code = "relay"]
      PROVE  RelayInv'
  <2> DEFINE o == worker[w].outcome
  <2>1. /\ DOMAIN outbox' = DOMAIN outbox
        /\ \A j \in DOMAIN outbox : j # i => outbox'[j] = outbox[j]
        /\ outbox'[i].status = o /\ outbox'[i].code = "relay"
        /\ outbox'[i].attempts = outbox[i].attempts
    <3>1. /\ DOMAIN outbox' = DOMAIN outbox
          /\ \A j \in DOMAIN outbox : j # i => outbox'[j] = outbox[j]
          /\ outbox'[i] = [outbox[i] EXCEPT !.status = o, !.lease = 0, !.code = "relay"]
      BY <1>1, <1>3
    <3> QED BY <3>1
  <2>2. o # "sending" /\ Newest(i) = HandOver(w)
    <3>1. o # "sending"
      BY <1>1 DEF WorkerState, Outcome
    <3>2. outbox[i].lease = outbox[i].attempts
      BY <1>1, <1>3 DEF RelayInv
    <3> QED BY <1>1, <1>3, <3>1, <3>2 DEF Newest, HandOver
  <2>3. Backed(o, HandOver(w), relay)
    BY <1>1 DEF RelayInv
  <2>4. worker'[w].at \notin Claimed /\ \A v \in Workers \ {w} : worker'[v] = worker[v]
    BY <1>1 DEF Rest, Idle, Claimed
  <2>5. \A v \in Workers \ {w} : HandOver(v)' = HandOver(v)
    BY <2>4 DEF HandOver
  <2>6. \A j \in DOMAIN outbox : Newest(j)' = Newest(j)
    BY <2>1 DEF Newest
  <2> HIDE DEF i, o
  <2>7. relay' = relay
    BY <1>1
  <2>8. \A j \in DOMAIN outbox :
          outbox'[j].status = "sending" => outbox'[j].lease = outbox'[j].attempts
    BY <2>1, <2>2 DEF RelayInv
  <2>9. \A u, v \in Workers :
          worker'[u].at \in Claimed /\ worker'[v].at \in Claimed /\ u # v =>
            HandOver(u)' # HandOver(v)'
    BY <2>4, <2>5 DEF RelayInv
  <2>10. \A v \in Workers :
           /\ worker'[v].at = "send"   => HandOver(v)' \notin DOMAIN relay'
           /\ worker'[v].at = "await"  => HandOver(v)' \in DOMAIN relay'
           /\ worker'[v].at = "record" => Backed(worker'[v].outcome, HandOver(v)', relay')
    BY <1>1, <2>4, <2>5, <2>7 DEF RelayInv, Claimed
  <2>11. \A j \in DOMAIN outbox :
           outbox'[j].code = "relay" => Backed(outbox'[j].status, Newest(j)', relay')
    BY <2>1, <2>2, <2>3, <2>6, <2>7 DEF RelayInv
  <2>12. \A j \in DOMAIN outbox, v \in Workers :
           outbox'[j].code = "relay" /\ outbox'[j].status = "cancelled"
             /\ worker'[v].at \in Claimed => HandOver(v)' # Newest(j)'
    <3> SUFFICES ASSUME NEW j \in DOMAIN outbox, NEW v \in Workers \ {w},
                        outbox'[j].code = "relay", outbox'[j].status = "cancelled",
                        worker[v].at \in Claimed
                 PROVE  HandOver(v) # Newest(j)
      BY <2>4, <2>5, <2>6
    <3>1. CASE j = i
      BY <1>1, <2>2, <3>1 DEF RelayInv
    <3>2. CASE j # i
      BY <2>1, <3>2 DEF RelayInv
    <3> QED BY <3>1, <3>2
  <2> QED BY <2>1, <2>8, <2>9, <2>10, <2>11, <2>12 DEF RelayInv
<1> QED BY <1>2, <1>3 DEF Record

\* What was decided stays decided.
LEMMA RelayRecords ==
    ASSUME RelayInv, MailInv', NEW h \in DOMAIN relay, RelayDecides(h)
    PROVE  RelayInv'
<1>1. outbox' = outbox /\ worker' = worker
  BY DEF RelayDecides, executionVars
<1>2. DOMAIN relay' = DOMAIN relay /\ \A x \in DOMAIN relay : relay[x] # "open" => relay'[x] = relay[x]
  BY DEF RelayDecides
<1>3. \A result, x : Backed(result, x, relay) => Backed(result, x, relay')
  BY <1>2 DEF Backed
<1>4. /\ \A w \in Workers : HandOver(w)' = HandOver(w)
      /\ \A i \in DOMAIN outbox : Newest(i)' = Newest(i)
  BY <1>1 DEF HandOver, Newest
<1> QED BY <1>1, <1>2, <1>3, <1>4 DEF RelayInv

LEMMA RelayInvInit == MailInit => RelayInv
<1> SUFFICES ASSUME MailInit PROVE RelayInv
  OBVIOUS
<1>1. MailInv /\ DOMAIN outbox = {}
  BY MailInvInit DEF MailInit, Init
<1>2. \A w \in Workers : worker[w].at = "idle"
  BY DEF MailInit, Idle
<1> QED BY <1>1, <1>2 DEF RelayInv, Claimed

LEMMA RelayInvNext == RelayInv /\ [MailNext]_vars => RelayInv'
<1> SUFFICES ASSUME RelayInv, [MailNext]_vars PROVE RelayInv'
  OBVIOUS
<1>1. MailInv' /\ DOMAIN outbox \subseteq Addressed /\ MailInv
  BY MailInvNext DEF RelayInv, MailInv
<1>2. CASE People
  BY <1>1, <1>2, PeopleDeliver, NobodyRecords DEF People, mailVars, MailInv
<1>3. ASSUME NEW w \in Workers, Reap(w)
      PROVE  RelayInv'
  <2>1. DOMAIN outbox' = DOMAIN outbox /\ relay' = relay /\ Goto(w, "pick")
    BY <1>3 DEF Reap
  <2>2. ASSUME NEW i \in DOMAIN outbox
        PROVE  Later(outbox[i], outbox'[i]) /\ (outbox'[i] = outbox[i] \/ Unheld(outbox'[i]))
    <3>1. \/ outbox'[i] = outbox[i]
          \/ outbox'[i] = [outbox[i] EXCEPT !.status = "unknown", !.lease = 0,
                                            !.code = "lease_expired"]
      BY <1>3 DEF Reap
    <3>2. CASE outbox'[i] = outbox[i]
      BY <3>2 DEF Later
    <3>3. CASE outbox'[i] = [outbox[i] EXCEPT !.status = "unknown", !.lease = 0,
                                              !.code = "lease_expired"]
      BY <3>3 DEF Later, Unheld
    <3> QED BY <3>1, <3>2, <3>3
  <2>3. Delivered /\ Unrecorded
    BY <1>1, <2>1, <2>2 DEF Delivered, Unrecorded
  <2> QED BY <1>1, <2>1, <2>3, NobodyRecords
<1>4. ASSUME NEW w \in Workers, Pick(w)
      PROVE  RelayInv'
  <2>1. Delivered /\ Unrecorded /\ relay' = relay
    BY <1>1, <1>4, SameMessages DEF Pick, executionVars
  <2> QED BY <1>1, <1>4, <2>1, NobodyRecords DEF Pick, WithStatus
<1>5. ASSUME NEW w \in Workers, NEW answer \in {"active", "inactive", "unavailable"},
             Verify(w, answer)
      PROVE  RelayInv'
  <2>1. Delivered /\ Unrecorded /\ relay' = relay
    BY <1>1, <1>5, SameMessages DEF Verify, executionVars
  <2> QED BY <1>1, <1>5, <2>1, NobodyRecords DEF Verify, At
<1>6. ASSUME NEW w \in Workers, Cancel(w)
      PROVE  RelayInv'
  <2>1. Busy(w) \in DOMAIN outbox /\ relay' = relay /\ Goto(w, "pick")
    <3>1. worker[w].at \in AtWork
      BY <1>6 DEF Cancel, At, AtWork
    <3> QED BY <1>1, <1>6, <3>1 DEF Cancel, MailInv, Busy
  <2>2. CASE outbox' = outbox
    BY <1>1, <2>1, <2>2, SameMessages, NobodyRecords
  <2>3. CASE outbox' = [outbox EXCEPT ![Busy(w)].status = "cancelled",
                                      ![Busy(w)].code = "changed"]
    <3>1. /\ DOMAIN outbox' = DOMAIN outbox
          /\ \A j \in DOMAIN outbox : j # Busy(w) => outbox'[j] = outbox[j]
          /\ outbox'[Busy(w)] = [outbox[Busy(w)] EXCEPT !.status = "cancelled",
                                                        !.code = "changed"]
      BY <2>1, <2>3
    <3>2. Later(outbox[Busy(w)], outbox'[Busy(w)]) /\ Unheld(outbox'[Busy(w)])
      BY <3>1 DEF Later, Unheld
    <3>3. Delivered /\ Unrecorded
      BY <1>1, <2>1, <3>1, <3>2, OneMessageChanges
    <3> QED BY <1>1, <2>1, <3>3, NobodyRecords
  <2> QED BY <1>6, <2>2, <2>3 DEF Cancel
<1>7. ASSUME NEW w \in Workers, Crash(w)
      PROVE  RelayInv'
  BY <1>1, <1>7, SameMessages, NobodyRecords DEF Crash, executionVars
<1>8. ASSUME NEW w \in Workers, Dispatch(w)
      PROVE  RelayInv'
  BY <1>1, <1>3, <1>4, <1>5, <1>6, <1>8, ClaimRecords, SendRecords, AnswerRecords, RecordRecords
     DEF Dispatch
<1>9. ASSUME NEW h \in DOMAIN relay, RelayDecides(h)
      PROVE  RelayInv'
  BY <1>1, <1>9, RelayRecords
<1>10. ASSUME NEW i \in DOMAIN outbox, Expire(i)
       PROVE  RelayInv'
  BY <1>1, <1>10, SameMessages, NobodyRecords DEF Expire, executionVars
<1>11. CASE UNCHANGED vars
  BY <1>1, <1>11, SameMessages, NobodyRecords DEF vars, mailVars, executionVars
<1> QED BY <1>2, <1>7, <1>8, <1>9, <1>10, <1>11 DEF MailNext

THEOREM RelayInvariance == MailSpec => []RelayInv
BY RelayInvInit, RelayInvNext, PTL DEF MailSpec

\* What stands in the outbox as the relay's word is its word on the newest
\* attempt (recordOutcome under the lease of the claim).
THEOREM RecordIsOfTheNewest == MailSpec => []RecordedIsTheNewest
<1>1. RelayInv => RecordedIsTheNewest
  BY DEF RelayInv, RecordedIsTheNewest, Backed, Newest
<1> QED BY <1>1, RelayInvariance, PTL

-----------------------------------------------------------------------------
(* What is handed over is still so.                                        *)

LEMMA OnlySendHandsOver ==
    ASSUME MailInv, [MailNext]_vars, NEW h \in DOMAIN relay' \ DOMAIN relay
    PROVE  \E w \in Workers :
             Send(w) /\ Applicable(Busy(w)) /\ h[1] = Busy(w) /\ Busy(w) \in DOMAIN outbox
<1>1. CASE People
  BY <1>1 DEF People, mailVars
<1>2. ASSUME NEW w \in Workers, Dispatch(w) \/ Crash(w)
      PROVE  Send(w)
  BY <1>2 DEF Dispatch, Crash, Reap, Pick, Verify, Cancel, Claim, Answer, Record
<1>3. ASSUME NEW g \in DOMAIN relay, RelayDecides(g)
      PROVE  FALSE
  BY <1>3 DEF RelayDecides
<1>4. CASE \E i \in DOMAIN outbox : Expire(i)
  BY <1>4 DEF Expire
<1>5. CASE UNCHANGED vars
  BY <1>5 DEF vars, mailVars
<1>6. PICK w \in Workers : Send(w)
  BY <1>1, <1>2, <1>3, <1>4, <1>5 DEF MailNext
<1>7. Busy(w) \in DOMAIN outbox
  <2>1. worker[w].at \in AtWork
    BY <1>6 DEF Send, At, AtWork
  <2> QED BY <2>1 DEF MailInv, Busy
<1>8. Applicable(Busy(w)) /\ h = <<Busy(w), worker[w].token>>
  BY <1>6 DEF Send
<1> QED BY <1>6, <1>7, <1>8

\* A notice leaves only while what it says is true, however long it waited
\* (the second look of dispatchOnce before the relay is called).
THEOREM SentIsStillTrue == MailSpec => NothingStaleIsSent
<1> DEFINE Fresh ==
      \A h \in DOMAIN relay' \ DOMAIN relay :
        h[1].node # None =>
          /\ nodes[h[1].node].cycle = outbox[h[1]].bound.cycle
          /\ nodes[h[1].node].status = outbox[h[1]].bound.status
          /\ nodes[h[1].node].status \notin {"skipped", "cancelled"}
          /\ h[1].kind = "documents" => outbox[h[1]].actor \in
               {Owner, coordinator, nodes[h[1].node].routing.responsible}
<1>1. ASSUME MailInv, [MailNext]_vars PROVE Fresh
  <2> SUFFICES ASSUME NEW h \in DOMAIN relay' \ DOMAIN relay, h[1].node # None
               PROVE  /\ nodes[h[1].node].cycle = outbox[h[1]].bound.cycle
                      /\ nodes[h[1].node].status = outbox[h[1]].bound.status
                      /\ nodes[h[1].node].status \notin {"skipped", "cancelled"}
                      /\ h[1].kind = "documents" => outbox[h[1]].actor \in
                           {Owner, coordinator, nodes[h[1].node].routing.responsible}
    OBVIOUS
  <2>1. h[1] \in DOMAIN outbox /\ Applicable(h[1])
    BY <1>1, OnlySendHandsOver
  <2>2. h[1].kind # "customer"
    BY <1>1, <2>1 DEF MailInv, Addressed
  <2>3. /\ BindingOf(nodes[h[1].node]) = outbox[h[1]].bound
        /\ nodes[h[1].node].status \notin {"skipped", "cancelled"}
        /\ h[1].kind = "documents" => NodeAccess(outbox[h[1]].actor, h[1].node)
    BY <2>1, <2>2 DEF Applicable
  <2>4. /\ outbox[h[1]].bound.cycle = nodes[h[1].node].cycle
        /\ outbox[h[1]].bound.status = nodes[h[1].node].status
    BY <2>3 DEF BindingOf
  <2> QED BY <2>3, <2>4 DEF NodeAccess, Manager
<1>2. MailInv /\ [MailNext]_vars => [Fresh]_vars
  BY <1>1
<1>3. NothingStaleIsSent <=> [][Fresh]_vars
  BY DEF NothingStaleIsSent
<1> QED BY <1>2, <1>3, MailInvariance, PTL DEF MailSpec

=============================================================================
