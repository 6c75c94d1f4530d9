-------------------------- MODULE TenantAccessProofs --------------------------
(***************************************************************************)
(* For any tenants, clients, names, keys, calls and bounds: a line of      *)
(* rotations has one head, a secret is shown once, and the views offer     *)
(* what the store accepts.                                                 *)
(***************************************************************************)
EXTENDS TenantAccess, TLAPS

\* A call under way is about something that is there, and holds a name that
\* nobody has been shown and that is stored by this call only.
CallKnows(c) ==
    /\ calls[c].at # "idle" => calls[c].request \in Requests /\ calls[c].key \in Keys
    /\ Waiting(c) => (calls[c].request.action \in Minting <=> calls[c].id # None)
    /\ Waiting(c) => ~calls[c].fresh
    /\ Waiting(c) /\ calls[c].request.credential # None => Stored(calls[c].request.credential)
    /\ calls[c].id # None => calls[c].at # "idle" /\ shown[calls[c].id] = 0
    /\ calls[c].id # None /\ Waiting(c) => ~Stored(calls[c].id)
    /\ calls[c].id # None /\ calls[c].at = "answered" /\ calls[c].fresh => Stored(calls[c].id)

CallsKnow == \A c \in Calls : CallKnows(c)

\* No two calls hold the same name.
DrawsApart ==
    \A c, d \in Calls : calls[c].id # None /\ calls[c].id = calls[d].id => c = d

\* The inductive invariant.
AccessInv == AccessTypeOK /\ CallsKnow /\ DrawsApart /\ LinesHaveOneHead /\ SecretIsShownOnce

-----------------------------------------------------------------------------
(* Requests and rows.                                                      *)

LEMMA RequestForms ==
    ASSUME NEW q \in Requests
    PROVE  /\ q.action \in Actions
           /\ q.credential \in Credentials \cup {None}
           /\ q.action \in {"tenant.create", "tenant.status"} =>
                /\ q.tenant \in Tenants /\ q.client = None /\ q.credential = None
                /\ q.status \in {"active", "suspended"}
           /\ q.action \in {"client.create", "client.status", "credential.issue"} =>
                /\ <<q.tenant, q.client>> \in Account /\ q.credential = None
                /\ q.status \in {"active", "disabled"}
           /\ q.action \in {"credential.rotate", "credential.revoke", "credential.acknowledge"} =>
                q.credential \in Credentials
BY AccessAssumption
   DEF Requests, TenantRequests, ClientRequests, CredentialRequests, Request, Actions, Account

LEMMA StoredIsARow ==
    ASSUME AccessTypeOK, NEW x \in Credentials
    PROVE  Stored(x) <=> credentials[x] \in Row
BY DEF AccessTypeOK, Stored, Row, NoRow

\* The party of a request about a credential is the account of its row.
LEMMA PartyOfCredential ==
    ASSUME AccessTypeOK, NEW q \in Requests, q.credential \in Credentials, Stored(q.credential)
    PROVE  Party(q) \in Account
BY StoredIsARow, AccessAssumption DEF Party, Row

LEMMA ChangeIsEvents ==
    ASSUME NEW account \in Tenants \X (Clients \cup {None}), NEW x \in Credentials \cup {None},
           NEW action \in {"tenant.created", "tenant.active", "tenant.suspended",
                           "client.created", "client.active", "client.disabled",
                           "credential.issued", "credential.rotated", "credential.revoked",
                           "credential.acknowledged"}
    PROVE  Change(action, account, x) \in Seq(Event)
<1>1. [action |-> action, tenant |-> account[1], client |-> account[2], credential |-> x] \in Event
  BY DEF Event
<1> QED BY <1>1 DEF Change

-----------------------------------------------------------------------------
(* What every transaction that writes does besides its rows.               *)

\* The call is answered and everything else about the calls stays.
Answered(c) ==
    /\ \A d \in Calls : calls'[d].id = calls[d].id
    /\ \A d \in Calls : d # c => calls'[d] = calls[d]
    /\ calls'[c].at = "answered"
    /\ calls'[c].request = calls[c].request
    /\ calls'[c].key = calls[c].key
    /\ shown' = shown

\* The part of the type invariant that does not speak of tenants, clients and
\* credentials.
RestTyped ==
    /\ replays \in [Actions \X Keys -> Result \cup {None}]
    /\ events \in Seq(Event)
    /\ now \in 0..MaxTime
    /\ calls \in [Calls -> Call]
    /\ shown \in [Credentials -> Nat]

LEMMA RecordsEffect ==
    ASSUME AccessTypeOK, CallsKnow, NEW c \in Calls, Waiting(c), NEW changes \in Seq(Event),
           NEW x \in Credentials \cup {None}, Records(c, changes, x)
    PROVE  RestTyped' /\ Answered(c)
<1> DEFINE call   == [calls[c] EXCEPT !.at = "answered", !.fresh = TRUE, !.credential = x]
           result == [request |-> calls[c].request, credential |-> x]
<1>1. /\ calls[c].request \in Requests /\ calls[c].key \in Keys
      /\ <<calls[c].request.action, calls[c].key>> \in Actions \X Keys
  BY RequestForms DEF CallsKnow, CallKnows, Waiting
<1>2. replays' \in [Actions \X Keys -> Result \cup {None}]
  <2>1. result \in Result
    BY <1>1 DEF Result
  <2>2. replays' = [replays EXCEPT ![<<calls[c].request.action, calls[c].key>>] = result]
    BY DEF Records
  <2> HIDE DEF result
  <2> QED BY <2>1, <2>2 DEF AccessTypeOK
<1>3. events' \in Seq(Event)
  BY DEF Records, AccessTypeOK
<1>4. calls[c] \in Call /\ calls \in [Calls -> Call]
  BY DEF AccessTypeOK
<1>5. /\ call \in Call
      /\ call.at = "answered" /\ call.id = calls[c].id
      /\ call.request = calls[c].request /\ call.key = calls[c].key
  BY <1>4 DEF Call
<1>6. calls' = [calls EXCEPT ![c] = call]
  BY DEF Records
<1> HIDE DEF call
<1>7. calls' \in [Calls -> Call] /\ calls'[c] = call /\ \A d \in Calls : d # c => calls'[d] = calls[d]
  BY <1>4, <1>5, <1>6
<1>8. shown' = shown /\ now' = now
  BY DEF Records
<1> QED BY <1>2, <1>3, <1>5, <1>7, <1>8 DEF RestTyped, AccessTypeOK, Answered

-----------------------------------------------------------------------------
(* The two ways the rows of the credentials change.                        *)

\* Rows may be revoked or acknowledged, and none appears.
LEMMA RowsKept ==
    ASSUME AccessInv, NEW c \in Calls, Waiting(c), RestTyped', Answered(c),
           tenants' \in [Tenants -> {"absent", "active", "suspended"}],
           clients' \in [Account -> {"absent", "active", "disabled"}],
           credentials' \in [Credentials -> Row \cup {NoRow}],
           calls[c].id = None,
           \A x \in Credentials :
              /\ Stored(x)' <=> Stored(x)
              /\ credentials'[x].from = credentials[x].from
              /\ credentials[x].status = "revoked" => credentials'[x].status = "revoked"
    PROVE  AccessInv'
<1>1. AccessTypeOK'
  BY DEF RestTyped, AccessTypeOK
<1>2. CallsKnow'
  <2> SUFFICES ASSUME NEW d \in Calls
               PROVE  CallKnows(d)'
    BY DEF CallsKnow
  <2>1. CallKnows(d)
    BY DEF AccessInv, CallsKnow
  <2>2. CASE d = c
    BY <2>1, <2>2 DEF CallKnows, Answered, Waiting
  <2>3. CASE d # c
    <3>1. calls'[d] = calls[d] /\ shown' = shown
      BY <2>3 DEF Answered
    <3>2. \A x \in Credentials : Stored(x)' <=> Stored(x)
      OBVIOUS
    <3>3. calls[d].id \in Credentials \cup {None}
      BY DEF AccessInv, AccessTypeOK, Call
    <3>4. Waiting(d) => calls[d].request.credential \in Credentials \cup {None}
      BY <2>1, RequestForms DEF CallKnows, Waiting
    <3> QED BY <2>1, <3>1, <3>2, <3>3, <3>4 DEF CallKnows, Waiting
  <2> QED BY <2>2, <2>3
<1>3. DrawsApart'
  BY DEF AccessInv, DrawsApart, Answered
<1>4. LinesHaveOneHead'
  <2>1. \A x \in Credentials : credentials[x].from \in Credentials \cup {None}
    BY DEF AccessInv, AccessTypeOK, Row, NoRow
  <2> QED BY <2>1, AccessAssumption DEF AccessInv, LinesHaveOneHead
<1>5. SecretIsShownOnce'
  BY DEF AccessInv, SecretIsShownOnce, Answered
<1> QED BY <1>1, <1>2, <1>3, <1>4, <1>5 DEF AccessInv

\* The rows after the one that is replaced, if any, was revoked.
Replaced(old, rest) ==
    /\ old # None => credentials[old].status = "active"
    /\ rest \in [Credentials -> Row \cup {NoRow}]
    /\ \A x \in Credentials : x # old => rest[x] = credentials[x]
    /\ old # None => rest[old] = [credentials[old] EXCEPT !.status = "revoked"]

\* The name a call holds becomes a row, and the row it replaces is revoked: it
\* was active, so nothing was made from it before.
LEMMA RowsMinted ==
    ASSUME AccessInv, NEW c \in Calls, Waiting(c), RestTyped', Answered(c),
           tenants' \in [Tenants -> {"absent", "active", "suspended"}],
           clients' \in [Account -> {"absent", "active", "disabled"}],
           NEW new \in Credentials, new = calls[c].id,
           NEW old \in Credentials \cup {None},
           NEW row \in Row, row.from = old, row.status = "active",
           NEW rest, Replaced(old, rest),
           credentials' = [rest EXCEPT ![new] = row]
    PROVE  AccessInv'
<1> USE DEF Replaced
<1>1. new # None /\ ~Stored(new) /\ shown[new] = 0
  BY AccessAssumption DEF AccessInv, CallsKnow, CallKnows
<1>2. old # new
  BY <1>1 DEF Stored
<1>3. /\ credentials'[new] = row
      /\ \A x \in Credentials : x # new => credentials'[x] = rest[x]
      /\ \A x \in Credentials : x # new /\ x # old => credentials'[x] = credentials[x]
  OBVIOUS
<1>4. old # None => /\ credentials[old] \in Row
                    /\ credentials'[old] = [credentials[old] EXCEPT !.status = "revoked"]
  BY <1>2, <1>3 DEF AccessInv, AccessTypeOK, NoRow
<1>5. old # None => /\ Stored(old)
                    /\ credentials'[old].status = "revoked"
                    /\ credentials'[old].from = credentials[old].from
  BY <1>4 DEF Stored, Row
<1>6. \A x \in Credentials : Stored(x)' <=> (Stored(x) \/ x = new)
  BY <1>3, <1>5, AccessAssumption DEF Stored
<1>7. AccessTypeOK'
  BY DEF RestTyped, AccessTypeOK
<1>8. CallsKnow'
  <2> SUFFICES ASSUME NEW d \in Calls
               PROVE  CallKnows(d)'
    BY DEF CallsKnow
  <2>1. CallKnows(d) /\ CallKnows(c)
    BY DEF AccessInv, CallsKnow
  <2>2. CASE d = c
    BY <1>6, <2>1, <2>2 DEF CallKnows, Answered, Waiting
  <2>3. CASE d # c
    <3>1. calls'[d] = calls[d] /\ shown' = shown
      BY <2>3 DEF Answered
    <3>2. calls[d].id # new
      BY <1>1, <2>3 DEF AccessInv, DrawsApart
    <3>3. calls[d].id \in Credentials \cup {None}
      BY DEF AccessInv, AccessTypeOK, Call
    <3>4. Waiting(d) => calls[d].request.credential \in Credentials \cup {None}
      BY <2>1, RequestForms DEF CallKnows, Waiting
    <3> QED BY <1>6, <2>1, <3>1, <3>2, <3>3, <3>4 DEF CallKnows, Waiting
  <2> QED BY <2>2, <2>3
<1>9. DrawsApart'
  BY DEF AccessInv, DrawsApart, Answered
<1>10. LinesHaveOneHead'
  <2>1. \A x \in Credentials : credentials[x] \in Row \cup {NoRow}
    BY DEF AccessInv, AccessTypeOK
  <2>2. \A x \in Credentials : x # new => credentials'[x].from = credentials[x].from
    BY <1>3, <1>5, AccessAssumption
  <2>3. \A x \in Credentials : credentials[x].from # None => Stored(x)
    BY <2>1 DEF Row, NoRow, Stored
  <2>4. \A x \in Credentials : credentials[x].from \in Credentials \cup {None}
    BY <2>1 DEF Row, NoRow
  <2>5. \A x \in Credentials : credentials[x].status = "revoked" =>
          credentials'[x].status = "revoked"
    BY <1>1, <1>3, <1>5, AccessAssumption DEF Stored
  <2>6. old # None => \A x \in Credentials : credentials[x].from # old
    <3> SUFFICES ASSUME old # None, NEW x \in Credentials, credentials[x].from = old
                 PROVE  FALSE
      OBVIOUS
    <3>1. credentials[old].status = "revoked"
      BY <2>3 DEF AccessInv, LinesHaveOneHead
    <3> QED BY <3>1
  <2>7. credentials'[new].from = old /\ (old # None => credentials'[old].status = "revoked")
    BY <1>3, <1>5
  <2> SUFFICES ASSUME NEW x \in Credentials, NEW y \in Credentials,
                      Stored(x)', credentials'[x].from # None
               PROVE  /\ credentials'[credentials'[x].from].status = "revoked"
                      /\ credentials'[x].from = credentials'[y].from => x = y
    BY DEF LinesHaveOneHead
  <2>8. CASE x = new
    BY <2>2, <2>6, <2>7, <2>8
  <2>9. CASE x # new
    <3>1. Stored(x) /\ credentials[x].from # None /\ credentials'[x].from = credentials[x].from
      BY <1>6, <2>2, <2>9
    <3>2. credentials'[credentials'[x].from].status = "revoked"
      BY <2>4, <2>5, <3>1 DEF AccessInv, LinesHaveOneHead
    <3>3. CASE y = new
      BY <2>6, <2>7, <3>1, <3>2, <3>3
    <3>4. CASE y # new
      BY <2>2, <3>1, <3>2, <3>4 DEF AccessInv, LinesHaveOneHead
    <3> QED BY <3>3, <3>4
  <2> QED BY <2>8, <2>9
<1>11. SecretIsShownOnce'
  BY <1>6 DEF AccessInv, SecretIsShownOnce, Answered
<1> QED BY <1>7, <1>8, <1>9, <1>10, <1>11 DEF AccessInv

-----------------------------------------------------------------------------
(* The transactions.                                                       *)

\* What a call that may commit stands on.
LEMMA CommitForms ==
    ASSUME AccessInv, NEW c \in Calls, NEW action, Commits(c, action)
    PROVE  /\ Waiting(c)
           /\ calls[c].request \in Requests
           /\ calls[c].request.action = action
           /\ action \notin Minting => calls[c].id = None
           /\ action \in Minting => calls[c].id \in Credentials
           /\ calls[c].started \in Nat
           /\ calls[c].request.credential # None =>
                /\ calls[c].request.credential \in Credentials
                /\ Stored(calls[c].request.credential)
                /\ credentials[calls[c].request.credential].status = "active"
                /\ Party(calls[c].request) \in Account
<1>1. CallKnows(c) /\ Waiting(c) /\ calls[c].request.action = action
  BY DEF AccessInv, CallsKnow, Commits
<1>2. calls[c].request \in Requests /\ calls[c].id \in Credentials \cup {None}
        /\ calls[c].started \in Nat
  BY <1>1, AccessAssumption DEF CallKnows, Waiting, AccessInv, AccessTypeOK, Call
<1>3. calls[c].request.credential # None =>
        /\ calls[c].request.credential \in Credentials
        /\ Stored(calls[c].request.credential)
        /\ credentials[calls[c].request.credential].status = "active"
  BY <1>1, <1>2, RequestForms DEF CallKnows, Commits, Accepts, CredentialAllows
<1>4. calls[c].request.credential # None => Party(calls[c].request) \in Account
  BY <1>2, <1>3, PartyOfCredential DEF AccessInv
<1> QED BY <1>1, <1>2, <1>3, <1>4 DEF CallKnows

LEMMA AccountsArePairs ==
    ASSUME NEW a \in Account
    PROVE  a \in Tenants \X (Clients \cup {None}) /\ a = <<a[1], a[2]>>
BY DEF Account

LEMMA CreateTenantKeeps ==
    ASSUME AccessInv, NEW c \in Calls, CreateTenant(c)
    PROVE  AccessInv'
<1> DEFINE q == calls[c].request
           changes == Change("tenant.created", Party(q), None)
<1>1. Commits(c, "tenant.create") /\ Records(c, changes, None)
  BY DEF CreateTenant
<1>2. q \in Requests /\ q.tenant \in Tenants /\ Party(q) = <<q.tenant, None>> /\ calls[c].id = None
  BY <1>1, CommitForms, RequestForms DEF Party, Minting
<1>3. changes \in Seq(Event)
  BY <1>2, ChangeIsEvents
<1> HIDE DEF changes
<1>4. RestTyped' /\ Answered(c) /\ Waiting(c)
  BY <1>1, <1>3, RecordsEffect DEF AccessInv, Commits
<1>5. tenants' \in [Tenants -> {"absent", "active", "suspended"}]
        /\ clients' = clients /\ credentials' = credentials
  BY <1>2 DEF CreateTenant, AccessInv, AccessTypeOK
<1> QED BY <1>2, <1>4, <1>5, RowsKept DEF AccessInv, AccessTypeOK, Stored

LEMMA SetTenantStatusKeeps ==
    ASSUME AccessInv, NEW c \in Calls, SetTenantStatus(c)
    PROVE  AccessInv'
<1> DEFINE q == calls[c].request
           changes == Change(IF q.status = "active" THEN "tenant.active" ELSE "tenant.suspended",
                             Party(q), None)
<1>1. Commits(c, "tenant.status") /\ Records(c, changes, None)
  BY DEF SetTenantStatus
<1>2. /\ q \in Requests /\ q.tenant \in Tenants /\ Party(q) = <<q.tenant, None>>
      /\ q.status \in {"active", "suspended"} /\ calls[c].id = None
  BY <1>1, CommitForms, RequestForms DEF Party, Minting
<1>3. changes \in Seq(Event)
  BY <1>2, ChangeIsEvents
<1> HIDE DEF changes
<1>4. RestTyped' /\ Answered(c) /\ Waiting(c)
  BY <1>1, <1>3, RecordsEffect DEF AccessInv, Commits
<1>5. tenants' \in [Tenants -> {"absent", "active", "suspended"}]
        /\ clients' = clients /\ credentials' = credentials
  BY <1>2 DEF SetTenantStatus, AccessInv, AccessTypeOK
<1> QED BY <1>2, <1>4, <1>5, RowsKept DEF AccessInv, AccessTypeOK, Stored

LEMMA CreateClientKeeps ==
    ASSUME AccessInv, NEW c \in Calls, CreateClient(c)
    PROVE  AccessInv'
<1> DEFINE q == calls[c].request
           changes == Change("client.created", Party(q), None)
<1>1. Commits(c, "client.create") /\ Records(c, changes, None)
  BY DEF CreateClient
<1>2. q \in Requests /\ Party(q) \in Account /\ calls[c].id = None
  BY <1>1, CommitForms, RequestForms DEF Party, Minting
<1>3. changes \in Seq(Event)
  BY <1>2, AccountsArePairs, ChangeIsEvents
<1> HIDE DEF changes
<1>4. RestTyped' /\ Answered(c) /\ Waiting(c)
  BY <1>1, <1>3, RecordsEffect DEF AccessInv, Commits
<1>5. clients' \in [Account -> {"absent", "active", "disabled"}]
        /\ tenants' = tenants /\ credentials' = credentials
  BY <1>2 DEF CreateClient, AccessInv, AccessTypeOK
<1> QED BY <1>2, <1>4, <1>5, RowsKept DEF AccessInv, AccessTypeOK, Stored

LEMMA SetClientStatusKeeps ==
    ASSUME AccessInv, NEW c \in Calls, SetClientStatus(c)
    PROVE  AccessInv'
<1> DEFINE q == calls[c].request
           changes == Change(IF q.status = "active" THEN "client.active" ELSE "client.disabled",
                             Party(q), None)
<1>1. Commits(c, "client.status") /\ Records(c, changes, None)
  BY DEF SetClientStatus
<1>2. /\ q \in Requests /\ Party(q) \in Account
      /\ q.status \in {"active", "disabled"} /\ calls[c].id = None
  BY <1>1, CommitForms, RequestForms DEF Party, Minting
<1>3. changes \in Seq(Event)
  BY <1>2, AccountsArePairs, ChangeIsEvents
<1> HIDE DEF changes
<1>4. RestTyped' /\ Answered(c) /\ Waiting(c)
  BY <1>1, <1>3, RecordsEffect DEF AccessInv, Commits
<1>5. clients' \in [Account -> {"absent", "active", "disabled"}]
        /\ tenants' = tenants /\ credentials' = credentials
  BY <1>2 DEF SetClientStatus, AccessInv, AccessTypeOK
<1> QED BY <1>2, <1>4, <1>5, RowsKept DEF AccessInv, AccessTypeOK, Stored

LEMMA IssueCredentialKeeps ==
    ASSUME AccessInv, NEW c \in Calls, IssueCredential(c)
    PROVE  AccessInv'
<1> DEFINE a   == Party(calls[c].request)
           new == IF clients[a] = "absent" THEN Change("client.created", a, None) ELSE <<>>
           changes == new \o Change("credential.issued", a, calls[c].id)
           row == Minted(c, a, None)
<1>1. Commits(c, "credential.issue") /\ Records(c, changes, calls[c].id)
  BY DEF IssueCredential
<1>2. a \in Account /\ calls[c].id \in Credentials /\ calls[c].started \in Nat
  BY <1>1, CommitForms, RequestForms DEF Party, Minting
<1>3. changes \in Seq(Event)
  <2>1. Change("client.created", a, None) \in Seq(Event)
    BY <1>2, AccountsArePairs, ChangeIsEvents
  <2>2. Change("credential.issued", a, calls[c].id) \in Seq(Event)
    BY <1>2, AccountsArePairs, ChangeIsEvents
  <2>3. new \in Seq(Event)
    BY <2>1
  <2> QED BY <2>2, <2>3
<1>4. row \in Row /\ row.from = None /\ row.status = "active"
  BY <1>2, AccessAssumption DEF Minted, Row
<1>5. credentials' = [credentials EXCEPT ![calls[c].id] = row]
  BY DEF IssueCredential
<1>6. clients' \in [Account -> {"absent", "active", "disabled"}] /\ tenants' = tenants
  BY <1>2 DEF IssueCredential, AccessInv, AccessTypeOK
<1> HIDE DEF changes, row
<1>7. RestTyped' /\ Answered(c) /\ Waiting(c)
  BY <1>1, <1>2, <1>3, RecordsEffect DEF AccessInv, Commits
<1>8. Replaced(None, credentials)
  BY DEF Replaced, AccessInv, AccessTypeOK
<1> QED BY <1>2, <1>4, <1>5, <1>6, <1>7, <1>8, RowsMinted DEF AccessInv, AccessTypeOK

LEMMA RotateCredentialKeeps ==
    ASSUME AccessInv, NEW c \in Calls, RotateCredential(c)
    PROVE  AccessInv'
<1> DEFINE q   == calls[c].request
           old == q.credential
           id  == calls[c].id
           row == Minted(c, Party(q), old)
           rest == [credentials EXCEPT ![old].status = "revoked"]
           changes == Change("credential.rotated", Party(q), id)
<1>1. Commits(c, "credential.rotate") /\ Records(c, changes, id)
  BY DEF RotateCredential
<1>2. q \in Requests /\ old \in Credentials /\ old # None
  <2>1. q \in Requests /\ q.action = "credential.rotate"
    BY <1>1, CommitForms
  <2> QED BY <2>1, RequestForms, AccessAssumption
<1>3. /\ Party(q) \in Account /\ id \in Credentials /\ calls[c].started \in Nat
      /\ Stored(old) /\ credentials[old].status = "active"
  BY <1>1, <1>2, CommitForms DEF Minting
<1>4. changes \in Seq(Event)
  BY <1>3, AccountsArePairs, ChangeIsEvents
<1>5. row \in Row /\ row.from = old /\ row.status = "active"
  BY <1>2, <1>3, AccessAssumption DEF Minted, Row
<1>6. credentials[old] \in Row /\ credentials \in [Credentials -> Row \cup {NoRow}]
  BY <1>2, <1>3, StoredIsARow DEF AccessInv, AccessTypeOK
<1>7. /\ rest[old] = [credentials[old] EXCEPT !.status = "revoked"]
      /\ \A x \in Credentials : x # old => rest[x] = credentials[x]
  BY <1>2, <1>6
<1>8. rest \in [Credentials -> Row \cup {NoRow}]
  <2>1. [credentials[old] EXCEPT !.status = "revoked"] \in Row
    BY <1>6 DEF Row
  <2> QED BY <1>2, <1>6, <2>1
<1>9. credentials' = [rest EXCEPT ![id] = row]
  BY DEF RotateCredential
<1>10. tenants' = tenants /\ clients' = clients
  BY DEF RotateCredential
<1> HIDE DEF changes, row, rest
<1>11. RestTyped' /\ Answered(c) /\ Waiting(c)
  BY <1>1, <1>3, <1>4, RecordsEffect DEF AccessInv, Commits
<1>12. /\ tenants' \in [Tenants -> {"absent", "active", "suspended"}]
       /\ clients' \in [Account -> {"absent", "active", "disabled"}]
  BY <1>10 DEF AccessInv, AccessTypeOK
<1>13. old \in Credentials \cup {None} /\ id = calls[c].id
  BY <1>2
<1> HIDE DEF old, id
<1>14. Replaced(old, rest)
  BY <1>3, <1>7, <1>8 DEF Replaced
<1> QED BY <1>3, <1>5, <1>9, <1>11, <1>12, <1>13, <1>14, RowsMinted

\* A row that is revoked or acknowledged is still the row of its credential.
LEMMA OneRowChanges ==
    ASSUME AccessInv, NEW c \in Calls, Waiting(c), RestTyped', Answered(c),
           tenants' = tenants, clients' = clients, calls[c].id = None,
           NEW x \in Credentials, Stored(x), credentials[x].status = "active",
           NEW row \in Row, row.from = credentials[x].from,
           credentials' = [credentials EXCEPT ![x] = row]
    PROVE  AccessInv'
<1>1. credentials' \in [Credentials -> Row \cup {NoRow}]
  BY DEF AccessInv, AccessTypeOK
<1>2. row.status # "absent"
  BY DEF Row
<1>3. credentials'[x] = row /\ \A y \in Credentials : y # x => credentials'[y] = credentials[y]
  BY DEF AccessInv, AccessTypeOK
<1>4. \A y \in Credentials :
        /\ Stored(y)' <=> Stored(y)
        /\ credentials'[y].from = credentials[y].from
        /\ credentials[y].status = "revoked" => credentials'[y].status = "revoked"
  BY <1>2, <1>3 DEF Stored
<1> QED BY <1>1, <1>4, RowsKept DEF AccessInv, AccessTypeOK

LEMMA RevokeCredentialKeeps ==
    ASSUME AccessInv, NEW c \in Calls, RevokeCredential(c)
    PROVE  AccessInv'
<1> DEFINE q   == calls[c].request
           x   == q.credential
           row == [credentials[x] EXCEPT !.status = "revoked"]
           changes == Change("credential.revoked", Party(q), x)
<1>1. Commits(c, "credential.revoke") /\ Records(c, changes, x)
  BY DEF RevokeCredential
<1>2. q \in Requests /\ x \in Credentials /\ x # None
  BY <1>1, CommitForms, RequestForms, AccessAssumption
<1>3. Party(q) \in Account /\ calls[c].id = None /\ Stored(x) /\ credentials[x].status = "active"
  BY <1>1, <1>2, CommitForms DEF Minting
<1>4. changes \in Seq(Event)
  BY <1>2, <1>3, AccountsArePairs, ChangeIsEvents
<1>5. row \in Row /\ row.from = credentials[x].from
  BY <1>2, <1>3, StoredIsARow DEF Row, AccessInv
<1>6. credentials' = [credentials EXCEPT ![x] = row] /\ tenants' = tenants /\ clients' = clients
  BY DEF RevokeCredential
<1> HIDE DEF changes, row
<1>7. RestTyped' /\ Answered(c) /\ Waiting(c)
  BY <1>1, <1>2, <1>4, RecordsEffect DEF AccessInv, Commits
<1> QED BY <1>2, <1>3, <1>5, <1>6, <1>7, OneRowChanges

LEMMA AcknowledgeDeliveryKeeps ==
    ASSUME AccessInv, NEW c \in Calls, AcknowledgeDelivery(c)
    PROVE  AccessInv'
<1> DEFINE q   == calls[c].request
           x   == q.credential
           row == [credentials[x] EXCEPT !.acked = TRUE]
           changes == Change("credential.acknowledged", Party(q), x)
<1>1. Commits(c, "credential.acknowledge") /\ Records(c, changes, x)
  BY DEF AcknowledgeDelivery
<1>2. q \in Requests /\ x \in Credentials /\ x # None
  BY <1>1, CommitForms, RequestForms, AccessAssumption
<1>3. Party(q) \in Account /\ calls[c].id = None /\ Stored(x) /\ credentials[x].status = "active"
  BY <1>1, <1>2, CommitForms DEF Minting
<1>4. changes \in Seq(Event)
  BY <1>2, <1>3, AccountsArePairs, ChangeIsEvents
<1>5. row \in Row /\ row.from = credentials[x].from
  BY <1>2, <1>3, StoredIsARow DEF Row, AccessInv
<1>6. credentials' = [credentials EXCEPT ![x] = row] /\ tenants' = tenants /\ clients' = clients
  BY DEF AcknowledgeDelivery
<1> HIDE DEF changes, row
<1>7. RestTyped' /\ Answered(c) /\ Waiting(c)
  BY <1>1, <1>2, <1>4, RecordsEffect DEF AccessInv, Commits
<1> QED BY <1>2, <1>3, <1>5, <1>6, <1>7, OneRowChanges

-----------------------------------------------------------------------------
(* The steps that write nothing.                                           *)

\* One call changes, its name stays or is given up, and so do the secrets.
LEMMA OneCallChanges ==
    ASSUME AccessInv, UNCHANGED tables, now' \in 0..MaxTime, shown' = shown,
           NEW c \in Calls, NEW call \in Call,
           calls' = [calls EXCEPT ![c] = call],
           CallKnows(c)',
           \A d \in Calls \ {c} : call.id # None => calls[d].id # call.id
    PROVE  AccessInv'
<1>1. /\ calls' \in [Calls -> Call] /\ calls'[c] = call
      /\ \A d \in Calls : d # c => calls'[d] = calls[d]
  BY DEF AccessInv, AccessTypeOK
<1>2. AccessTypeOK'
  BY <1>1 DEF AccessInv, AccessTypeOK, tables
<1>3. CallsKnow'
  <2> SUFFICES ASSUME NEW d \in Calls, d # c
               PROVE  CallKnows(d)'
    BY DEF CallsKnow
  <2> QED BY <1>1 DEF AccessInv, CallsKnow, CallKnows, Waiting, Stored, tables
<1>4. DrawsApart'
  BY <1>1 DEF AccessInv, DrawsApart
<1>5. LinesHaveOneHead' /\ SecretIsShownOnce'
  BY DEF AccessInv, LinesHaveOneHead, SecretIsShownOnce, Stored, tables
<1> QED BY <1>2, <1>3, <1>4, <1>5 DEF AccessInv

LEMMA SendKeeps ==
    ASSUME AccessInv, NEW c \in Calls, NEW q \in Requests, NEW k \in Keys, Send(c, q, k)
    PROVE  AccessInv'
<1>1. PICK id \in IF q.action \in Minting THEN Undrawn ELSE {None} :
        calls' = [calls EXCEPT ![c] = [at |-> "sent", request |-> q, key |-> k, started |-> now,
                                       id |-> id, fresh |-> FALSE, credential |-> None]]
  BY DEF Send
<1> DEFINE call == [at |-> "sent", request |-> q, key |-> k, started |-> now,
                    id |-> id, fresh |-> FALSE, credential |-> None]
<1>2. /\ UNCHANGED tables /\ now' = now /\ shown' = shown
      /\ q.credential # None => Stored(q.credential)
  BY DEF Send, tables
<1>3. id \in Credentials \cup {None} /\ (q.action \in Minting <=> id # None)
  BY AccessAssumption DEF Undrawn
<1>4. id # None => ~Stored(id) /\ shown[id] = 0 /\ \A d \in Calls : calls[d].id # id
  BY <1>3 DEF Undrawn
<1>5. call \in Call
  BY <1>3 DEF Call, AccessInv, AccessTypeOK
<1>6. calls'[c] = call
  BY <1>1 DEF AccessInv, AccessTypeOK
<1>7. CallKnows(c)'
  BY <1>2, <1>3, <1>4, <1>6 DEF CallKnows, Waiting, Stored, tables
<1>8. \A d \in Calls \ {c} : call.id # None => calls[d].id # call.id
  BY <1>4
<1>9. now' \in 0..MaxTime
  BY <1>2 DEF AccessInv, AccessTypeOK
<1> HIDE DEF call
<1> QED BY <1>1, <1>2, <1>5, <1>7, <1>8, <1>9, OneCallChanges DEF call

LEMMA LeaveKeeps ==
    ASSUME AccessInv, NEW c \in Calls, Leave(c)
    PROVE  AccessInv'
<1>1. Idle \in Call /\ Idle.id = None /\ Idle.at = "idle"
  <2>1. 0 \in 0..MaxTime
    BY AccessAssumption
  <2> QED BY <2>1 DEF Idle, Call
<1>2. calls' = [calls EXCEPT ![c] = Idle] /\ UNCHANGED tables /\ now' = now /\ shown' = shown
  BY DEF Leave, tables
<1>3. calls'[c] = Idle
  BY <1>2 DEF AccessInv, AccessTypeOK
<1>4. CallKnows(c)'
  BY <1>1, <1>3 DEF CallKnows, Waiting
<1>5. now' \in 0..MaxTime
  BY <1>2 DEF AccessInv, AccessTypeOK
<1> QED BY <1>1, <1>2, <1>4, <1>5, OneCallChanges

LEMMA ReplayKeeps ==
    ASSUME AccessInv, NEW c \in Calls, Replay(c)
    PROVE  AccessInv'
<1> DEFINE call == [calls[c] EXCEPT !.at = "answered", !.credential = Earlier(c).credential]
<1>1. calls' = [calls EXCEPT ![c] = call] /\ UNCHANGED tables /\ now' = now /\ shown' = shown
  BY DEF Replay, tables
<1>2. calls[c] \in Call /\ calls[c].at = "sent" /\ CallKnows(c)
  BY DEF Replay, Waiting, AccessInv, AccessTypeOK, CallsKnow
<1>3. Earlier(c) \in Result
  <2>1. <<calls[c].request.action, calls[c].key>> \in Actions \X Keys
    BY <1>2, RequestForms DEF CallKnows
  <2> QED BY <2>1 DEF Replay, Earlier, AccessInv, AccessTypeOK
<1>4. /\ call \in Call /\ call.at = "answered" /\ call.id = calls[c].id
      /\ call.fresh = calls[c].fresh /\ call.request = calls[c].request
      /\ call.key = calls[c].key
  BY <1>2, <1>3 DEF Call, Result
<1>5. calls'[c] = call
  BY <1>1 DEF AccessInv, AccessTypeOK
<1>6. \A d \in Calls \ {c} : call.id # None => calls[d].id # call.id
  BY <1>4 DEF AccessInv, DrawsApart
<1>7. now' \in 0..MaxTime
  BY <1>1 DEF AccessInv, AccessTypeOK
<1> HIDE DEF call
<1>8. CallKnows(c)'
  BY <1>1, <1>2, <1>4, <1>5 DEF CallKnows, Waiting
<1> QED BY <1>1, <1>4, <1>6, <1>7, <1>8, OneCallChanges

LEMMA AnswerKeeps ==
    ASSUME AccessInv, NEW c \in Calls, Answer(c)
    PROVE  AccessInv'
<1>1. Idle \in Call /\ Idle.id = None /\ Idle.at = "idle"
  <2>1. 0 \in 0..MaxTime
    BY AccessAssumption
  <2> QED BY <2>1 DEF Idle, Call
<1>2. /\ calls' = [calls EXCEPT ![c] = Idle] /\ UNCHANGED tables /\ now' = now
      /\ \A x \in Credentials : shown'[x] = IF calls[c].fresh /\ x = calls[c].id
                                            THEN shown[x] + 1 ELSE shown[x]
      /\ shown' = [x \in Credentials |-> IF calls[c].fresh /\ x = calls[c].id
                                         THEN shown[x] + 1 ELSE shown[x]]
  BY DEF Answer, tables
<1>3. calls'[c] = Idle /\ \A d \in Calls : d # c => calls'[d] = calls[d]
  BY <1>2 DEF AccessInv, AccessTypeOK
<1>4. calls' \in [Calls -> Call] /\ shown' \in [Credentials -> Nat]
  BY <1>1, <1>2 DEF AccessInv, AccessTypeOK
<1>5. AccessTypeOK'
  BY <1>2, <1>4 DEF AccessInv, AccessTypeOK, tables
<1>6. CallsKnow'
  <2> SUFFICES ASSUME NEW d \in Calls
               PROVE  CallKnows(d)'
    BY DEF CallsKnow
  <2>1. CASE d = c
    BY <1>1, <1>3, <2>1 DEF CallKnows, Waiting
  <2>2. CASE d # c
    <3>1. CallKnows(d) /\ calls'[d] = calls[d] /\ calls[d].id \in Credentials \cup {None}
      BY <1>3, <2>2 DEF AccessInv, CallsKnow, AccessTypeOK, Call
    <3>2. calls[d].id # None => shown'[calls[d].id] = shown[calls[d].id]
      BY <1>2, <2>2, <3>1 DEF AccessInv, DrawsApart
    <3> QED BY <1>2, <3>1, <3>2 DEF CallKnows, Waiting, Stored, tables
  <2> QED BY <2>1, <2>2
<1>7. DrawsApart'
  BY <1>1, <1>3 DEF AccessInv, DrawsApart
<1>8. LinesHaveOneHead'
  BY <1>2 DEF AccessInv, LinesHaveOneHead, Stored, tables
<1>9. SecretIsShownOnce'
  <2>1. calls[c].id # None => shown[calls[c].id] = 0
    BY DEF AccessInv, CallsKnow, CallKnows
  <2>2. calls[c].id # None /\ calls[c].fresh => Stored(calls[c].id)
    BY DEF AccessInv, CallsKnow, CallKnows, Answer
  <2>3. \A x \in Credentials : shown[x] \in Nat
    BY DEF AccessInv, AccessTypeOK
  <2>4. \A x \in Credentials : shown'[x] <= 1 /\ (shown'[x] = 1 => Stored(x))
    BY <1>2, <2>1, <2>2, <2>3, AccessAssumption DEF AccessInv, SecretIsShownOnce
  <2> QED BY <1>2, <2>4 DEF SecretIsShownOnce, Stored, tables
<1> QED BY <1>5, <1>6, <1>7, <1>8, <1>9 DEF AccessInv

LEMMA AccessStutters ==
    ASSUME AccessInv, UNCHANGED <<tenants, clients, credentials, replays, events, calls, shown>>,
           now' \in 0..MaxTime
    PROVE  AccessInv'
BY DEF AccessInv, AccessTypeOK, CallsKnow, CallKnows, Waiting, Stored, DrawsApart,
       LinesHaveOneHead, SecretIsShownOnce

LEMMA AccessInvInit ==
    ASSUME Init
    PROVE  AccessInv
<1>1. Idle \in Call /\ Idle.id = None /\ Idle.at = "idle"
  <2>1. 0 \in 0..MaxTime
    BY AccessAssumption
  <2> QED BY <2>1 DEF Idle, Call
<1>2. AccessTypeOK
  <2>1. <<>> \in Seq(Event)
    OBVIOUS
  <2>2. 0 \in 0..MaxTime
    BY AccessAssumption
  <2> QED BY <1>1, <2>1, <2>2 DEF Init, AccessTypeOK
<1>3. CallsKnow /\ DrawsApart
  BY <1>1 DEF Init, CallsKnow, CallKnows, Waiting, DrawsApart
<1>4. LinesHaveOneHead
  BY DEF Init, LinesHaveOneHead, Stored, NoRow
<1>5. SecretIsShownOnce
  BY DEF Init, SecretIsShownOnce
<1> QED BY <1>2, <1>3, <1>4, <1>5 DEF AccessInv

LEMMA AccessInvStep ==
    ASSUME AccessInv, [Next]_vars
    PROVE  AccessInv'
<1>1. ASSUME NEW c \in Calls, NEW q \in Requests, NEW k \in Keys, Send(c, q, k)
      PROVE  AccessInv'
  BY <1>1, SendKeeps
<1>2. ASSUME NEW c \in Calls, Commit(c)
      PROVE  AccessInv'
  BY <1>2, CreateTenantKeeps, SetTenantStatusKeeps, CreateClientKeeps, SetClientStatusKeeps,
     IssueCredentialKeeps, RotateCredentialKeeps, RevokeCredentialKeeps,
     AcknowledgeDeliveryKeeps DEF Commit
<1>3. ASSUME NEW c \in Calls, Replay(c)
      PROVE  AccessInv'
  BY <1>3, ReplayKeeps
<1>4. ASSUME NEW c \in Calls, Refuse(c) \/ Fail(c) \/ Lose(c)
      PROVE  AccessInv'
  BY <1>4, LeaveKeeps DEF Refuse, Fail, Lose
<1>5. ASSUME NEW c \in Calls, Answer(c)
      PROVE  AccessInv'
  BY <1>5, AnswerKeeps
<1>6. CASE Tick
  <2>1. now' \in 0..MaxTime
    BY <1>6, AccessAssumption DEF Tick, AccessInv, AccessTypeOK
  <2> QED BY <1>6, <2>1, AccessStutters DEF Tick
<1>7. CASE UNCHANGED vars
  BY <1>7, AccessStutters DEF vars, AccessInv, AccessTypeOK
<1> QED BY <1>1, <1>2, <1>3, <1>4, <1>5, <1>6, <1>7 DEF Next

\* The tables, the calls and the history keep their types through every
\* operation of the service and its store.
THEOREM AccessTypeCorrect == Spec => []AccessTypeOK
<1>1. Spec => []AccessInv
  BY AccessInvInit, AccessInvStep, PTL DEF Spec
<1>2. AccessInv => AccessTypeOK
  BY DEF AccessInv
<1> QED BY <1>1, <1>2, PTL

\* However many administrators rotate, revoke and repeat at once, a credential
\* is rotated once and is revoked by it (rotateCredential).
THEOREM LinesStayLines == Spec => []LinesHaveOneHead
<1>1. Spec => []AccessInv
  BY AccessInvInit, AccessInvStep, PTL DEF Spec
<1>2. AccessInv => LinesHaveOneHead
  BY DEF AccessInv
<1> QED BY <1>1, <1>2, PTL

\* However often answers are lost and requests repeated, a secret is shown at
\* most once, and only when its credential is stored (secret_delivery).
THEOREM SecretsAreShownOnce == Spec => []SecretIsShownOnce
<1>1. Spec => []AccessInv
  BY AccessInvInit, AccessInvStep, PTL DEF Spec
<1>2. AccessInv => SecretIsShownOnce
  BY DEF AccessInv
<1> QED BY <1>1, <1>2, PTL

-----------------------------------------------------------------------------
(* The views and the store.                                                *)

LEMMA OffersOfTenants ==
    ASSUME AccessTypeOK, NEW q \in Requests, q.action = "tenant.status"
    PROVE  Offered(q) <=> Accepts(q, now)
<1>1. /\ q.tenant \in Tenants /\ q.client = None /\ q.credential = None
      /\ q.status \in {"active", "suspended"}
  BY RequestForms
<1>2. Party(q)[1] = q.tenant
  BY <1>1 DEF Party
<1>3. tenants[q.tenant] \in {"absent", "active", "suspended"}
  BY <1>1 DEF AccessTypeOK
<1>4. Accepts(q, now) <=> tenants[q.tenant] \notin {"absent", q.status}
  BY <1>1, <1>2 DEF Accepts, TenantAllows, ClientAllows, CredentialAllows
<1>5. Offered(q) <=> /\ tenants[q.tenant] # "absent"
                     /\ q.status = IF tenants[q.tenant] = "active" THEN "suspended" ELSE "active"
  BY DEF Offered
<1> QED BY <1>1, <1>3, <1>4, <1>5

\* The exception: a client of a suspended tenant.
LEMMA OffersOfClients ==
    ASSUME AccessTypeOK, NEW q \in Requests, q.action = "client.status"
    PROVE  /\ Offered(q) => Accepts(q, now)
           /\ Accepts(q, now) =>
                Offered(q) \/ (q.status = "disabled" /\ tenants[q.tenant] = "suspended")
<1>1. /\ <<q.tenant, q.client>> \in Account /\ q.credential = None
      /\ q.status \in {"active", "disabled"}
  BY RequestForms
<1>2. Party(q) = <<q.tenant, q.client>> /\ Party(q)[1] = q.tenant
  BY <1>1 DEF Party
<1>3. tenants[q.tenant] \in {"absent", "active", "suspended"}
  BY <1>1 DEF AccessTypeOK, Account
<1>4. clients[Party(q)] \in {"absent", "active", "disabled"}
  BY <1>1, <1>2 DEF AccessTypeOK
<1>5. Accepts(q, now) <=>
        /\ tenants[q.tenant] = "active" \/ (tenants[q.tenant] # "absent" /\ q.status = "disabled")
        /\ clients[Party(q)] \notin {"absent", q.status}
  BY <1>1, <1>2 DEF Accepts, TenantAllows, ClientAllows, CredentialAllows
<1>6. Offered(q) <=> /\ tenants[q.tenant] = "active" /\ clients[Party(q)] # "absent"
                     /\ q.status = IF clients[Party(q)] = "active" THEN "disabled" ELSE "active"
  BY DEF Offered
<1> QED BY <1>1, <1>3, <1>4, <1>5, <1>6

LEMMA OffersOfCredentials ==
    ASSUME AccessTypeOK, NEW q \in Requests,
           q.action \in {"credential.rotate", "credential.revoke", "credential.acknowledge"},
           Stored(q.credential)
    PROVE  Offered(q) <=> Accepts(q, now)
<1> DEFINE row == credentials[q.credential]
<1>1. q.credential \in Credentials /\ q.credential # None
  BY RequestForms, AccessAssumption
<1>2. row \in Row /\ now \in Int
  BY <1>1, StoredIsARow, AccessAssumption DEF AccessTypeOK
<1>3. /\ row.status \in {"active", "revoked"} /\ row.acked \in BOOLEAN /\ row.expires \in Int
      /\ row.account \in Account
  BY <1>2 DEF Row
<1>4. Party(q) = row.account
  BY <1>1 DEF Party
<1>5. CredentialAllows(q, now) <=>
        /\ row.status = "active" /\ row.expires > now
        /\ q.action = "credential.rotate" => row.acked
        /\ q.action = "credential.acknowledge" => ~row.acked
  BY <1>1 DEF CredentialAllows
<1>6. TenantAllows(q) /\ ClientAllows(q) <=>
        \/ q.action = "credential.revoke"
        \/ tenants[row.account[1]] = "active" /\ clients[row.account] = "active"
  BY <1>4 DEF TenantAllows, ClientAllows
<1>7. Offered(q) <=> q.action \in CredentialOffers(q.credential)
  BY DEF Offered
<1>8. Offered(q) <=>
        /\ row.status = "active" /\ ~(row.expires <= now)
        /\ \/ q.action = "credential.revoke"
           \/ /\ tenants[row.account[1]] = "active" /\ clients[row.account] = "active"
              /\ q.action = IF row.acked THEN "credential.rotate" ELSE "credential.acknowledge"
  BY <1>7 DEF CredentialOffers
<1> HIDE DEF row
<1>9. row.expires > now <=> ~(row.expires <= now)
  BY <1>2, <1>3
<1> QED BY <1>3, <1>5, <1>6, <1>8, <1>9 DEF Accepts

\* An administrator is offered what the store accepts, and all of it but the
\* disabling of a client of a suspended tenant (tenantDto, clientDto,
\* credentialDto against the checks of the repository).
THEOREM OffersMeetTheStore == Spec => []OffersAreAccepted
<1>1. AccessTypeOK => OffersAreAccepted
  <2> SUFFICES ASSUME AccessTypeOK, NEW q \in Requests, q.action \in Offerable,
                      q.credential # None => Stored(q.credential)
               PROVE  /\ Offered(q) => Accepts(q, now)
                      /\ Accepts(q, now) =>
                           Offered(q) \/ (q.action = "client.status" /\ q.status = "disabled"
                                          /\ tenants[q.tenant] = "suspended")
    BY DEF OffersAreAccepted
  <2>1. CASE q.action = "tenant.status"
    BY <2>1, OffersOfTenants
  <2>2. CASE q.action = "client.status"
    BY <2>2, OffersOfClients
  <2>3. CASE q.action \in {"credential.rotate", "credential.revoke", "credential.acknowledge"}
    <3>1. q.credential # None
      BY <2>3, RequestForms, AccessAssumption
    <3> QED BY <2>3, <3>1, OffersOfCredentials
  <2> QED BY <2>1, <2>2, <2>3 DEF Offerable
<1> QED BY <1>1, AccessTypeCorrect, PTL

=============================================================================
