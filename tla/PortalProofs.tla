---------------------------- MODULE PortalProofs ------------------------------
(***************************************************************************)
(* The parts of the portal, for any people, tools, documents and bounds:   *)
(* members, grants, the tenant of an organization, the way from a case to  *)
(* its order, and a query for schedules.  Each is proved by itself.        *)
(***************************************************************************)
EXTENDS PortalMembers, PortalGrants, OrganizationBridge, FclQuotes, ScheduleQuery,
    FiniteSetTheorems, SequenceTheorems, TLAPS

-----------------------------------------------------------------------------
(***************************************************************************)
(* That an organization keeps an owner (PortalMembers).                    *)
(***************************************************************************)

Membership == [role : Roles \cup {"none"}, active : BOOLEAN]
Invited    == [status : {"none", "pending", "claimed", "revoked"}, person : Persons, role : Roles]
Owning     == [role |-> "owner", active |-> TRUE]

LEMMA MembersTyped ==
    MembersTypeOK <=>
        /\ membership \in [Persons -> Membership]
        /\ invitation \in [Invitations -> Invited]
        /\ application \in [status : {"none", "active", "suspended"}, owner : Persons]
        /\ creating \in [at : {"idle", "client", "record"}, actor : Persons, owner : Persons]
BY DEF MembersTypeOK, Membership, Invited

LEMMA InviteTyped ==
    ASSUME MembersTypeOK, NEW i \in Invitations, NEW to \in Invited, Invite(i, to)
    PROVE  MembersTypeOK'
<1>1. invitation' \in [Invitations -> Invited]
  BY MembersTyped DEF Invite
<1> QED BY <1>1 DEF Invite, MembersTypeOK, Invited

LEMMA MembersTypeInit == MembersInit => MembersTypeOK
<1> SUFFICES ASSUME MembersInit PROVE MembersTypeOK
  OBVIOUS
<1>1. NoMember \in Membership /\ Founder \in Persons
  BY MembersAssumption DEF NoMember, Membership
<1>2. NoInvite \in Invited /\ [NoInvite EXCEPT !.status = "pending"] \in Invited
  BY <1>1 DEF NoInvite, Invited, Roles
<1>3. PICK first \in Invitations :
         invitation = [i \in Invitations |->
                          IF i = first THEN [NoInvite EXCEPT !.status = "pending"] ELSE NoInvite]
  BY DEF MembersInit
<1>4. invitation \in [Invitations -> Invited]
  BY <1>2, <1>3
<1>5. NotCreating \in [at : {"idle", "client", "record"}, actor : Persons, owner : Persons]
  BY <1>1 DEF NotCreating
<1> QED BY <1>1, <1>4, <1>5, MembersTyped DEF MembersInit

LEMMA MembersTypeStep == MembersTypeOK /\ [MembersNext]_membersVars => MembersTypeOK'
<1> SUFFICES ASSUME MembersTypeOK, [MembersNext]_membersVars PROVE MembersTypeOK'
  OBVIOUS
<1>1. CASE UNCHANGED membersVars
  BY <1>1 DEF MembersTypeOK, membersVars
<1>2. CASE SetOrganization
  BY <1>2 DEF SetOrganization, MembersTypeOK
<1>3. CASE CreateClient
  BY <1>3 DEF CreateClient, MembersTypeOK
<1>4. CASE RecordApplication
  BY <1>4, MembersAssumption DEF RecordApplication, MembersTypeOK, NotCreating
<1>5. CASE EndApplication
  BY <1>5, MembersAssumption DEF EndApplication, MembersTypeOK, NotCreating
<1>6. ASSUME NEW a \in Persons, ChangeApplication(a) PROVE MembersTypeOK'
  BY <1>6 DEF ChangeApplication, MembersTypeOK
<1>7. ASSUME NEW a \in Persons, NEW i \in Invitations, RevokeInvitation(a, i) PROVE MembersTypeOK'
  <2>1. [invitation[i] EXCEPT !.status = "revoked"] \in Invited
    BY MembersTyped DEF Invited
  <2> QED BY <1>7, <2>1, InviteTyped DEF RevokeInvitation
<1>8. ASSUME NEW a \in Persons, NEW i \in Invitations, ClaimInvitation(a, i) PROVE MembersTypeOK'
  <2>1. invitation[i] \in Invited
    BY MembersTyped
  <2>2. [invitation[i] EXCEPT !.status = "claimed"] \in Invited
    BY <2>1 DEF Invited
  <2>3. invitation' \in [Invitations -> Invited]
    BY <1>8, <2>2, MembersTyped DEF ClaimInvitation
  <2>4. [role |-> invitation[i].role, active |-> TRUE] \in Membership
    BY <2>1 DEF Invited, Membership
  <2>5. membership' \in [Persons -> Membership]
    BY <1>8, <2>4, MembersTyped DEF ClaimInvitation
  <2> QED BY <1>8, <2>3, <2>5, MembersTyped DEF ClaimInvitation, MembersTypeOK, Membership, Invited
<1>9. ASSUME NEW a \in Persons, NEW i \in Invitations, NEW p \in Persons, NEW role \in Roles,
             InviteMember(a, i, p, role)
      PROVE  MembersTypeOK'
  <2>1. [status |-> "pending", person |-> p, role |-> role] \in Invited
    BY DEF Invited
  <2> QED BY <1>9, <2>1, InviteTyped DEF InviteMember
<1>10. ASSUME NEW a \in Persons, NEW p \in Persons, BeginApplication(a, p) PROVE MembersTypeOK'
  BY <1>10 DEF BeginApplication, MembersTypeOK
<1>11. ASSUME NEW a \in Persons, NEW p \in Persons, NEW to \in [role : Roles, active : BOOLEAN],
              ChangeMembership(a, p, to)
       PROVE  MembersTypeOK'
  <2>1. to \in Membership
    BY DEF Membership
  <2>2. membership' \in [Persons -> Membership]
    BY <1>11, <2>1, MembersTyped DEF ChangeMembership
  <2> QED BY <1>11, <2>2 DEF ChangeMembership, MembersTypeOK, Membership
<1> QED BY <1>1, <1>2, <1>3, <1>4, <1>5, <1>6, <1>7, <1>8, <1>9, <1>10, <1>11 DEF MembersNext

\* The states of an organization have the types stated.
THEOREM MembersAreTyped == MembersSpec => []MembersTypeOK
BY MembersTypeInit, MembersTypeStep, PTL DEF MembersSpec

-----------------------------------------------------------------------------
LEMMA OwningIsActive == MembersTypeOK => (HasOwner <=> ActiveOwners # {})
<1> SUFFICES ASSUME MembersTypeOK PROVE HasOwner <=> ActiveOwners # {}
  OBVIOUS
<1>1. \A p \in Persons : membership[p] = Owning <=> p \in ActiveOwners
  <2> SUFFICES ASSUME NEW p \in Persons PROVE membership[p] = Owning <=> p \in ActiveOwners
    OBVIOUS
  <2>1. membership[p] \in Membership
    BY MembersTyped
  <2>2. \A one \in Membership : one = Owning <=> one.role = "owner" /\ one.active
    BY DEF Membership, Owning
  <2> QED BY <2>1, <2>2 DEF ActiveOwners, Owners
<1>2. HasOwner <=> \E p \in Persons : membership[p] = Owning
  BY DEF HasOwner, Owning
<1> QED BY <1>1, <1>2 DEF ActiveOwners, Owners

LEMMA ChangeKeepsAnOwner ==
    ASSUME MembersTypeOK, MembersTypeOK', HasOwner, NEW a \in Persons, NEW p \in Persons,
           NEW to \in [role : Roles, active : BOOLEAN], ChangeMembership(a, p, to)
    PROVE  HasOwner'
<1>1. membership' = [membership EXCEPT ![p] = to] /\ membership \in [Persons -> Membership]
  BY MembersTyped DEF ChangeMembership
<1>2. ActiveOwners # {}
  BY OwningIsActive
<1>0. HasOwner' <=> (ActiveOwners # {})'
  <2>1. (MembersTypeOK => (HasOwner <=> ActiveOwners # {}))'
    BY OwningIsActive, PTL
  <2> QED BY <2>1
<1>3. CASE \E q \in ActiveOwners : q # p
  <2>1. ActiveOwners' # {}
    BY <1>1, <1>3 DEF ActiveOwners, Owners
  <2> QED BY <2>1, <1>0
<1>4. CASE ActiveOwners = {p}
  <2>1. Cardinality(ActiveOwners) = 1 /\ p \in Owners
    BY <1>4, FS_Singleton DEF ActiveOwners
  <2>2. to.role = "owner" /\ to.active
    BY <2>1 DEF ChangeMembership
  <2>3. p \in ActiveOwners'
    BY <1>1, <2>2 DEF ActiveOwners, Owners
  <2> QED BY <2>3, <1>0
<1> QED BY <1>2, <1>3, <1>4

\* The organization that has an active owner keeps one, with any number of
\* members and invitations (changeMembership, claimInvitation of the portal).
THEOREM OwnerStays == MembersSpec => OwnerRemains
<1>1. MembersTypeOK /\ MembersTypeOK' /\ [MembersNext]_membersVars => [HasOwner => HasOwner']_membersVars
  <2> SUFFICES ASSUME MembersTypeOK, MembersTypeOK', MembersNext, HasOwner PROVE HasOwner'
    BY DEF membersVars
  <2>1. CASE UNCHANGED membership
    BY <2>1 DEF HasOwner
  <2>2. ASSUME NEW a \in Persons, NEW i \in Invitations, ClaimInvitation(a, i) PROVE HasOwner'
    <3>1. PICK q \in Persons : membership[q] = Owning
      BY DEF HasOwner, Owning
    <3>2. q # a
      BY <2>2, <3>1 DEF ClaimInvitation, NoMember, Owning
    <3>3. membership'[q] = Owning
      BY <2>2, <3>1, <3>2, MembersTyped DEF ClaimInvitation
    <3> QED BY <3>3 DEF HasOwner, Owning
  <2>3. ASSUME NEW a \in Persons, NEW p \in Persons, NEW to \in [role : Roles, active : BOOLEAN],
               ChangeMembership(a, p, to)
        PROVE  HasOwner'
    BY <2>3, ChangeKeepsAnOwner
  <2>4. \/ UNCHANGED membership
        \/ \E a \in Persons, i \in Invitations : ClaimInvitation(a, i)
        \/ \E a \in Persons, p \in Persons, to \in [role : Roles, active : BOOLEAN] : ChangeMembership(a, p, to)
    BY DEF MembersNext, SetOrganization, CreateClient, RecordApplication, EndApplication, ChangeApplication,
           RevokeInvitation, InviteMember, Invite, BeginApplication
  <2> QED BY <2>1, <2>2, <2>3, <2>4
<1> QED BY <1>1, MembersAreTyped, PTL DEF MembersSpec, OwnerRemains

-----------------------------------------------------------------------------
(***************************************************************************)
(* That a call is let through with what was reviewed only (PortalGrants).  *)
(***************************************************************************)

Request == [state : {"draft", "submitted", "in_review", "needs_input", "approved", "rejected", "withdrawn"},
            caps : CapSets, version : 1..MaxRequest]
Queue   == [caps : SUBSET Tools, version : 0..MaxRequest]
Grant   == [state : {"none", "provisioning", "active", "suspended", "revoked"},
            caps : SUBSET Tools, version : Nat]
Machine == [at : {"idle", "state", "answer", "between", "admitted"}, tool : Tools, round : 0..MaxRounds]

\* What the queue shows of a version is what that version asks for, and no grant
\* is wider than what the approving reviewer had read.
GrantsInv ==
    /\ request \in Request /\ queue \in Queue /\ reviewed \subseteq Tools
    /\ grant \in Grant /\ machine \in Machine
    /\ machine.at \in {"state", "answer", "between"} => machine.round \in 1..MaxRounds
    /\ machine.at = "between" => machine.round # MaxRounds
    /\ provisioning \in Nat
    /\ queue.version <= request.version
    /\ queue.version = request.version => queue.caps = request.caps
    /\ grant.caps \subseteq reviewed

LEMMA RequestedMoves ==
    ASSUME GrantsInv, NEW from, NEW to \in Request, Requested(from, to)
    PROVE  /\ request' \in Request /\ request'.version = request.version + 1
           /\ request'.caps = to.caps /\ request.version \in Nat
           /\ queue.version < request'.version
<1>1. request.version + 1 \in 1..MaxRequest /\ request.version \in 1..MaxRequest /\ queue.version \in Nat
  BY GrantsAssumption DEF GrantsInv, Requested, Request, Queue
<1>2. request' = [to EXCEPT !.version = request.version + 1]
  BY DEF Requested
<1>3. request' \in Request /\ request'.version = request.version + 1 /\ request'.caps = to.caps
  BY <1>1, <1>2 DEF Request
<1> QED BY <1>1, <1>3 DEF GrantsInv

\* Without what the reviewer reads and what is granted, the request may change.
LEMMA RequestKeeps ==
    ASSUME GrantsInv, NEW from, NEW to \in Request, Requested(from, to), KeepAllBut,
           UNCHANGED <<queue, reviewed, grant>>
    PROVE  GrantsInv'
BY RequestedMoves DEF GrantsInv, KeepAllBut, Queue

LEMMA ProvisioningKeeps ==
    ASSUME GrantsInv, provisioning' \in Nat, NEW to \in Grant, to.caps \subseteq grant.caps, Granted(to)
    PROVE  GrantsInv'
<1>1. grant' = [to EXCEPT !.version = grant.version + 1] /\ grant.version + 1 \in Nat
  BY DEF Granted, GrantsInv, Grant
<1>2. grant' \in Grant /\ grant'.caps = to.caps
  BY <1>1 DEF Grant
<1> QED BY <1>2 DEF GrantsInv, Granted

LEMMA CallKeeps ==
    ASSUME GrantsInv, machine' \in Machine,
           machine'.at \in {"state", "answer", "between"} => machine'.round \in 1..MaxRounds,
           machine'.at = "between" => machine'.round # MaxRounds,
           UNCHANGED <<request, queue, reviewed, grant, provisioning, able, standing>>
    PROVE  GrantsInv'
BY DEF GrantsInv

LEMMA GrantsInitially == GrantsInit => GrantsInv
<1> SUFFICES ASSUME GrantsInit PROVE GrantsInv
  OBVIOUS
<1>1. (CHOOSE t \in Tools : TRUE) \in Tools
  BY GrantsAssumption
<1>2. NoCall \in Machine /\ NoCall.at = "idle"
  BY <1>1, GrantsAssumption DEF NoCall, Machine
<1>3. request \in Request /\ request.version = 1
  BY GrantsAssumption DEF GrantsInit, Request
<1>4. queue \in Queue /\ queue.version = 0 /\ grant \in Grant /\ grant.caps = {}
  BY GrantsAssumption DEF GrantsInit, Queue, NoGrant, Grant
<1> QED BY <1>2, <1>3, <1>4 DEF GrantsInit, GrantsInv

LEMMA DecideKeeps == ASSUME GrantsInv, DecideRequest PROVE GrantsInv'
<1>1. KeepAllBut /\ UNCHANGED queue /\ request \in Request /\ AsRead
  BY DEF DecideRequest, GrantsInv
<1>2. ASSUME NEW to \in {"rejected", "needs_input"},
             Requested({"submitted", "in_review"}, [request EXCEPT !.state = to]), UNCHANGED <<grant, reviewed>>
      PROVE  GrantsInv'
  <2>1. [request EXCEPT !.state = to] \in Request
    BY <1>1 DEF Request
  <2> QED BY <1>1, <1>2, <2>1, RequestKeeps
<1>3. ASSUME Requested({"submitted", "in_review"}, [request EXCEPT !.state = "approved"]),
             NEW caps \in CapSets, caps \subseteq request.caps, reviewed' = queue.caps,
             grant' = [state |-> "provisioning", caps |-> caps, version |-> 1]
      PROVE  GrantsInv'
  <2>1. [request EXCEPT !.state = "approved"] \in Request
    BY <1>1 DEF Request
  <2>2. request' \in Request /\ queue.version < request'.version /\ queue.version \in Nat /\ request'.version \in Nat
    BY <1>3, <2>1, RequestedMoves DEF GrantsInv, Queue, Request
  <2>3. queue.caps = request.caps /\ queue.caps \subseteq Tools
    BY <1>1 DEF AsRead, GrantsInv, Queue
  <2>4. grant' \in Grant /\ grant'.caps = caps
    BY <1>3, <2>3 DEF Grant
  <2> QED BY <1>1, <1>3, <2>2, <2>3, <2>4 DEF GrantsInv, KeepAllBut
<1> QED BY <1>1, <1>2, <1>3 DEF DecideRequest

LEMMA GrantsStep == ASSUME GrantsInv, [GrantsNext]_grantVars PROVE GrantsInv'
<1>0. request \in Request /\ grant \in Grant /\ machine \in Machine
  BY DEF GrantsInv
<1>1. CASE UNCHANGED grantVars
  BY <1>1 DEF GrantsInv, grantVars
<1>2. CASE UpdateRequest
  <2>1. \A caps \in CapSets : [request EXCEPT !.caps = caps] \in Request
    BY <1>0 DEF Request
  <2> QED BY <1>2, <2>1, RequestKeeps DEF UpdateRequest
<1>3. CASE Transition
  <2>1. \A state \in {"submitted", "withdrawn", "in_review"} : [request EXCEPT !.state = state] \in Request
    BY <1>0 DEF Request
  <2> QED BY <1>3, <2>1, RequestKeeps DEF Transition
<1>4. CASE ReadQueue
  BY <1>0, <1>4 DEF ReadQueue, KeepAllBut, GrantsInv, Request, Queue, CapSets
<1>5. CASE DecideRequest
  BY <1>5, DecideKeeps
<1>6. CASE BeginProvisioning
  BY <1>0, <1>6 DEF BeginProvisioning, GrantsInv, Grant
<1>7. CASE MarkGrantActive
  <2>1. [grant EXCEPT !.state = "active"] \in Grant /\ [grant EXCEPT !.state = "active"].caps = grant.caps
    BY <1>0 DEF Grant
  <2> QED BY <1>7, <2>1, ProvisioningKeeps DEF MarkGrantActive
<1>8. CASE EndProvisioning
  BY <1>8 DEF EndProvisioning, GrantsInv
<1>9. CASE ChangeGrantState
  <2>1. \A state \in {"suspended", "revoked"} :
           [grant EXCEPT !.state = state] \in Grant /\ [grant EXCEPT !.state = state].caps = grant.caps
    BY <1>0 DEF Grant
  <2>2. provisioning' \in Nat
    BY <1>9 DEF ChangeGrantState, GrantsInv
  <2> QED BY <1>9, <2>1, <2>2, ProvisioningKeeps DEF ChangeGrantState
<1>10. CASE ChangeGrantCapabilities
  <2>1. PICK caps \in CapSets : caps \subseteq grant.caps /\ Granted([grant EXCEPT !.caps = caps])
    BY <1>10 DEF ChangeGrantCapabilities
  <2>2. [grant EXCEPT !.caps = caps] \in Grant /\ [grant EXCEPT !.caps = caps].caps = caps
    BY <1>0 DEF Grant, CapSets
  <2>3. provisioning' \in Nat
    BY <1>10 DEF ChangeGrantCapabilities, GrantsInv
  <2> QED BY <2>1, <2>2, <2>3, ProvisioningKeeps
<1>11. ASSUME NEW tool \in Tools, BeginCall(tool) PROVE GrantsInv'
  <2>1. [at |-> "state", tool |-> tool, round |-> 1] \in Machine /\ 1 \in 1..MaxRounds
    BY GrantsAssumption DEF Machine
  <2> QED BY <1>11, <2>1, CallKeeps DEF BeginCall
<1>12. CASE ReadStanding
  <2>1. [machine EXCEPT !.at = "answer"] \in Machine /\ [machine EXCEPT !.at = "answer"].at = "answer"
        /\ [machine EXCEPT !.at = "answer"].round = machine.round
    BY <1>0 DEF Machine
  <2> QED BY <1>12, <2>1, CallKeeps DEF ReadStanding, Call, GrantsInv
<1>13. CASE Authorized
  <2>1. \A at \in {"admitted", "between"} : /\ [machine EXCEPT !.at = at] \in Machine
                                            /\ [machine EXCEPT !.at = at].at = at
                                            /\ [machine EXCEPT !.at = at].round = machine.round
    BY <1>0 DEF Machine
  <2>2. /\ machine.round = MaxRounds => machine' = [machine EXCEPT !.at = "admitted"]
        /\ machine.round # MaxRounds => machine' = [machine EXCEPT !.at = "between"]
        /\ UNCHANGED <<request, queue, reviewed, grant, provisioning, able, standing>>
        /\ machine.round \in 1..MaxRounds
    BY <1>13 DEF Authorized, Call, GrantsInv
  <2> QED BY <2>1, <2>2, CallKeeps
<1>14. CASE AuthorizeAgain
  <2>1. machine.round \in 1..MaxRounds /\ machine.round # MaxRounds
    BY <1>14 DEF AuthorizeAgain, GrantsInv
  <2>2. machine.round + 1 \in 1..MaxRounds /\ machine.round + 1 \in 0..MaxRounds
    BY <2>1, GrantsAssumption
  <2>3. machine' = [machine EXCEPT !.at = "state", !.round = machine.round + 1]
        /\ UNCHANGED <<request, queue, reviewed, grant, provisioning, able, standing>>
    BY <1>14 DEF AuthorizeAgain
  <2>4. machine' \in Machine /\ machine'.at = "state" /\ machine'.round = machine.round + 1
    BY <1>0, <2>2, <2>3 DEF Machine
  <2> QED BY <2>2, <2>3, <2>4, CallKeeps
<1>15. CASE EndCall
  <2>1. NoCall \in Machine /\ NoCall.at = "idle"
    BY <1>0, GrantsAssumption DEF NoCall, Machine
  <2> QED BY <1>15, <2>1, CallKeeps DEF EndCall
<1>16. CASE SwitchAble \/ SwitchStanding
  BY <1>16 DEF SwitchAble, SwitchStanding, GrantsInv
<1> QED BY <1>1, <1>2, <1>3, <1>4, <1>5, <1>6, <1>7, <1>8, <1>9, <1>10, <1>11, <1>12, <1>13, <1>14, <1>15, <1>16
        DEF GrantsNext

\* The invariant of requests and grants: what a reviewer decides about is what
\* is stored, and a grant is within it.
THEOREM GrantsInvariant == GrantsSpec => []GrantsInv
<1>1. GrantsInv /\ [GrantsNext]_grantVars => GrantsInv'
  BY GrantsStep
<1> QED BY <1>1, GrantsInitially, PTL DEF GrantsSpec

\* For any tools and any number of rounds: a call is let through only with a
\* tool the approving reviewer had read, and while its grant is in force
\* (decideRequest, requireMachineGrants, #requireCurrentMachineAuthority).
THEOREM AdmittedWithRight == GrantsSpec => AdmittedHaveRight
<1>1. GrantsInv /\ [GrantsNext]_grantVars =>
         [machine'.at = "admitted" /\ machine.at # "admitted" =>
             HasGrant(machine.tool) /\ machine.tool \in reviewed]_grantVars
  <2> SUFFICES ASSUME GrantsInv, GrantsNext, machine'.at = "admitted", machine.at # "admitted"
               PROVE  HasGrant(machine.tool) /\ machine.tool \in reviewed
    BY DEF grantVars
  <2>1. machine \in Machine
    BY DEF GrantsInv
  <2>2. CASE Authorized
    <3>1. HasGrant(machine.tool)
      BY <2>2 DEF Authorized, StillGranted
    <3> QED BY <3>1 DEF HasGrant, GrantsInv
  <2>3. CASE UNCHANGED machine
    BY <2>3
  <2>4. CASE \E tool \in Tools : BeginCall(tool)
    BY <2>4 DEF BeginCall
  <2>5. CASE ReadStanding
    BY <2>1, <2>5 DEF ReadStanding, Call, Machine
  <2>6. CASE AuthorizeAgain
    BY <2>1, <2>6 DEF AuthorizeAgain, Machine
  <2>7. CASE EndCall
    BY <2>7 DEF EndCall, NoCall
  <2>8. \/ Authorized \/ UNCHANGED machine \/ (\E tool \in Tools : BeginCall(tool)) \/ ReadStanding
        \/ AuthorizeAgain \/ EndCall
    BY DEF GrantsNext, UpdateRequest, Transition, ReadQueue, DecideRequest, KeepAllBut, BeginProvisioning,
           MarkGrantActive, Granted, EndProvisioning, ChangeGrantState, ChangeGrantCapabilities, SwitchAble,
           SwitchStanding
  <2> QED BY <2>2, <2>3, <2>4, <2>5, <2>6, <2>7, <2>8
<1> QED BY <1>1, GrantsInvariant, PTL DEF GrantsSpec, AdmittedHaveRight

-----------------------------------------------------------------------------
(***************************************************************************)
(* For any number of calls and of keys: an organization that disagrees     *)
(* with its tenant can be brought to agree by repeating a key.             *)
(*                                                                         *)
(* The argument counts.  Each store only ever changes to the other status, *)
(* so the keys it has done that activate are as many as those that         *)
(* suspend, and one more when it is active; and what the portal has        *)
(* recorded the tenant store has applied.  Where the two disagree there    *)
(* must be a key, of the kind the tenant's status asks for, that only the  *)
(* tenant store has done.                                                  *)
(***************************************************************************)

Ups(S)   == S \ Suspensions
Downs(S) == S \cap Suspensions

\* The keys of S, done one after another, lead to the status.
Balanced(S, status) ==
    Cardinality(Ups(S)) = Cardinality(Downs(S)) + (IF status = "active" THEN 1 ELSE 0)

\* A call that has passed the tenant store has its key applied there, and one
\* that changes the status has found the organization.
CallsFollow ==
    \A c \in Calls :
        /\ bridging[c].at \in {"readback", "record"} => bridging[c].key \in applied
        /\ bridging[c].key # CreateKey => organization # "none"

\* What a store has done when it has nothing yet.
StartsWithCreate ==
    /\ CreateKey \in recorded <=> organization # "none"
    /\ CreateKey \in applied <=> tenant # "none"
    /\ organization = "none" => applied \subseteq {CreateKey}
    /\ tenant = "none" => applied = {}

\* The inductive invariant.
BridgeInv ==
    /\ BridgeTypeOK /\ CallsFollow /\ StartsWithCreate
    /\ Balanced(recorded, organization)
    /\ ~direct => Balanced(applied, tenant)

-----------------------------------------------------------------------------
(* Counting keys.                                                          *)

LEMMA KeysAreFinite ==
    ASSUME NEW S, S \subseteq BridgeKeys
    PROVE  /\ IsFiniteSet(S) /\ IsFiniteSet(Ups(S)) /\ IsFiniteSet(Downs(S))
           /\ Cardinality(Ups(S)) \in Nat /\ Cardinality(Downs(S)) \in Nat
<1>1. IsFiniteSet(StatusKeys)
  BY BridgeAssumption, FS_Union DEF StatusKeys
<1>2. IsFiniteSet(StatusKeys \cup {CreateKey})
  BY <1>1, FS_AddElement
<1>3. BridgeKeys = StatusKeys \cup {CreateKey}
  BY DEF BridgeKeys
<1>4. IsFiniteSet(S)
  BY <1>2, <1>3, FS_Subset
<1>5. Ups(S) \in SUBSET S /\ Downs(S) \in SUBSET S
  BY DEF Ups, Downs
<1>6. IsFiniteSet(Ups(S)) /\ IsFiniteSet(Downs(S))
  BY <1>4, <1>5, FS_Subset
<1> QED BY <1>4, <1>6, FS_CardinalityType

\* A key that is new and asks for another status keeps the balance.
LEMMA NewKeyBalances ==
    ASSUME NEW S, S \subseteq BridgeKeys, NEW k \in BridgeKeys, k \notin S,
           NEW old \in Status, Balanced(S, old), Target(k) # old,
           old = "none" => k = CreateKey
    PROVE  Balanced(S \cup {k}, Target(k))
<1>1. /\ IsFiniteSet(Ups(S)) /\ IsFiniteSet(Downs(S))
      /\ Cardinality(Ups(S)) \in Nat /\ Cardinality(Downs(S)) \in Nat
  BY KeysAreFinite
<1>2. CASE k \in Suspensions
  <2>1. old = "active" /\ Target(k) = "suspended"
    BY <1>2, BridgeAssumption DEF Target, Status, StatusKeys
  <2>2. Ups(S \cup {k}) = Ups(S) /\ Downs(S \cup {k}) = Downs(S) \cup {k} /\ k \notin Downs(S)
    BY <1>2 DEF Ups, Downs
  <2>3. Cardinality(Downs(S) \cup {k}) = Cardinality(Downs(S)) + 1
    BY <1>1, <2>2, FS_AddElement
  <2>4. Cardinality(Ups(S)) = Cardinality(Downs(S)) + 1
    BY <2>1 DEF Balanced
  <2>5. Cardinality(Ups(S \cup {k})) = Cardinality(Downs(S \cup {k})) + 0
    BY <1>1, <2>2, <2>3, <2>4
  <2> QED BY <2>1, <2>5 DEF Balanced
<1>3. CASE k \notin Suspensions
  <2>1. old # "active" /\ Target(k) = "active"
    BY <1>3 DEF Target
  <2>2. Ups(S \cup {k}) = Ups(S) \cup {k} /\ Downs(S \cup {k}) = Downs(S) /\ k \notin Ups(S)
    BY <1>3 DEF Ups, Downs
  <2>3. Cardinality(Ups(S) \cup {k}) = Cardinality(Ups(S)) + 1
    BY <1>1, <2>2, FS_AddElement
  <2>4. Cardinality(Ups(S)) = Cardinality(Downs(S)) + 0
    BY <2>1 DEF Balanced
  <2>5. Cardinality(Ups(S \cup {k})) = Cardinality(Downs(S \cup {k})) + 1
    <3>1. Cardinality(Ups(S \cup {k})) = Cardinality(Ups(S)) + 1
      BY <2>2, <2>3
    <3>2. Cardinality(Downs(S \cup {k})) = Cardinality(Downs(S))
      BY <2>2
    <3> QED BY <1>1, <2>4, <3>1, <3>2
  <2> QED BY <2>1, <2>5 DEF Balanced
<1> QED BY <1>2, <1>3

-----------------------------------------------------------------------------
(* The invariant.                                                          *)

LEMMA BridgeInitInv == BridgeInit => BridgeInv
<1> SUFFICES ASSUME BridgeInit PROVE BridgeInv
  OBVIOUS
<1>1. BridgeTypeOK /\ CallsFollow /\ StartsWithCreate
  BY DEF BridgeInit, BridgeTypeOK, CallsFollow, StartsWithCreate, Status, NoBridging, BridgeKeys
<1>2. Ups({}) = {} /\ Downs({}) = {} /\ Cardinality({}) = 0
  BY FS_EmptySet DEF Ups, Downs
<1>3. Balanced({}, "none")
  BY <1>2 DEF Balanced
<1> QED BY <1>1, <1>3 DEF BridgeInit, BridgeInv

LEMMA BridgeNextInv == BridgeInv /\ [BridgeNext]_bridgeVars => BridgeInv'
<1> SUFFICES ASSUME BridgeInv, [BridgeNext]_bridgeVars PROVE BridgeInv'
  OBVIOUS
<1> USE DEF BridgeInv
<1>1. ASSUME NEW c \in Calls, BeginCreate(c) PROVE BridgeInv'
  <2>1. BridgeTypeOK' /\ CallsFollow'
    BY <1>1 DEF BeginCreate, BridgeTypeOK, CallsFollow, BridgeKeys
  <2> QED BY <1>1, <2>1 DEF BeginCreate, StartsWithCreate, Balanced
<1>2. ASSUME NEW c \in Calls, NEW k \in StatusKeys, BeginStatus(c, k) PROVE BridgeInv'
  <2>1. BridgeTypeOK' /\ CallsFollow'
    BY <1>2 DEF BeginStatus, BridgeTypeOK, CallsFollow, BridgeKeys
  <2> QED BY <1>2, <2>1 DEF BeginStatus, StartsWithCreate, Balanced
<1>3. ASSUME NEW c \in Calls, ChangeTenant(c) PROVE BridgeInv'
  <2> DEFINE k == bridging[c].key
  <2>1. k \in BridgeKeys /\ UNCHANGED <<organization, recorded, direct>> /\ Goes(c, "readback")
    BY <1>3 DEF ChangeTenant, BridgeTypeOK
  <2>2. /\ bridging' \in [Calls -> [at : {"idle", "tenant", "readback", "record"}, key : BridgeKeys]]
        /\ \A d \in Calls : d # c => bridging'[d] = bridging[d]
        /\ bridging'[c].key = k
    BY <2>1 DEF BridgeTypeOK, Goes
  <2>3. CASE k \in applied /\ UNCHANGED <<tenant, applied>>
    <3>1. BridgeTypeOK' /\ CallsFollow' /\ StartsWithCreate'
      BY <2>1, <2>2, <2>3 DEF BridgeTypeOK, CallsFollow, StartsWithCreate
    <3> QED BY <2>1, <2>3, <3>1 DEF Balanced
  <2>4. CASE /\ k \notin applied /\ TenantTakes(k)
             /\ tenant' = Target(k) /\ applied' = applied \cup {k}
    <3>1. k = CreateKey <=> tenant = "none"
      BY <2>4 DEF TenantTakes
    <3>2. Target(k) \in {"active", "suspended"} /\ Target(k) # tenant
      BY <2>4 DEF TenantTakes, Target
    <3>3. BridgeTypeOK' /\ CallsFollow'
      BY <2>1, <2>2, <2>4, <3>2 DEF BridgeTypeOK, CallsFollow, Status
    <3>4. StartsWithCreate'
      BY <2>1, <2>4, <3>1, <3>2 DEF StartsWithCreate, CallsFollow
    <3>5. ~direct => Balanced(applied', tenant')
      BY <2>1, <2>4, <3>1, <3>2, NewKeyBalances DEF BridgeTypeOK
    <3> QED BY <2>1, <3>3, <3>4, <3>5 DEF Balanced
  <2> QED BY <1>3, <2>3, <2>4 DEF ChangeTenant
<1>4. ASSUME NEW c \in Calls, ReadTenantBack(c) PROVE BridgeInv'
  <2>1. BridgeTypeOK' /\ CallsFollow'
    BY <1>4 DEF ReadTenantBack, Goes, BridgeTypeOK, CallsFollow
  <2> QED BY <1>4, <2>1 DEF ReadTenantBack, StartsWithCreate, Balanced
<1>5. ASSUME NEW c \in Calls, RecordOrganization(c) PROVE BridgeInv'
  <2> DEFINE k == bridging[c].key
  <2>1. /\ k \in applied /\ k \in BridgeKeys /\ EndsBridge(c)
        /\ UNCHANGED <<tenant, applied, direct>>
    BY <1>5 DEF RecordOrganization, BridgeTypeOK, CallsFollow
  <2>2. /\ bridging' \in [Calls -> [at : {"idle", "tenant", "readback", "record"}, key : BridgeKeys]]
        /\ \A d \in Calls : d # c => bridging'[d] = bridging[d]
        /\ bridging'[c] = NoBridging
    BY <2>1 DEF BridgeTypeOK, EndsBridge, NoBridging, BridgeKeys
  <2>3. CASE k \in recorded /\ UNCHANGED <<organization, recorded>>
    <3>1. BridgeTypeOK' /\ CallsFollow' /\ StartsWithCreate'
      BY <2>1, <2>2, <2>3 DEF BridgeTypeOK, CallsFollow, StartsWithCreate, NoBridging
    <3> QED BY <2>1, <2>3, <3>1 DEF Balanced
  <2>4. CASE /\ k \notin recorded /\ PortalTakes(k)
             /\ organization' = Target(k) /\ recorded' = recorded \cup {k}
    <3>1. Target(k) \in {"active", "suspended"} /\ CreateKey \notin Suspensions
      BY BridgeAssumption DEF Target, StatusKeys
    <3>2. /\ Target(k) # organization
          /\ organization = "none" <=> k = CreateKey
      BY <2>4, <3>1 DEF PortalTakes, Target
    <3>3. BridgeTypeOK' /\ CallsFollow'
      BY <2>1, <2>2, <2>4, <3>1 DEF BridgeTypeOK, CallsFollow, NoBridging, Status
    <3>4. StartsWithCreate'
      BY <2>1, <2>4, <3>1, <3>2 DEF StartsWithCreate
    <3>5. Balanced(recorded', organization')
      BY <2>1, <2>4, <3>2, NewKeyBalances DEF BridgeTypeOK
    <3> QED BY <2>1, <3>3, <3>4, <3>5 DEF Balanced
  <2> QED BY <1>5, <2>3, <2>4 DEF RecordOrganization
<1>6. ASSUME NEW c \in Calls, BridgeEnds(c) PROVE BridgeInv'
  <2>1. BridgeTypeOK' /\ CallsFollow'
    BY <1>6 DEF BridgeEnds, EndsBridge, NoBridging, BridgeTypeOK, CallsFollow, BridgeKeys
  <2> QED BY <1>6, <2>1 DEF BridgeEnds, StartsWithCreate, Balanced
<1>7. CASE SetTenantDirectly
  <2>1. BridgeTypeOK' /\ CallsFollow' /\ StartsWithCreate'
    BY <1>7 DEF SetTenantDirectly, BridgeTypeOK, CallsFollow, StartsWithCreate, Status
  <2> QED BY <1>7, <2>1 DEF SetTenantDirectly, Balanced
<1>8. CASE UNCHANGED bridgeVars
  BY <1>8 DEF bridgeVars, BridgeTypeOK, CallsFollow, StartsWithCreate, Balanced
<1> QED BY <1>1, <1>2, <1>3, <1>4, <1>5, <1>6, <1>7, <1>8 DEF BridgeNext

-----------------------------------------------------------------------------
(* The theorems.                                                           *)

\* Where the portal and the tenant store disagree, a key is done in only one
\* of them, and the tenant has the status it asks for.
LEMMA DisagreementHasItsKey == BridgeInv => HalfDoneCanResume
<1> SUFFICES ASSUME BridgeInv, ~direct, organization # tenant
             PROVE  \E k \in applied \ recorded : Target(k) = tenant /\ PortalTakes(k)
  BY DEF HalfDoneCanResume
<1> USE DEF BridgeInv
<1>1. CreateKey \notin Suspensions /\ Target(CreateKey) = "active"
  BY BridgeAssumption DEF Target, StatusKeys
<1>2. /\ recorded \subseteq BridgeKeys /\ applied \subseteq BridgeKeys
      /\ organization \in Status /\ tenant \in Status
  BY DEF BridgeTypeOK
<1>3. /\ IsFiniteSet(Ups(applied)) /\ IsFiniteSet(Downs(applied))
      /\ {Cardinality(Ups(applied)), Cardinality(Downs(applied)),
          Cardinality(Ups(recorded)), Cardinality(Downs(recorded))} \subseteq Nat
  BY <1>2, KeysAreFinite
<1>4. Ups(recorded) \in SUBSET Ups(applied) /\ Downs(recorded) \in SUBSET Downs(applied)
  BY DEF BridgeTypeOK, Ups, Downs
<1>5. /\ Cardinality(Ups(recorded)) <= Cardinality(Ups(applied))
      /\ Cardinality(Downs(recorded)) <= Cardinality(Downs(applied))
  BY <1>3, <1>4, FS_Subset
<1>6. CASE organization = "none"
  <2>1. CreateKey \in applied \ recorded /\ applied = {CreateKey}
    BY <1>2, <1>6 DEF StartsWithCreate
  <2>2. Ups(applied) = {CreateKey} /\ Downs(applied) = {}
    BY <1>1, <2>1 DEF Ups, Downs
  <2>3. Cardinality(Ups(applied)) = 1 /\ Cardinality(Downs(applied)) = 0
    BY <2>2, FS_Singleton, FS_EmptySet
  <2>4. tenant = "active"
    BY <2>3 DEF Balanced
  <2> QED BY <1>1, <1>6, <2>1, <2>4 DEF PortalTakes
<1>7. CASE organization # "none"
  <2>1. CreateKey \in recorded /\ tenant # "none"
    BY <1>7 DEF StartsWithCreate, BridgeTypeOK
  <2>2. CASE tenant = "suspended"
    <3>1. organization = "active"
      BY <1>2, <1>7, <2>2 DEF Status
    <3>2. /\ Cardinality(Ups(applied)) = Cardinality(Downs(applied))
          /\ Cardinality(Ups(recorded)) = Cardinality(Downs(recorded)) + 1
      BY <1>3, <2>2, <3>1 DEF Balanced
    <3>3. Downs(recorded) # Downs(applied)
      BY <1>3, <1>5, <3>2
    <3>4. PICK k \in Downs(applied) : k \notin Downs(recorded)
      BY <1>4, <3>3
    <3>5. k \in applied \ recorded /\ Target(k) = "suspended" /\ k # CreateKey
      BY <1>1, <3>4 DEF Downs, Target
    <3> QED BY <2>2, <3>1, <3>5 DEF PortalTakes
  <2>3. CASE tenant = "active"
    <3>1. organization = "suspended"
      BY <1>2, <1>7, <2>3 DEF Status
    <3>2. /\ Cardinality(Ups(applied)) = Cardinality(Downs(applied)) + 1
          /\ Cardinality(Ups(recorded)) = Cardinality(Downs(recorded))
      BY <1>3, <2>3, <3>1 DEF Balanced
    <3>3. Ups(recorded) # Ups(applied)
      BY <1>3, <1>5, <3>2
    <3>4. PICK k \in Ups(applied) : k \notin Ups(recorded)
      BY <1>4, <3>3
    <3>5. k \in applied \ recorded /\ Target(k) = "active" /\ k # CreateKey
      BY <2>1, <3>4 DEF Ups, Target
    <3> QED BY <2>3, <3>1, <3>5 DEF PortalTakes
  <2> QED BY <1>2, <2>1, <2>2, <2>3 DEF Status
<1> QED BY <1>6, <1>7

\* The invariant holds of every behaviour: recorded keys are applied ones, a
\* call that goes on has its key applied, and each store's keys alternate.
THEOREM BridgeInvariant == BridgeSpec => []BridgeInv
BY BridgeInitInv, BridgeNextInv, PTL DEF BridgeSpec

\* An organization that disagrees with its tenant is never stuck, unless an
\* administrator went past the bridge: a key can be repeated that completes it.
THEOREM HalfDoneIsResumable == BridgeSpec => []HalfDoneCanResume
BY BridgeInvariant, DisagreementHasItsKey, PTL

-----------------------------------------------------------------------------
(***************************************************************************)
(* From the quote to the order (FclQuotes).                                *)
(***************************************************************************)

CaseState == [status : OpenCase \cup {"closed"}, version : 1..MaxCase, supplement : 0..MaxCase,
              confirmed : 0..MaxCase, reviewed : 0..MaxCase]
Binding   == [case : 1..MaxCase, supplement : 0..MaxCase, release : 1..MaxRelease]
Document  == [state : Decision, quote : 1..MaxQuote, template : 1..MaxTemplate, until : Days]
Offer     == [document : Documents, version : 1..MaxDocument, case : 1..MaxCase]
Export    == [at : {"idle", "rendering", "answered"}, document : Documents \cup {NoDocument},
              version : 0..MaxDocument, bytes : Exports \cup {NoDocument}]

SettingsHold ==
    /\ inquiry \in CaseState /\ today \in Days
    /\ release \in 0..MaxRelease /\ lastRelease \in 0..MaxRelease /\ template \in 0..MaxTemplate

\* A review is of the latest revision, and says what that was made for.
DocumentsHold ==
    /\ quote \in Seq(Binding) /\ Len(quote) <= MaxQuote
    /\ documents \in [Documents -> Seq(Document)]
    /\ \A d \in Documents : Len(documents[d]) <= MaxDocument
    /\ \A d \in Documents : \A i \in 1..Len(documents[d]) : documents[d][i].quote <= Len(quote)
    /\ \A r \in reviews :
          /\ r.document \in Documents /\ documents[r.document] # <<>>
          /\ r.version = Len(documents[r.document])
          /\ r.on = quote[Latest(r.document).quote] /\ r.template = Latest(r.document).template

PdfsHold ==
    /\ exports \in [Exports -> Export]
    /\ \A e \in Exports : exports[e].at = "rendering" =>
          exports[e].document \in Documents /\ exports[e].bytes \in Exports
    /\ \A p \in pdfs : /\ p.document \in Documents /\ p.version \in 1..Len(documents[p.document])
                       /\ p.bytes \in Exports
    /\ OnePdfPerRevision

OrdersHold ==
    /\ handoffs \in Seq(Revision) /\ orders \in Seq(Revision)
    /\ offers \in Seq(Offer) /\ Len(offers) <= MaxOffer
    /\ customer \in [claimed : BOOLEAN, confirmed : 0..MaxOffer] /\ accepted \in 0..MaxOffer
    /\ AcceptedIsConfirmed

QuoteInv == SettingsHold /\ DocumentsHold /\ PdfsHold /\ OrdersHold

LEMMA QuoteTypes == QuoteInv => QuoteTypeOK
BY DEF QuoteInv, SettingsHold, DocumentsHold, OrdersHold, QuoteTypeOK, CaseState, Binding, Document

-----------------------------------------------------------------------------
(* What stays when its variables stay.                                     *)

LEMMA DocumentsStay == DocumentsHold /\ UNCHANGED <<quote, documents, reviews>> => DocumentsHold'
BY DEF DocumentsHold, Latest

LEMMA PdfsStay == PdfsHold /\ UNCHANGED <<documents, pdfs, exports>> => PdfsHold'
BY DEF PdfsHold, OnePdfPerRevision

LEMMA OrdersStay ==
    OrdersHold /\ UNCHANGED <<handoffs, offers, orders, accepted, customer>> => OrdersHold'
BY DEF OrdersHold, AcceptedIsConfirmed, LastOffer

-----------------------------------------------------------------------------
(* The case, the rates, the template and the clock.                        *)

LEMMA ChangeCaseKeeps ==
    ASSUME QuoteInv, NEW to \in CaseState, ChangeCase(to)
    PROVE  QuoteInv'
<1>1. SettingsHold'
  BY DEF QuoteInv, SettingsHold, ChangeCase
<1> QED BY <1>1, DocumentsStay, PdfsStay, OrdersStay DEF QuoteInv, ChangeCase

LEMMA CaseKeeps ==
    ASSUME QuoteInv,
           UpdateFclCaseStatus \/ SupplementFclCase \/ SupplementFclCaseAsStaff \/ ConfirmFclCase
    PROVE  QuoteInv'
<1>1. inquiry \in CaseState /\ inquiry.version < MaxCase
  BY DEF QuoteInv, SettingsHold, ChangeCase, UpdateFclCaseStatus, SupplementFclCase,
         SupplementFclCaseAsStaff, ConfirmFclCase
<1>2. inquiry.version + 1 \in 1..MaxCase /\ inquiry.version + 1 \in 0..MaxCase /\ inquiry.supplement \in 0..MaxCase
  BY <1>1, QuoteAssumption DEF CaseState
<1>3. \A status \in {"in_review", "needs_input", "closed"} : Changed(status) \in CaseState
  BY <1>1, <1>2 DEF Changed, CaseState, OpenCase
<1>4. [Changed("in_review") EXCEPT !.supplement = inquiry.version + 1] \in CaseState
  BY <1>2, <1>3 DEF CaseState
<1>5. [Changed("in_review") EXCEPT !.confirmed = inquiry.version + 1, !.reviewed = inquiry.supplement] \in CaseState
  <2>1. \A one \in CaseState, n \in 0..MaxCase, m \in 0..MaxCase :
           [one EXCEPT !.confirmed = n, !.reviewed = m] \in CaseState
    BY DEF CaseState
  <2> QED BY <1>2, <1>3, <2>1
<1> QED BY <1>3, <1>4, <1>5, ChangeCaseKeeps
        DEF UpdateFclCaseStatus, SupplementFclCase, SupplementFclCaseAsStaff, ConfirmFclCase

LEMMA SettingsKeep ==
    ASSUME QuoteInv, PublishRates \/ DisableRates \/ SaveFclConfig \/ QuoteTick
    PROVE  QuoteInv'
<1>1. SettingsHold'
  BY QuoteAssumption DEF QuoteInv, SettingsHold, PublishRates, DisableRates, SaveFclConfig, ChangeRates,
     QuoteTick, quoteVars, Days
<1>2. UNCHANGED <<quote, documents, reviews, pdfs, exports, handoffs, offers, orders, accepted, customer>>
  BY DEF PublishRates, DisableRates, SaveFclConfig, ChangeRates, QuoteTick, quoteVars
<1> QED BY <1>1, <1>2, DocumentsStay, PdfsStay, OrdersStay DEF QuoteInv

-----------------------------------------------------------------------------
(* The quote and its documents.                                            *)

LEMMA QuoteKeeps == ASSUME QuoteInv, SaveFclQuote PROVE QuoteInv'
<1>1. PICK binding \in Binding : quote' = Append(quote, binding)
  <2>1. CASE Matches /\ quote' = Append(quote, CaseBinding)
    <3>1. CaseBinding \in Binding
      BY <2>1 DEF Matches, CaseBinding, Binding, QuoteInv, SettingsHold, CaseState
    <3> QED BY <2>1, <3>1
  <2>2. CASE quote # <<>> /\ quote' = Append(quote, quote[Len(quote)])
    <3>1. quote[Len(quote)] \in Binding
      BY <2>2 DEF QuoteInv, DocumentsHold
    <3> QED BY <2>2, <3>1
  <2> QED BY <2>1, <2>2 DEF SaveFclQuote
<1>2. /\ quote' \in Seq(Binding) /\ Len(quote') = Len(quote) + 1 /\ Len(quote) \in Nat /\ MaxQuote \in Nat
      /\ \A i \in 1..Len(quote) : quote'[i] = quote[i]
  BY <1>1, QuoteAssumption DEF QuoteInv, DocumentsHold
<1>3. UNCHANGED <<documents, reviews, inquiry, release, lastRelease, template, today>> /\ Len(quote) < MaxQuote
  BY DEF SaveFclQuote
<1>4. \A d \in Documents : \A i \in 1..Len(documents[d]) : documents[d][i] \in Document /\ documents[d][i].quote \in 1..Len(quote)
  <2> TAKE d \in Documents
  <2> TAKE i \in 1..Len(documents[d])
  <2>1. documents[d] \in Seq(Document) /\ documents[d][i].quote <= Len(quote)
    BY DEF QuoteInv, DocumentsHold
  <2>2. documents[d][i] \in Document
    BY <2>1
  <2> QED BY <1>2, <2>1, <2>2 DEF Document
<1>5. DocumentsHold'
  <2>1. \A d \in Documents : \A i \in 1..Len(documents[d]) : documents[d][i].quote <= Len(quote')
    BY <1>2, <1>4
  <2>2. ASSUME NEW r \in reviews PROVE r.on = quote'[Latest(r.document).quote]
    <3>1. r.document \in Documents /\ documents[r.document] # <<>> /\ r.on = quote[Latest(r.document).quote]
      BY DEF QuoteInv, DocumentsHold
    <3>2. Len(documents[r.document]) \in 1..Len(documents[r.document])
      BY <3>1 DEF QuoteInv, DocumentsHold
    <3> QED BY <1>2, <1>4, <3>1, <3>2 DEF Latest
  <2> QED BY <1>2, <1>3, <2>1, <2>2 DEF QuoteInv, DocumentsHold, Latest
<1>6. SettingsHold'
  BY <1>3 DEF QuoteInv, SettingsHold
<1> QED BY <1>5, <1>6, PdfsStay, OrdersStay DEF QuoteInv, SaveFclQuote

LEMMA ReviseKeeps ==
    ASSUME QuoteInv, NEW d \in Documents, NEW revision \in Document, revision.quote <= Len(quote),
           Revise(d, revision)
    PROVE  QuoteInv'
<1>1. /\ documents \in [Documents -> Seq(Document)] /\ documents[d] \in Seq(Document)
      /\ Len(documents[d]) < MaxDocument /\ MaxDocument \in Nat /\ Len(documents[d]) \in Nat
      /\ documents' = [documents EXCEPT ![d] = Append(@, revision)]
      /\ reviews' = {r \in reviews : r.document # d}
      /\ UNCHANGED <<inquiry, release, lastRelease, template, quote, pdfs, exports, handoffs,
                     customer, offers, orders, accepted, restarts, today>>
  BY QuoteAssumption DEF QuoteInv, DocumentsHold, Revise
<1>2. /\ documents' \in [Documents -> Seq(Document)]
      /\ documents'[d] = Append(documents[d], revision)
      /\ \A c \in Documents \ {d} : documents'[c] = documents[c]
  BY <1>1
<1>3. /\ Len(documents'[d]) = Len(documents[d]) + 1
      /\ documents'[d][Len(documents[d]) + 1] = revision
      /\ \A i \in 1..Len(documents[d]) : documents'[d][i] = documents[d][i]
  BY <1>1, <1>2
<1>4. DocumentsHold'
  <2>1. \A c \in Documents : Len(documents'[c]) <= MaxDocument
    BY <1>1, <1>2, <1>3 DEF QuoteInv, DocumentsHold
  <2>2. ASSUME NEW c \in Documents, NEW i \in 1..Len(documents'[c]) PROVE documents'[c][i].quote <= Len(quote)
    <3>1. CASE c = d
      <4>1. i \in 1..Len(documents[d]) \/ i = Len(documents[d]) + 1
        BY <1>1, <1>3, <3>1
      <4> QED BY <1>3, <3>1, <4>1 DEF QuoteInv, DocumentsHold
    <3>2. CASE c # d
      BY <1>2, <3>2 DEF QuoteInv, DocumentsHold
    <3> QED BY <3>1, <3>2
  <2>3. ASSUME NEW r \in reviews'
        PROVE  /\ r.document \in Documents /\ documents'[r.document] # <<>>
               /\ r.version = Len(documents'[r.document])
               /\ r.on = quote[Latest(r.document).quote]' /\ r.template = Latest(r.document).template'
    <3>1. r \in reviews /\ r.document # d
      BY <1>1
    <3>2. r.document \in Documents /\ documents'[r.document] = documents[r.document]
      BY <1>2, <3>1 DEF QuoteInv, DocumentsHold
    <3> QED BY <1>1, <3>1, <3>2 DEF QuoteInv, DocumentsHold, Latest
  <2> QED BY <1>1, <1>2, <2>1, <2>2, <2>3 DEF QuoteInv, DocumentsHold, Latest
<1>5. PdfsHold'
  <2>1. ASSUME NEW p \in pdfs
        PROVE  /\ p.version \in 1..Len(documents'[p.document])
               /\ documents'[p.document][p.version] = documents[p.document][p.version]
    <3>1. p.document \in Documents /\ p.version \in 1..Len(documents[p.document])
      BY DEF QuoteInv, PdfsHold
    <3> QED BY <1>1, <1>2, <1>3, <3>1
  <2> QED BY <1>1, <2>1 DEF QuoteInv, PdfsHold, OnePdfPerRevision
<1>6. SettingsHold'
  BY <1>1 DEF QuoteInv, SettingsHold
<1> QED BY <1>1, <1>4, <1>5, <1>6, OrdersStay DEF QuoteInv

LEMMA LatestTyped ==
    ASSUME QuoteInv, NEW d \in Documents, Exists(d)
    PROVE  /\ Latest(d) \in Document /\ Latest(d).quote \in 1..Len(quote)
           /\ Len(documents[d]) \in 1..MaxDocument
<1>1. documents[d] \in Seq(Document) /\ documents[d] # <<>> /\ Len(documents[d]) <= MaxDocument
  BY DEF QuoteInv, DocumentsHold, Exists
<1>2. Len(documents[d]) \in 1..Len(documents[d]) /\ documents[d][Len(documents[d])] \in Document
  BY <1>1
<1>3. documents[d][Len(documents[d])].quote <= Len(quote)
  BY <1>2 DEF QuoteInv, DocumentsHold
<1> QED BY <1>1, <1>2, <1>3, QuoteAssumption DEF Latest, Document

LEMMA DocumentKeeps == ASSUME QuoteInv, NEW d \in Documents, SaveFclDocument(d) PROVE QuoteInv'
<1>1. PICK until \in today..LastDay :
         Revise(d, [state |-> "draft", quote |-> Len(quote), template |-> template, until |-> until])
  BY DEF SaveFclDocument
<1>2. Len(quote) \in 1..MaxQuote /\ template \in 1..MaxTemplate /\ until \in Days
  BY QuoteAssumption DEF SaveFclDocument, QuoteCurrent, QuoteInv, DocumentsHold, SettingsHold, Days
<1>3. [state |-> "draft", quote |-> Len(quote), template |-> template, until |-> until] \in Document
  BY <1>2 DEF Document, Decision
<1> QED BY <1>1, <1>2, <1>3, ReviseKeeps

LEMMA DecisionKeeps ==
    ASSUME QuoteInv, NEW d \in Documents, NEW state \in Decision, InState(d, "draft"),
           Revise(d, [Latest(d) EXCEPT !.state = state])
    PROVE  QuoteInv'
<1>1. Latest(d) \in Document /\ Latest(d).quote \in 1..Len(quote)
  BY LatestTyped DEF InState
<1>2. [Latest(d) EXCEPT !.state = state] \in Document /\ [Latest(d) EXCEPT !.state = state].quote = Latest(d).quote
  BY <1>1 DEF Document
<1>3. [Latest(d) EXCEPT !.state = state].quote <= Len(quote)
  BY <1>1, <1>2
<1> QED BY <1>2, <1>3, ReviseKeeps

LEMMA ReviewKeeps == ASSUME QuoteInv, NEW d \in Documents, ReviewFclDocument(d) PROVE QuoteInv'
<1> DEFINE review == [document |-> d, version |-> Len(documents[d]), ends |-> today + ReviewTtl,
                      on |-> CaseBinding, template |-> template]
<1>1. /\ reviews' = reviews \cup {review} /\ Exists(d) /\ DocumentCurrent(d)
      /\ UNCHANGED <<inquiry, release, lastRelease, template, quote, documents, pdfs, exports, handoffs,
                     customer, offers, orders, accepted, restarts, today>>
  BY DEF ReviewFclDocument, InState
<1>2. /\ review.document = d /\ review.version = Len(documents[d])
      /\ review.on = quote[Latest(d).quote] /\ review.template = Latest(d).template
      /\ documents[d] # <<>>
  BY <1>1 DEF DocumentCurrent, QuoteCurrent, Exists
<1> HIDE DEF review
<1>3. DocumentsHold'
  BY <1>1, <1>2 DEF QuoteInv, DocumentsHold, Latest
<1>4. SettingsHold'
  BY <1>1 DEF QuoteInv, SettingsHold
<1> QED BY <1>1, <1>3, <1>4, PdfsStay, OrdersStay DEF QuoteInv


-----------------------------------------------------------------------------
(* The PDFs.                                                               *)

LEMMA FormalIsTyped ==
    ASSUME QuoteInv, NEW d \in Documents, Formal(d)
    PROVE  /\ Len(documents[d]) \in 1..MaxDocument /\ Len(documents[d]) \in 1..Len(documents[d])
           /\ documents[d][Len(documents[d])].state = "approved"
           /\ Bound(d) \in Revision
<1>1. Exists(d) /\ Latest(d).state = "approved"
  BY DEF Formal, InState
<1>2. Len(documents[d]) \in 1..MaxDocument
  BY <1>1, LatestTyped
<1> QED BY <1>1, <1>2, QuoteAssumption DEF Latest, Bound, Revision

LEMMA AnswerKeeps ==
    ASSUME PdfsHold, UNCHANGED documents, pdfs \subseteq pdfs', NEW e \in Exports, NEW pdf \in pdfs',
           AnswerExport(e, pdf),
           \A d \in Documents : Len(documents[d]) \in 0..MaxDocument,
           \A p \in pdfs' : /\ p.document \in Documents /\ p.version \in 1..Len(documents[p.document])
                            /\ p.bytes \in Exports,
           \A p, q \in pdfs' : p.document = q.document /\ p.version = q.version => p = q,
           \A p \in pdfs' : p.shows = p.version /\ documents[p.document][p.version].state = "approved"
    PROVE  PdfsHold'
<1> DEFINE answer == [at |-> "answered", document |-> pdf.document, version |-> pdf.version, bytes |-> pdf.bytes]
<1>1. /\ answer.at = "answered" /\ answer.document = pdf.document /\ answer.version = pdf.version
      /\ answer.bytes = pdf.bytes
  OBVIOUS
<1>2. answer \in Export
  <2>1. pdf.document \in Documents /\ pdf.version \in 1..Len(documents[pdf.document]) /\ pdf.bytes \in Exports
    OBVIOUS
  <2>2. pdf.version \in 0..MaxDocument
    BY <2>1, QuoteAssumption
  <2> QED BY <2>1, <2>2 DEF Export
<1>3. exports' = [exports EXCEPT ![e] = answer]
  BY DEF AnswerExport
<1> HIDE DEF answer
<1>4. /\ exports' \in [Exports -> Export] /\ exports'[e] = answer
      /\ \A f \in Exports \ {e} : exports'[f] = exports[f]
  BY <1>2, <1>3 DEF PdfsHold
<1>5. \A f \in Exports : exports'[f].at = "rendering" =>
          exports'[f].document \in Documents /\ exports'[f].bytes \in Exports
  BY <1>1, <1>4 DEF PdfsHold
<1>6. \A f \in Exports : exports'[f].at = "answered" =>
          \E p \in pdfs' : /\ p.document = exports'[f].document /\ p.version = exports'[f].version
                           /\ p.bytes = exports'[f].bytes
  <2> SUFFICES ASSUME NEW f \in Exports, exports'[f].at = "answered"
               PROVE  \E p \in pdfs' : /\ p.document = exports'[f].document /\ p.version = exports'[f].version
                                       /\ p.bytes = exports'[f].bytes
    OBVIOUS
  <2>1. CASE f = e
    BY <1>1, <1>4, <2>1
  <2>2. CASE f # e
    BY <1>4, <2>2 DEF PdfsHold, OnePdfPerRevision
  <2> QED BY <2>1, <2>2
<1> QED BY <1>4, <1>5, <1>6 DEF PdfsHold, OnePdfPerRevision

LEMMA DocumentLengths == ASSUME QuoteInv PROVE \A d \in Documents : Len(documents[d]) \in 0..MaxDocument
<1>1. \A d \in Documents : documents[d] \in Seq(Document) /\ Len(documents[d]) <= MaxDocument
  BY DEF QuoteInv, DocumentsHold
<1> QED BY <1>1, QuoteAssumption

LEMMA StartKeeps == ASSUME QuoteInv, NEW e \in Exports, NEW d \in Documents, StartExport(e, d) PROVE QuoteInv'
<1>1. Formal(d)
  BY DEF StartExport
<1>2. UNCHANGED <<inquiry, release, lastRelease, template, quote, documents, reviews, pdfs, handoffs,
                  customer, offers, orders, accepted, restarts, today>>
  BY DEF StartExport
<1>3. PdfsHold /\ \A c \in Documents : Len(documents[c]) \in 0..MaxDocument
  BY DocumentLengths DEF QuoteInv
<1>4. PdfsHold'
  <2>1. ASSUME NEW pdf \in Pdf(d), AnswerExport(e, pdf) PROVE PdfsHold'
    <3>1. pdf \in pdfs
      BY DEF Pdf
    <3>2. /\ \A p \in pdfs : /\ p.document \in Documents /\ p.version \in 1..Len(documents[p.document])
                             /\ p.bytes \in Exports
          /\ \A p, q \in pdfs : p.document = q.document /\ p.version = q.version => p = q
          /\ \A p \in pdfs : p.shows = p.version /\ documents[p.document][p.version].state = "approved"
      BY <1>3 DEF PdfsHold, OnePdfPerRevision
    <3> QED BY <1>2, <1>3, <2>1, <3>1, <3>2, AnswerKeeps
  <2>2. ASSUME exports' = [exports EXCEPT ![e] = [at |-> "rendering", document |-> d,
                                                  version |-> Len(documents[d]), bytes |-> e]]
        PROVE  PdfsHold'
    <3> DEFINE begun == [at |-> "rendering", document |-> d, version |-> Len(documents[d]), bytes |-> e]
    <3>1. begun \in Export /\ begun.at = "rendering" /\ begun.document = d /\ begun.bytes = e
      BY <1>3 DEF Export
    <3>2. exports' = [exports EXCEPT ![e] = begun]
      BY <2>2
    <3> HIDE DEF begun
    <3>3. /\ exports' \in [Exports -> Export] /\ exports'[e] = begun
          /\ \A f \in Exports \ {e} : exports'[f] = exports[f]
      BY <1>3, <3>1, <3>2 DEF PdfsHold
    <3> QED BY <1>2, <1>3, <3>1, <3>3 DEF PdfsHold, OnePdfPerRevision
  <2> QED BY <2>1, <2>2 DEF StartExport
<1>5. SettingsHold'
  BY <1>2 DEF QuoteInv, SettingsHold
<1> QED BY <1>2, <1>4, <1>5, DocumentsStay, OrdersStay DEF QuoteInv

LEMMA FinishKeeps == ASSUME QuoteInv, NEW e \in Exports, FinishExport(e) PROVE QuoteInv'
<1> DEFINE d   == exports[e].document
           pdf == [document |-> d, version |-> Len(documents[d]), bytes |-> exports[e].bytes,
                   shows |-> exports[e].version]
<1>1. /\ exports[e].at = "rendering" /\ exports[e] \in Export
      /\ UNCHANGED <<inquiry, release, lastRelease, template, quote, documents, reviews, handoffs,
                     customer, offers, orders, accepted, restarts, today>>
  BY DEF FinishExport, QuoteInv, PdfsHold
<1>2. d \in Documents /\ exports[e].bytes \in Exports
  BY <1>1 DEF QuoteInv, PdfsHold
<1>3. PdfsHold /\ \A c \in Documents : Len(documents[c]) \in 0..MaxDocument
  BY DocumentLengths DEF QuoteInv
<1>4. PdfsHold'
  <2>1. CASE StillFormal(e) /\ Pdf(d) = {} /\ pdfs' = pdfs \cup {pdf} /\ AnswerExport(e, pdf)
    <3>1. Formal(d) /\ exports[e].version = Len(documents[d])
      BY <2>1 DEF StillFormal
    <3>2. /\ pdf.document = d /\ pdf.version = Len(documents[d]) /\ pdf.bytes \in Exports
          /\ pdf.shows = pdf.version /\ pdf.version \in 1..Len(documents[d])
          /\ documents[d][pdf.version].state = "approved"
      BY <1>2, <3>1, FormalIsTyped
    <3>3. \A p \in pdfs : p.document = d => p.version # Len(documents[d])
      BY <2>1 DEF Pdf
    <3> HIDE DEF pdf, d
    <3>4. /\ \A p \in pdfs' : /\ p.document \in Documents /\ p.version \in 1..Len(documents[p.document])
                              /\ p.bytes \in Exports
          /\ \A p, q \in pdfs' : p.document = q.document /\ p.version = q.version => p = q
          /\ \A p \in pdfs' : p.shows = p.version /\ documents[p.document][p.version].state = "approved"
      BY <1>2, <1>3, <2>1, <3>2, <3>3 DEF PdfsHold, OnePdfPerRevision
    <3>5. pdfs \subseteq pdfs' /\ pdf \in pdfs' /\ AnswerExport(e, pdf)
      BY <2>1
    <3> QED BY <1>1, <1>3, <3>4, <3>5, AnswerKeeps
  <2>2. ASSUME NEW stored \in Pdf(d), AnswerExport(e, stored), UNCHANGED pdfs PROVE PdfsHold'
    <3>1. stored \in pdfs
      BY DEF Pdf
    <3>2. /\ \A p \in pdfs : /\ p.document \in Documents /\ p.version \in 1..Len(documents[p.document])
                             /\ p.bytes \in Exports
          /\ \A p, q \in pdfs : p.document = q.document /\ p.version = q.version => p = q
          /\ \A p \in pdfs : p.shows = p.version /\ documents[p.document][p.version].state = "approved"
      BY <1>3 DEF PdfsHold, OnePdfPerRevision
    <3> QED BY <1>1, <1>3, <2>2, <3>1, <3>2, AnswerKeeps
  <2>3. CASE exports' = [exports EXCEPT ![e] = NoExport] /\ UNCHANGED pdfs
    <3>1. NoExport \in Export /\ NoExport.at = "idle"
      BY QuoteAssumption DEF NoExport, Export
    <3>2. /\ exports' \in [Exports -> Export] /\ exports'[e] = NoExport
          /\ \A f \in Exports \ {e} : exports'[f] = exports[f]
      BY <1>3, <2>3, <3>1 DEF PdfsHold
    <3> QED BY <1>1, <1>3, <2>3, <3>1, <3>2 DEF PdfsHold, OnePdfPerRevision
  <2> QED BY <2>1, <2>2, <2>3 DEF FinishExport
<1>5. SettingsHold'
  BY <1>1 DEF QuoteInv, SettingsHold
<1> QED BY <1>1, <1>4, <1>5, DocumentsStay, OrdersStay DEF QuoteInv

\* A stop of the process.
LEMMA LostKeeps ==
    ASSUME QuoteInv, Lost, UNCHANGED <<inquiry, release, lastRelease, template, quote, documents, pdfs, today>>
    PROVE  SettingsHold' /\ DocumentsHold' /\ PdfsHold'
<1>1. SettingsHold' /\ DocumentsHold'
  BY DEF QuoteInv, SettingsHold, DocumentsHold, Lost, Latest
<1>2. NoExport \in Export /\ NoExport.at = "idle"
  BY QuoteAssumption DEF NoExport, Export
<1>3. /\ exports' \in [Exports -> Export]
      /\ \A e \in Exports : exports'[e] = exports[e] \/ exports'[e] = NoExport
  BY <1>2 DEF QuoteInv, PdfsHold, Lost
<1>4. PdfsHold'
  BY <1>2, <1>3 DEF QuoteInv, PdfsHold, OnePdfPerRevision
<1> QED BY <1>1, <1>4

-----------------------------------------------------------------------------
(* Handoffs, offers and orders.                                            *)

LEMMA OrderAppends ==
    ASSUME OrdersHold, NEW d, Bound(d) \in Revision, Order(d)
    PROVE  /\ handoffs' \in Seq(Revision) /\ orders' \in Seq(Revision)
           /\ orders' = Append(orders, Bound(d)) /\ Len(orders') = Len(orders) + 1 /\ Len(orders) \in Nat
           /\ orders' # <<>> /\ orders'[Len(orders')] = Bound(d)
           /\ orders # <<>> => orders'[1] = orders[1]
           /\ orders = <<>> => orders'[1] = Bound(d)
           /\ \E i \in DOMAIN handoffs' : handoffs'[i] = Bound(d)
<1>1. /\ orders \in Seq(Revision) /\ handoffs \in Seq(Revision) /\ orders' = Append(orders, Bound(d))
      /\ handoffs' = IF Recorded(Bound(d)) THEN handoffs ELSE Append(handoffs, Bound(d))
  BY DEF OrdersHold, Order
<1>2. \E i \in DOMAIN handoffs' : handoffs'[i] = Bound(d)
  <2>1. CASE Recorded(Bound(d))
    BY <1>1, <2>1 DEF Recorded
  <2>2. CASE ~Recorded(Bound(d))
    BY <1>1, <2>2
  <2> QED BY <2>1, <2>2
<1> HIDE DEF Bound
<1> QED BY <1>1, <1>2

LEMMA HandoffKeeps == ASSUME QuoteInv, NEW d \in Documents, SaveFclHandoff(d) PROVE QuoteInv'
<1>1. /\ handoffs' = Append(handoffs, Bound(d)) /\ Formal(d)
      /\ UNCHANGED <<inquiry, release, lastRelease, template, quote, documents, reviews, pdfs, exports,
                     customer, offers, orders, accepted, restarts, today>>
  BY DEF SaveFclHandoff, Deliverable
<1>2. handoffs' \in Seq(Revision)
  BY <1>1, FormalIsTyped DEF QuoteInv, OrdersHold
<1>3. SettingsHold' /\ OrdersHold'
  BY <1>1, <1>2 DEF QuoteInv, SettingsHold, OrdersHold, AcceptedIsConfirmed, LastOffer
<1> QED BY <1>1, <1>3, DocumentsStay, PdfsStay DEF QuoteInv

LEMMA ClaimKeeps == ASSUME QuoteInv, ClaimInquiry \/ ConfirmOffer PROVE QuoteInv'
<1>1. UNCHANGED <<inquiry, release, lastRelease, template, quote, documents, reviews, pdfs, exports,
                  handoffs, offers, orders, accepted, restarts, today>>
  BY DEF ClaimInquiry, ConfirmOffer
<1>2. customer \in [claimed : BOOLEAN, confirmed : 0..MaxOffer] /\ Len(offers) \in 0..MaxOffer
  BY QuoteAssumption DEF QuoteInv, OrdersHold
<1>3. /\ customer' \in [claimed : BOOLEAN, confirmed : 0..MaxOffer]
      /\ customer'.confirmed = customer.confirmed \/ customer'.confirmed = Len(offers)
  BY <1>2 DEF ClaimInquiry, ConfirmOffer
<1>4. SettingsHold' /\ OrdersHold'
  BY <1>1, <1>2, <1>3 DEF QuoteInv, SettingsHold, OrdersHold, AcceptedIsConfirmed, LastOffer
<1> QED BY <1>1, <1>4, DocumentsStay, PdfsStay DEF QuoteInv

LEMMA OfferKeeps == ASSUME QuoteInv, NEW d \in Documents, PublishOffer(d) PROVE QuoteInv'
<1> DEFINE offer == [document |-> d, version |-> Len(documents[d]), case |-> inquiry.version]
<1>1. /\ offers' = Append(offers, offer) /\ Formal(d) /\ orders = <<>> /\ Len(offers) < MaxOffer
      /\ UNCHANGED <<inquiry, release, lastRelease, template, quote, documents, reviews, pdfs, exports,
                     handoffs, customer, orders, accepted, restarts, today>>
  BY DEF PublishOffer, Publishable, Deliverable
<1>2. offer \in Offer
  BY <1>1, FormalIsTyped DEF Offer, QuoteInv, SettingsHold, CaseState
<1> HIDE DEF offer
<1>3. offers' \in Seq(Offer) /\ Len(offers') <= MaxOffer
  BY <1>1, <1>2, QuoteAssumption DEF QuoteInv, OrdersHold
<1>4. accepted = 0
  BY <1>1 DEF QuoteInv, OrdersHold, AcceptedIsConfirmed
<1>5. SettingsHold' /\ OrdersHold'
  BY <1>1, <1>3, <1>4 DEF QuoteInv, SettingsHold, OrdersHold, AcceptedIsConfirmed
<1> QED BY <1>1, <1>5, DocumentsStay, PdfsStay DEF QuoteInv

\* The staff starts the order, or amends it.
LEMMA StaffOrderKeeps ==
    ASSUME QuoteInv, NEW d \in Documents, StartFclExecution(d) \/ AmendFclExecution(d)
    PROVE  QuoteInv'
<1>1. /\ Order(d) /\ Formal(d) /\ KeepRest /\ UNCHANGED <<reviews, exports, accepted, restarts>>
      /\ orders = <<>> \/ orders # <<>>
  BY DEF StartFclExecution, AmendFclExecution, Deliverable
<1>2. OrdersHold /\ Bound(d) \in Revision
  BY <1>1, FormalIsTyped DEF QuoteInv
<1>3. OrdersHold'
  BY <1>1, <1>2, OrderAppends DEF OrdersHold, AcceptedIsConfirmed, LastOffer, KeepRest
<1>4. SettingsHold'
  BY <1>1 DEF QuoteInv, SettingsHold, KeepRest
<1> QED BY <1>1, <1>3, <1>4, DocumentsStay, PdfsStay DEF QuoteInv, KeepRest

LEMMA AcceptKeeps == ASSUME QuoteInv, AcceptOffer PROVE QuoteInv'
<1> DEFINE d == LastOffer.document
<1>1. /\ OrdersHold /\ KeepRest /\ offers # <<>> /\ customer.confirmed = Len(offers)
      /\ offers \in Seq(Offer) /\ orders \in Seq(Revision) /\ Len(offers) \in 1..MaxOffer
  BY QuoteAssumption DEF AcceptOffer, OfferConfirmed, QuoteInv, OrdersHold
<1>2. LastOffer \in Offer /\ d \in Documents /\ MaxOffer \in Nat
  <2>1. Len(offers) \in 1..Len(offers)
    BY <1>1
  <2>2. LastOffer \in Offer
    BY <1>1, <2>1 DEF LastOffer
  <2> QED BY <2>2, QuoteAssumption DEF Offer
<1> HIDE DEF d
<1>3. /\ handoffs' \in Seq(Revision) /\ orders' \in Seq(Revision) /\ orders' # <<>>
      /\ orders'[1] = [document |-> LastOffer.document, version |-> LastOffer.version]
  <2>1. CASE orders = <<>> /\ Deliverable(d) /\ Len(documents[d]) = LastOffer.version /\ Order(d)
    <3>1. Bound(d) \in Revision /\ Bound(d) = [document |-> LastOffer.document, version |-> LastOffer.version]
      BY <1>2, <2>1, FormalIsTyped DEF Deliverable, Bound, d
    <3> QED BY <1>1, <2>1, <3>1, OrderAppends
  <2>2. CASE orders # <<>> /\ orders[1] = [document |-> d, version |-> LastOffer.version]
             /\ UNCHANGED <<orders, handoffs>>
    BY <1>1, <2>2 DEF OrdersHold, d
  <2> QED BY <2>1, <2>2 DEF AcceptOffer, d
<1>4. accepted' = Len(offers) \/ (accepted' = accepted /\ orders = <<>>)
  BY DEF AcceptOffer
<1>5. OrdersHold'
  <2>1. UNCHANGED <<offers, customer>>
    BY <1>1 DEF KeepRest
  <2>2. LastOffer' = LastOffer
    BY <2>1 DEF LastOffer
  <2>3. accepted' \in 0..MaxOffer
    BY <1>1, <1>2, <1>4 DEF OrdersHold
  <2>4. accepted' # 0 => accepted' = Len(offers)
    BY <1>1, <1>4 DEF OrdersHold, AcceptedIsConfirmed
  <2> QED BY <1>1, <1>3, <2>1, <2>2, <2>3, <2>4 DEF OrdersHold, AcceptedIsConfirmed
<1>6. SettingsHold' /\ DocumentsHold' /\ PdfsHold'
  <2>1. UNCHANGED <<inquiry, release, lastRelease, template, quote, documents, pdfs, today>>
    BY <1>1 DEF KeepRest
  <2>2. CASE UNCHANGED <<reviews, exports>>
    BY <2>1, <2>2, DocumentsStay, PdfsStay DEF QuoteInv, SettingsHold
  <2>3. CASE Lost
    BY <2>1, <2>3, LostKeeps
  <2> QED BY <2>2, <2>3 DEF AcceptOffer
<1> QED BY <1>5, <1>6 DEF QuoteInv

LEMMA RestartKeeps == ASSUME QuoteInv, Restart PROVE QuoteInv'
<1>1. /\ Lost
      /\ UNCHANGED <<inquiry, release, lastRelease, template, quote, documents, pdfs, today,
                     handoffs, offers, orders, accepted, customer>>
  BY DEF Restart, KeepRest
<1> QED BY <1>1, LostKeeps, OrdersStay DEF QuoteInv

-----------------------------------------------------------------------------
LEMMA QuoteInitially == QuoteInit => QuoteInv
<1> SUFFICES ASSUME QuoteInit PROVE QuoteInv
  OBVIOUS
<1>1. SettingsHold
  BY QuoteAssumption DEF QuoteInit, SettingsHold, CaseState, OpenCase, Days
<1>2. DocumentsHold
  BY QuoteAssumption DEF QuoteInit, DocumentsHold
<1>3. NoExport \in Export /\ NoExport.at = "idle"
  BY QuoteAssumption DEF NoExport, Export
<1>4. PdfsHold
  BY <1>3 DEF QuoteInit, PdfsHold, OnePdfPerRevision
<1>5. OrdersHold
  BY QuoteAssumption DEF QuoteInit, OrdersHold, AcceptedIsConfirmed
<1> QED BY <1>1, <1>2, <1>4, <1>5 DEF QuoteInv

LEMMA QuoteStep == QuoteInv /\ [QuoteNext]_<<quoteVars, today>> => QuoteInv'
<1> SUFFICES ASSUME QuoteInv, [QuoteNext]_<<quoteVars, today>> PROVE QuoteInv'
  OBVIOUS
<1>1. CASE UNCHANGED <<quoteVars, today>>
  <2>1. SettingsHold'
    BY <1>1 DEF QuoteInv, SettingsHold, quoteVars
  <2> QED BY <1>1, <2>1, DocumentsStay, PdfsStay, OrdersStay DEF QuoteInv, quoteVars
<1>2. CASE UpdateFclCaseStatus \/ SupplementFclCase \/ SupplementFclCaseAsStaff \/ ConfirmFclCase
  BY <1>2, CaseKeeps
<1>3. CASE PublishRates \/ DisableRates \/ SaveFclConfig \/ QuoteTick
  BY <1>3, SettingsKeep
<1>4. CASE SaveFclQuote
  BY <1>4, QuoteKeeps
<1>5. ASSUME NEW d \in Documents,
             \/ SaveFclDocument(d) \/ ReviewFclDocument(d) \/ ApproveFclDocument(d) \/ RejectFclDocument(d)
      PROVE  QuoteInv'
  BY <1>5, DocumentKeeps, ReviewKeeps, DecisionKeeps DEF ApproveFclDocument, RejectFclDocument, Decision
<1>6. ASSUME NEW d \in Documents,
             SaveFclHandoff(d) \/ PublishOffer(d) \/ StartFclExecution(d) \/ AmendFclExecution(d)
      PROVE  QuoteInv'
  BY <1>6, HandoffKeeps, OfferKeeps, StaffOrderKeeps
<1>7. ASSUME NEW e \in Exports, FinishExport(e) \/ \E d \in Documents : StartExport(e, d) PROVE QuoteInv'
  BY <1>7, FinishKeeps, StartKeeps
<1>8. CASE ClaimInquiry \/ ConfirmOffer
  BY <1>8, ClaimKeeps
<1>9. CASE AcceptOffer \/ Restart
  BY <1>9, AcceptKeeps, RestartKeeps
<1> QED BY <1>1, <1>2, <1>3, <1>4, <1>5, <1>6, <1>7, <1>8, <1>9 DEF QuoteNext

\* The invariant of a quote and its order: reviews are of what is stored, PDFs
\* show what was approved, and what was accepted was confirmed.
THEOREM QuoteInvariant == QuoteSpec => []QuoteInv
BY QuoteInitially, QuoteStep, PTL DEF QuoteSpec

\* Every revision has one PDF that shows it, and every export is answered with
\* it, whatever was stored while it was rendered (exportFclDocument, writeFclPdf).
THEOREM OnePdf == QuoteSpec => []OnePdfPerRevision
<1>1. QuoteInv => OnePdfPerRevision
  BY DEF QuoteInv, PdfsHold
<1> QED BY <1>1, QuoteInvariant, PTL

\* What is accepted is the last offer, the customer confirmed it, and the order
\* was first made of its document, with stops in between (accept of the
\* customer's portal).
THEOREM AcceptedAsConfirmed == QuoteSpec => []AcceptedIsConfirmed
<1>1. QuoteInv => AcceptedIsConfirmed
  BY DEF QuoteInv, OrdersHold
<1> QED BY <1>1, QuoteInvariant, PTL

LEMMA OrderIsCurrent ==
    ASSUME QuoteInv, NEW d, Deliverable(d), Bound(d) \in Revision, Order(d)
    PROVE  LET order == orders'[Len(orders')] IN
           /\ Formal(order.document) /\ order.version = Len(documents[order.document])
           /\ \E i \in DOMAIN handoffs' : handoffs'[i] = order
           /\ Pdf(order.document) # {}
<1>1. OrdersHold /\ Formal(d) /\ Pdf(d) # {}
  BY DEF QuoteInv, Deliverable
<1>2. Bound(d).document = d /\ Bound(d).version = Len(documents[d])
  BY DEF Bound
<1>3. /\ orders'[Len(orders')] = Bound(d)
      /\ \E i \in DOMAIN handoffs' : handoffs'[i] = Bound(d)
  BY <1>1, OrderAppends
<1> HIDE DEF Bound
<1> QED BY <1>1, <1>2, <1>3

\* An order and its amendments are made of what is current, with a PDF that is
\* handed off (startFclExecution, amendFclExecution, buildFclHandoffPayload).
THEOREM OrdersOfWhatIsCurrent == QuoteSpec => OrdersAreCurrent
<1>1. QuoteInv /\ [QuoteNext]_<<quoteVars, today>> =>
         [orders' # orders =>
             LET order == orders'[Len(orders')] IN
             /\ Formal(order.document) /\ order.version = Len(documents[order.document])
             /\ \E i \in DOMAIN handoffs' : handoffs'[i] = order
             /\ Pdf(order.document) # {}]_<<quoteVars, today>>
  <2> SUFFICES ASSUME QuoteInv, QuoteNext, orders' # orders
               PROVE  LET order == orders'[Len(orders')] IN
                      /\ Formal(order.document) /\ order.version = Len(documents[order.document])
                      /\ \E i \in DOMAIN handoffs' : handoffs'[i] = order
                      /\ Pdf(order.document) # {}
    BY DEF quoteVars
  <2>1. \/ \E d \in Documents : StartFclExecution(d) \/ AmendFclExecution(d)
        \/ AcceptOffer
    BY DEF QuoteNext, UpdateFclCaseStatus, SupplementFclCase, SupplementFclCaseAsStaff, ConfirmFclCase, ChangeCase,
           PublishRates, DisableRates, ChangeRates, SaveFclConfig, SaveFclQuote, SaveFclDocument, Revise,
           ReviewFclDocument, ApproveFclDocument, RejectFclDocument, SaveFclHandoff, PublishOffer, StartExport,
           FinishExport, ClaimInquiry, ConfirmOffer, Restart, QuoteTick, quoteVars
  <2>2. ASSUME NEW d \in Documents, StartFclExecution(d) \/ AmendFclExecution(d)
        PROVE  Deliverable(d) /\ Order(d) /\ Bound(d) \in Revision
    BY <2>2, FormalIsTyped DEF StartFclExecution, AmendFclExecution, Deliverable
  <2>3. ASSUME AcceptOffer
        PROVE  \E d \in Documents : Deliverable(d) /\ Order(d) /\ Bound(d) \in Revision
    <3>1. Deliverable(LastOffer.document) /\ Order(LastOffer.document) /\ offers # <<>>
      BY <2>3 DEF AcceptOffer, OfferConfirmed
    <3>2. offers \in Seq(Offer) /\ Len(offers) \in 1..Len(offers)
      BY <3>1 DEF QuoteInv, OrdersHold
    <3>3. LastOffer.document \in Documents
      <4>1. LastOffer \in Offer
        BY <3>2 DEF LastOffer
      <4> QED BY <4>1 DEF Offer
    <3> QED BY <3>1, <3>3, FormalIsTyped DEF Deliverable
  <2> QED BY <2>1, <2>2, <2>3, OrderIsCurrent
<1> QED BY <1>1, QuoteInvariant, PTL DEF QuoteSpec, OrdersAreCurrent

\* What the staff approves is what was reviewed: neither the case nor the rates
\* nor the template has changed since (reviewFclDocument, approveFclDocument).
THEOREM ApprovedWasReviewed == QuoteSpec => ApprovedAsReviewed
<1> DEFINE
      AsReviewed ==
        \A d \in Documents :
          documents'[d] # documents[d] /\ documents'[d][Len(documents'[d])].state = "approved" =>
            \E r \in reviews : /\ r.document = d /\ r.version = Len(documents[d])
                               /\ r.on = CaseBinding' /\ r.template = template'
<1>1. QuoteInv /\ [QuoteNext]_<<quoteVars, today>> => [AsReviewed]_<<quoteVars, today>>
  <2> SUFFICES ASSUME QuoteInv, QuoteNext, NEW d \in Documents, documents'[d] # documents[d],
                      documents'[d][Len(documents'[d])].state = "approved"
               PROVE  \E r \in reviews : /\ r.document = d /\ r.version = Len(documents[d])
                                          /\ r.on = CaseBinding' /\ r.template = template'
    BY DEF quoteVars
  <2>0. documents \in [Documents -> Seq(Document)]
    BY DEF QuoteInv, DocumentsHold
  <2>1. ASSUME NEW c \in Documents, NEW revision, Revise(c, revision)
        PROVE  c = d /\ revision.state = "approved"
    <3>1. documents' = [documents EXCEPT ![c] = Append(@, revision)]
      BY <2>1 DEF Revise
    <3>2. c = d
      BY <2>0, <3>1
    <3>3. documents'[d] = Append(documents[d], revision)
      BY <2>0, <3>1, <3>2
    <3>4. documents'[d][Len(documents'[d])] = revision
      BY <2>0, <3>3
    <3> QED BY <3>2, <3>4
  <2>2. PICK c \in Documents : SaveFclDocument(c) \/ ApproveFclDocument(c) \/ RejectFclDocument(c)
    BY DEF QuoteNext, UpdateFclCaseStatus, SupplementFclCase, SupplementFclCaseAsStaff, ConfirmFclCase, ChangeCase,
           PublishRates, DisableRates, ChangeRates, SaveFclConfig, SaveFclQuote, ReviewFclDocument, SaveFclHandoff,
           PublishOffer, StartFclExecution, AmendFclExecution, AcceptOffer, KeepRest, StartExport, FinishExport,
           ClaimInquiry, ConfirmOffer, Restart, QuoteTick, quoteVars
  <2>3. ~SaveFclDocument(c)
    <3> SUFFICES ASSUME SaveFclDocument(c) PROVE FALSE
      OBVIOUS
    <3>1. PICK until \in today..LastDay :
             Revise(c, [state |-> "draft", quote |-> Len(quote), template |-> template, until |-> until])
      BY DEF SaveFclDocument
    <3>2. [state |-> "draft", quote |-> Len(quote), template |-> template, until |-> until].state = "approved"
      BY <2>1, <3>1
    <3> QED BY <3>2
  <2>4. ~RejectFclDocument(c)
    <3> SUFFICES ASSUME RejectFclDocument(c) PROVE FALSE
      OBVIOUS
    <3>1. Latest(c) \in Document
      BY LatestTyped DEF RejectFclDocument, InState
    <3>2. [Latest(c) EXCEPT !.state = "rejected"].state = "rejected"
      BY <3>1 DEF Document
    <3> QED BY <2>1, <3>2 DEF RejectFclDocument
  <2>5. /\ c = d /\ Reviewed(d) # {} /\ DocumentCurrent(d) /\ UNCHANGED <<inquiry, release, template, quote>>
    BY <2>1, <2>2, <2>3, <2>4 DEF ApproveFclDocument, Revise
  <2>6. PICK r \in reviews : r.document = d /\ r.version = Len(documents[d])
    BY <2>5 DEF Reviewed
  <2>7. r.on = quote[Latest(d).quote] /\ r.template = Latest(d).template
    BY <2>6 DEF QuoteInv, DocumentsHold
  <2>8. quote[Latest(d).quote] = CaseBinding /\ Latest(d).template = template
    BY <2>5 DEF DocumentCurrent, QuoteCurrent
  <2> QED BY <2>5, <2>6, <2>7, <2>8 DEF CaseBinding
<1>2. ApprovedAsReviewed <=> [][AsReviewed]_<<quoteVars, today>>
  BY DEF ApprovedAsReviewed
<1> QED BY <1>1, <1>2, QuoteInvariant, PTL DEF QuoteSpec

-----------------------------------------------------------------------------
(***************************************************************************)
(* That a query answered as a success was read whole (ScheduleQuery).      *)
(***************************************************************************)

Asked   == [by : {"person", "machine"},
            at : {"asking", "denying", "racing", "grace", "failing", "reporting", "excusing", "answered", "thrown"},
            answer : {"none", "success", "partial", "blocked", "unavailable"}]
Working == [at : {"none", "start", "locate", "fetch", "store", "judge", "append", "settled"},
            from : 1..LastDeparture, verdict : {"none", "whole", "partial", "success", "error"}]

\* All days up to this one are in windows that were read.
Covered(last) == \A day \in 1..last : \E w \in coverage : day \in w.from..w.until

\* How far the operation has come, and what its verdict rests on.
OperationHolds ==
    /\ operation \in Working /\ coverage \subseteq Read /\ files \subseteq 1..LastDeparture
    /\ \A w \in coverage : w.from \in files
    /\ operation.at \in {"none", "start", "locate", "fetch", "store"} =>
          operation.verdict = "none" /\ Covered(operation.from - 1)
    /\ operation.verdict \in {"whole", "success"} => Covered(LastDeparture)
    /\ operation.verdict = "success" => Complete
    /\ operation.at \in {"append", "settled"} => operation.verdict \in {"partial", "success", "error"}
    /\ operation.at = "settled" /\ operation.verdict = "success" => "ok" \in rows

\* A call that was given a success was so before anything struck, and its
\* audit holds no error.
CallHolds ==
    /\ search \in Asked /\ stop \in {"none", "deadline", "caller"}
    /\ rows \subseteq {"started", "ok", "partial", "error", "success", "blocked", "unavailable"}
    /\ search.at = "asking" => operation.at = "none"
    /\ search.at \in {"asking", "denying", "racing", "grace", "failing"} =>
          search.answer = "none" /\ "error" \notin rows
    /\ search.at = "reporting" => search.answer # "none"
    /\ search.answer = "success" =>
          /\ operation.at = "settled" /\ operation.verdict = "success"
          /\ ~Stopped /\ "error" \notin rows
          /\ search.at = "answered" => "success" \in rows

ScheduleInv == OperationHolds /\ CallHolds

LEMMA ScheduleTypes == ScheduleInv => ScheduleTypeOK
BY DEF ScheduleInv, OperationHolds, CallHolds, ScheduleTypeOK, Asked, Working

-----------------------------------------------------------------------------
(* The operation.                                                          *)

\* The operation takes a step of its own while the call waits or has given up:
\* it is not settled yet, so no success was answered.
LEMMA CallStays ==
    ASSUME CallHolds, operation.at \notin {"none", "settled"}, KeepCall,
           rows' = rows \/ \E status \in {"started", "ok", "partial"} : rows' = rows \cup {status}
    PROVE  CallHolds'
<1>1. search' = search /\ stop' = stop /\ search.at # "asking" /\ search.answer # "success"
  BY DEF CallHolds, KeepCall
<1>2. /\ rows' \subseteq {"started", "ok", "partial", "error", "success", "blocked", "unavailable"}
      /\ "error" \in rows' => "error" \in rows
  BY DEF CallHolds
<1> QED BY <1>1, <1>2 DEF CallHolds

\* Nothing is read in this step.
LEMMA MovesOn ==
    ASSUME OperationHolds, operation.at # "settled", UNCHANGED coverage, files \subseteq files',
           files' \subseteq 1..LastDeparture, rows \subseteq rows', operation' \in Working,
           operation'.from = operation.from,
           \/ operation'.at = "settled" /\ operation'.verdict \in {"error", "partial"}
           \/ operation'.at = "judge" /\ operation'.verdict = "partial"
           \/ operation'.at = "append" /\ operation'.verdict = "partial"
           \/ /\ operation'.at \in {"start", "locate", "fetch", "store"}
              /\ operation.at \in {"none", "start", "locate", "fetch", "store"}
              /\ operation'.verdict = operation.verdict
    PROVE  OperationHolds'
BY DEF OperationHolds, Covered, Complete

LEMMA SettlesMoves ==
    ASSUME OperationHolds, NEW verdict \in {"partial", "success", "error"}, Settles(verdict)
    PROVE  /\ operation' \in Working /\ operation'.from = operation.from
           /\ operation'.at = "settled" /\ operation'.verdict = verdict
BY DEF OperationHolds, Settles, Working

LEMMA OperationAtMoves ==
    ASSUME OperationHolds, NEW at \in {"start", "locate", "fetch", "store"}, OperationAt(at)
    PROVE  /\ operation' \in Working /\ operation'.from = operation.from
           /\ operation'.at = at /\ operation'.verdict = operation.verdict
BY DEF OperationHolds, OperationAt, Working

LEMMA PartialMoves ==
    ASSUME OperationHolds, NEW at \in {"judge", "append"}, NEW verdict \in {"partial", "success"},
           operation' = [operation EXCEPT !.at = at, !.verdict = verdict]
    PROVE  /\ operation' \in Working /\ operation'.from = operation.from
           /\ operation'.at = at /\ operation'.verdict = verdict
BY DEF OperationHolds, Working

LEMMA WindowFailsKeeps ==
    ASSUME OperationHolds, operation.at # "settled", UNCHANGED coverage, files \subseteq files',
           files' \subseteq 1..LastDeparture, rows \subseteq rows', WindowFails
    PROVE  OperationHolds'
<1>1. CASE Settles("error")
  BY <1>1, SettlesMoves, MovesOn
<1>2. CASE operation' = [operation EXCEPT !.at = "judge", !.verdict = "partial"]
  BY <1>2, PartialMoves, MovesOn
<1> QED BY <1>1, <1>2 DEF WindowFails

LEMMA RecordStartKeeps == ASSUME ScheduleInv, RecordStart PROVE ScheduleInv'
<1>1. /\ operation.at = "start" /\ KeepCall /\ UNCHANGED <<coverage, files>>
      /\ rows' = rows \/ rows' = rows \cup {"started"}
      /\ Settles("error") \/ OperationAt("locate")
  BY DEF RecordStart, Audits
<1>2. OperationHolds'
  BY <1>1, SettlesMoves, OperationAtMoves, MovesOn DEF ScheduleInv, OperationHolds
<1> QED BY <1>1, <1>2, CallStays DEF ScheduleInv

LEMMA LocateKeeps == ASSUME ScheduleInv, Locate PROVE ScheduleInv'
<1>1. /\ operation.at = "locate" /\ KeepCall /\ UNCHANGED <<coverage, files, rows>>
      /\ Settles("error") \/ OperationAt("fetch")
  BY DEF Locate
<1>2. OperationHolds'
  BY <1>1, SettlesMoves, OperationAtMoves, MovesOn DEF ScheduleInv, OperationHolds
<1> QED BY <1>1, <1>2, CallStays DEF ScheduleInv

LEMMA FetchKeeps == ASSUME ScheduleInv, Fetch PROVE ScheduleInv'
<1>1. /\ operation.at = "fetch" /\ KeepCall /\ UNCHANGED <<coverage, files, rows>>
      /\ Settles("error") \/ OperationAt("store") \/ WindowFails
  BY DEF Fetch
<1>2. OperationHolds'
  BY <1>1, SettlesMoves, OperationAtMoves, WindowFailsKeeps, MovesOn DEF ScheduleInv, OperationHolds
<1> QED BY <1>1, <1>2, CallStays DEF ScheduleInv

LEMMA UntilIsDay ==
    ASSUME NEW from \in 1..LastDeparture
    PROVE  Until(from) \in 1..LastDeparture /\ from <= Until(from)
BY ScheduleAssumption DEF Until

\* A window is read: the days up to its last one are covered.
LEMMA WindowIsRead ==
    ASSUME OperationHolds, operation.at = "store", UNCHANGED rows, NEW whole \in BOOLEAN,
           files' = files \cup {operation.from},
           coverage' = coverage \cup
               {[from |-> operation.from, until |-> Until(operation.from), whole |-> whole]},
           operation' = IF Until(operation.from) < LastDeparture
                        THEN [operation EXCEPT !.at = "fetch", !.from = Until(operation.from) + 1]
                        ELSE [operation EXCEPT !.at = "judge", !.verdict = "whole"]
    PROVE  OperationHolds'
<1> DEFINE from == operation.from
           read == [from |-> from, until |-> Until(from), whole |-> whole]
<1>1. from \in 1..LastDeparture /\ operation \in Working /\ operation.verdict = "none"
  BY DEF OperationHolds, Working
<1>2. Until(from) \in 1..LastDeparture /\ from <= Until(from)
  BY <1>1, UntilIsDay
<1>3. read \in Read /\ read.from = from /\ read.until = Until(from)
  BY <1>1, <1>2 DEF Read
<1>4. coverage' = coverage \cup {read}
  OBVIOUS
<1>5. /\ coverage' \subseteq Read /\ files' \subseteq 1..LastDeparture
      /\ \A w \in coverage' : w.from \in files'
  BY <1>1, <1>3, <1>4 DEF OperationHolds
<1>6. ASSUME NEW day \in 1..Until(from) PROVE \E w \in coverage' : day \in w.from..w.until
  <2>1. CASE day < from
    <3>1. day \in 1..(from - 1)
      BY <1>1, <1>2, <2>1
    <3> QED BY <1>4, <3>1 DEF OperationHolds, Covered
  <2>2. CASE day >= from
    <3>1. day \in read.from..read.until
      BY <1>1, <1>2, <1>3, <2>2
    <3> QED BY <1>4, <3>1
  <2> QED BY <1>1, <1>2, <2>1, <2>2
<1> HIDE DEF read
<1>7. CASE Until(from) < LastDeparture
  <2>1. operation' = [operation EXCEPT !.at = "fetch", !.from = Until(from) + 1]
    BY <1>7
  <2>2. Until(from) + 1 \in 1..LastDeparture /\ (Until(from) + 1) - 1 = Until(from)
    BY <1>2, <1>7, ScheduleAssumption
  <2>3. /\ operation' \in Working /\ operation'.at = "fetch" /\ operation'.from = Until(from) + 1
        /\ operation'.verdict = "none"
    BY <1>1, <2>1, <2>2 DEF Working
  <2>4. Covered(operation.from - 1)'
    BY <1>6, <2>2, <2>3 DEF Covered
  <2> QED BY <1>5, <2>3, <2>4 DEF OperationHolds
<1>8. CASE ~(Until(from) < LastDeparture)
  <2>1. operation' = [operation EXCEPT !.at = "judge", !.verdict = "whole"] /\ Until(from) = LastDeparture
    BY <1>2, <1>8, ScheduleAssumption
  <2>2. operation' \in Working /\ operation'.at = "judge" /\ operation'.verdict = "whole"
    BY <1>1, <2>1 DEF Working
  <2>3. Covered(LastDeparture)'
    BY <1>6, <2>1 DEF Covered
  <2> QED BY <1>5, <2>2, <2>3 DEF OperationHolds
<1> QED BY <1>7, <1>8

LEMMA StoreKeeps == ASSUME ScheduleInv, Store PROVE ScheduleInv'
<1>1. operation.at = "store" /\ KeepCall /\ UNCHANGED rows /\ OperationHolds /\ CallHolds
  BY DEF Store, ScheduleInv
<1>2. operation.from \in 1..LastDeparture /\ files \subseteq 1..LastDeparture
  BY <1>1 DEF OperationHolds, Working
<1>3. CASE WindowFails /\ UNCHANGED coverage /\ (UNCHANGED files \/ files' = files \cup {operation.from})
  <2>1. OperationHolds'
    BY <1>1, <1>2, <1>3, WindowFailsKeeps
  <2> QED BY <1>1, <2>1, CallStays DEF ScheduleInv
<1>4. ASSUME files' = files \cup {operation.from}, NEW whole \in BOOLEAN,
             coverage' = coverage \cup
                 {[from |-> operation.from, until |-> Until(operation.from), whole |-> whole]},
             operation' = IF Until(operation.from) < LastDeparture
                          THEN [operation EXCEPT !.at = "fetch", !.from = Until(operation.from) + 1]
                          ELSE [operation EXCEPT !.at = "judge", !.verdict = "whole"]
      PROVE  ScheduleInv'
  <2>1. OperationHolds'
    BY <1>1, <1>4, WindowIsRead
  <2> QED BY <1>1, <2>1, CallStays DEF ScheduleInv
<1> QED BY <1>3, <1>4 DEF Store

LEMMA JudgeKeeps == ASSUME ScheduleInv, Judge PROVE ScheduleInv'
<1>1. operation.at = "judge" /\ KeepCall /\ UNCHANGED <<coverage, files, rows>> /\ OperationHolds /\ CallHolds
  BY DEF Judge, ScheduleInv
<1>2. OperationHolds'
  <2>1. CASE Settles("error")
    BY <1>1, <2>1, SettlesMoves, MovesOn DEF OperationHolds
  <2>2. CASE operation' = [operation EXCEPT !.at = "append", !.verdict = "partial"]
    BY <1>1, <2>2, PartialMoves, MovesOn DEF OperationHolds
  <2>3. CASE /\ operation.verdict = "whole" /\ Complete
             /\ operation' = [operation EXCEPT !.at = "append", !.verdict = "success"]
    <3>1. operation' \in Working /\ operation'.at = "append" /\ operation'.verdict = "success"
      BY <1>1, <2>3, PartialMoves
    <3>2. Covered(LastDeparture)' /\ Complete'
      BY <1>1, <2>3 DEF OperationHolds, Covered, Complete
    <3> QED BY <1>1, <3>1, <3>2 DEF OperationHolds
  <2> QED BY <2>1, <2>2, <2>3 DEF Judge
<1> QED BY <1>1, <1>2, CallStays DEF ScheduleInv

LEMMA VerdictKeeps == ASSUME ScheduleInv, RecordVerdict PROVE ScheduleInv'
<1>1. operation.at = "append" /\ KeepCall /\ UNCHANGED <<coverage, files>> /\ OperationHolds /\ CallHolds
  BY DEF RecordVerdict, ScheduleInv
<1>2. rows' = rows \/ \E status \in {"ok", "partial"} : rows' = rows \cup {status}
  BY DEF RecordVerdict, Audits
<1>3. OperationHolds'
  <2>1. CASE Settles("error")
    BY <1>1, <1>2, <2>1, SettlesMoves, MovesOn DEF OperationHolds
  <2>2. CASE Settles(operation.verdict) /\ operation.verdict # "success"
    <3>1. /\ operation' = [operation EXCEPT !.at = "settled", !.verdict = operation.verdict]
          /\ operation \in Working
      BY <1>1, <2>2 DEF Settles, OperationHolds
    <3>2. /\ operation' \in Working /\ operation'.at = "settled" /\ operation'.verdict = operation.verdict
      BY <3>1 DEF Working
    <3> QED BY <1>1, <1>2, <2>2, <3>2 DEF OperationHolds, Covered, Complete
  <2>3. CASE operation.verdict = "success" /\ Settles("success") /\ rows' = rows \cup {"ok"}
    <3>1. operation' \in Working /\ operation'.at = "settled" /\ operation'.verdict = "success"
      BY <1>1, <2>3, SettlesMoves
    <3> QED BY <1>1, <2>3, <3>1 DEF OperationHolds, Covered, Complete
  <2> QED BY <2>1, <2>2, <2>3 DEF RecordVerdict, Audits
<1> QED BY <1>1, <1>2, <1>3, CallStays DEF ScheduleInv

-----------------------------------------------------------------------------
(* The call.                                                               *)

LEMMA OperationStays ==
    ASSUME OperationHolds, KeepOperation, rows \subseteq rows'
    PROVE  OperationHolds'
BY DEF OperationHolds, KeepOperation, Covered, Complete

LEMMA CallMoves ==
    ASSUME search \in Asked, NEW at \in {"denying", "racing", "grace", "failing", "reporting", "excusing", "thrown", "answered"},
           search' = [search EXCEPT !.at = at]
    PROVE  search' \in Asked /\ search'.at = at /\ search'.answer = search.answer
BY DEF Asked

LEMMA AnswerMoves ==
    ASSUME search \in Asked, NEW at \in {"reporting", "answered"},
           NEW answer \in {"success", "partial", "blocked", "unavailable"},
           search' = [search EXCEPT !.at = at, !.answer = answer]
    PROVE  search' \in Asked /\ search'.at = at /\ search'.answer = answer
BY DEF Asked

LEMMA BreaksMoves ==
    ASSUME search \in Asked, Breaks
    PROVE  search' \in Asked /\ search'.at \in {"excusing", "thrown"} /\ search'.answer = search.answer
BY CallMoves DEF Breaks, CallAt, Throws

LEMMA CallStep ==
    ASSUME ScheduleInv,
           Ask \/ Deny \/ Strike \/ TakeResult \/ Overtaken \/ GraceElapses \/ Fail \/ Report \/ Excuse
    PROVE  ScheduleInv'
<1>0. OperationHolds /\ CallHolds /\ search \in Asked /\ operation \in Working
  BY DEF ScheduleInv, CallHolds, OperationHolds
<1>1. CASE Ask
  <2>1. operation.at = "none" /\ search.at = "asking" /\ UNCHANGED <<coverage, files, rows, stop>>
    BY <1>0, <1>1 DEF Ask, CallHolds
  <2>2. CASE UNCHANGED operation /\ \E at \in {"denying", "failing"} : CallAt(at)
    <3>1. OperationHolds'
      BY <1>0, <2>1, <2>2, OperationStays DEF KeepOperation
    <3>2. search' \in Asked /\ search'.at \in {"denying", "failing"} /\ search'.answer = search.answer
      BY <1>0, <2>2, CallMoves DEF CallAt
    <3>3. CallHolds'
      BY <1>0, <2>1, <3>2 DEF CallHolds
    <3> QED BY <3>1, <3>3 DEF ScheduleInv
  <2>3. CASE CallAt("racing") /\ OperationAt("start")
    <3>1. OperationHolds'
      BY <1>0, <2>1, <2>3, OperationAtMoves, MovesOn DEF OperationHolds
    <3>2. search' \in Asked /\ search'.at = "racing" /\ search'.answer = search.answer
      BY <1>0, <2>3, CallMoves DEF CallAt
    <3>3. CallHolds'
      BY <1>0, <2>1, <3>2 DEF CallHolds
    <3> QED BY <3>1, <3>3 DEF ScheduleInv
  <2> QED BY <1>1, <2>2, <2>3 DEF Ask
<1>2. CASE Deny
  <2>1. /\ search.at = "denying" /\ search.answer = "none" /\ KeepOperation /\ UNCHANGED stop
        /\ rows' = rows \/ rows' = rows \cup {"blocked"}
    BY <1>0, <1>2 DEF Deny, Audits, CallHolds
  <2>2. OperationHolds'
    BY <1>0, <2>1, OperationStays
  <2>3. /\ search' \in Asked /\ search'.at \in {"answered", "thrown", "excusing"}
        /\ search'.answer \in {"none", "blocked"}
    BY <1>0, <1>2, <2>1, AnswerMoves, CallMoves, BreaksMoves DEF Deny, Throws, Answers
  <2>4. CallHolds'
    BY <1>0, <2>1, <2>3 DEF CallHolds
  <2> QED BY <2>2, <2>4 DEF ScheduleInv
<1>3. CASE Strike
  <2>1. /\ search.at \in {"racing", "asking"} /\ KeepOperation /\ UNCHANGED <<search, rows>>
        /\ stop' \in {"deadline", "caller"}
    BY <1>3 DEF Strike
  <2> QED BY <1>0, <2>1, OperationStays DEF CallHolds, KeepOperation, ScheduleInv
<1>4. CASE TakeResult
  <2>1. search.at \in {"racing", "grace"} /\ operation.at = "settled" /\ KeepOperation /\ UNCHANGED <<rows, stop>>
    BY <1>4 DEF TakeResult, OperationOver
  <2>2. OperationHolds'
    BY <1>0, <2>1, OperationStays
  <2>3. CASE ValueCounts /\ search' = [search EXCEPT !.at = "reporting", !.answer = operation.verdict]
    <3>1. operation.verdict \in {"partial", "success"}
      BY <1>0, <2>1, <2>3 DEF ValueCounts, OperationHolds, Working
    <3>2. search' \in Asked /\ search'.at = "reporting" /\ search'.answer = operation.verdict
      BY <1>0, <2>3, <3>1, AnswerMoves
    <3>3. CallHolds'
      BY <1>0, <2>1, <2>3, <3>1, <3>2 DEF CallHolds, ValueCounts, Stopped, KeepOperation
    <3> QED BY <2>2, <3>3 DEF ScheduleInv
  <2>4. CASE search' = [search EXCEPT !.at = "failing"]
    <3>1. search' \in Asked /\ search'.at = "failing" /\ search'.answer = search.answer
      BY <1>0, <2>4, CallMoves
    <3>2. CallHolds'
      BY <1>0, <2>1, <3>1 DEF CallHolds, KeepOperation
    <3> QED BY <2>2, <3>2 DEF ScheduleInv
  <2> QED BY <1>4, <2>3, <2>4 DEF TakeResult
<1>5. CASE Overtaken \/ GraceElapses
  <2>1. /\ search.at \in {"racing", "grace"} /\ KeepOperation /\ UNCHANGED <<rows, stop>>
        /\ CallAt("grace") \/ CallAt("failing")
    BY <1>5 DEF Overtaken, GraceElapses
  <2>2. search' \in Asked /\ search'.at \in {"grace", "failing"} /\ search'.answer = search.answer
    BY <1>0, <2>1, CallMoves DEF CallAt
  <2>3. OperationHolds' /\ CallHolds'
    BY <1>0, <2>1, <2>2, OperationStays DEF CallHolds, KeepOperation
  <2> QED BY <2>3 DEF ScheduleInv
<1>6. CASE Fail
  <2>1. /\ search.at = "failing" /\ search.answer = "none" /\ KeepOperation /\ UNCHANGED stop
        /\ rows' = rows \/ rows' = rows \cup {"error"}
    BY <1>0, <1>6 DEF Fail, Audits, CallHolds
  <2>2. OperationHolds'
    BY <1>0, <2>1, OperationStays
  <2>3. /\ search' \in Asked /\ search'.at \in {"reporting", "thrown", "excusing"}
        /\ search'.answer \in {"none", "unavailable"}
        /\ search'.at = "reporting" => search'.answer = "unavailable"
    BY <1>0, <1>6, <2>1, AnswerMoves, BreaksMoves DEF Fail
  <2>4. CallHolds'
    BY <1>0, <2>1, <2>3 DEF CallHolds
  <2> QED BY <2>2, <2>4 DEF ScheduleInv
<1>7. CASE Report
  <2>1. /\ search.at = "reporting" /\ KeepOperation /\ UNCHANGED stop
        /\ \/ rows' = rows \cup {search.answer} /\ CallAt("answered")
           \/ rows' = rows /\ Breaks
    BY <1>7 DEF Report, Audits
  <2>2. OperationHolds'
    BY <1>0, <2>1, OperationStays
  <2>3. /\ search' \in Asked /\ search'.at \in {"answered", "thrown", "excusing"}
        /\ search'.answer = search.answer
    BY <1>0, <2>1, CallMoves, BreaksMoves DEF CallAt
  <2>4. search'.at = "answered" => rows' = rows \cup {search.answer}
    BY <1>0, <2>1, BreaksMoves
  <2>5. search.answer # "none"
    BY <1>0, <2>1 DEF CallHolds
  <2>6. CallHolds'
    BY <1>0, <2>1, <2>3, <2>4, <2>5 DEF CallHolds, KeepOperation, Stopped, Asked
  <2> QED BY <2>2, <2>6 DEF ScheduleInv
<1>8. CASE Excuse
  <2>1. /\ search.at = "excusing" /\ KeepOperation /\ UNCHANGED stop
        /\ \/ rows' = rows \cup {"unavailable"} /\ Answers("unavailable")
           \/ rows' = rows /\ Throws
    BY <1>8 DEF Excuse, Audits
  <2>2. OperationHolds'
    BY <1>0, <2>1, OperationStays
  <2>3. \/ search' \in Asked /\ search'.at = "answered" /\ search'.answer = "unavailable"
        \/ search' \in Asked /\ search'.at = "thrown" /\ search'.answer = search.answer
    BY <1>0, <2>1, AnswerMoves, CallMoves DEF Answers, Throws
  <2>4. CallHolds'
    BY <1>0, <2>1, <2>3 DEF CallHolds, KeepOperation, Stopped
  <2> QED BY <2>2, <2>4 DEF ScheduleInv
<1> QED BY <1>1, <1>2, <1>3, <1>4, <1>5, <1>6, <1>7, <1>8

-----------------------------------------------------------------------------
LEMMA SearchInitially == SearchInit => ScheduleInv
<1> SUFFICES ASSUME SearchInit PROVE ScheduleInv
  OBVIOUS
<1>1. operation \in Working /\ operation.at = "none" /\ operation.verdict = "none" /\ operation.from = 1
  BY ScheduleAssumption DEF SearchInit, Working
<1>2. search \in Asked /\ search.at = "asking" /\ search.answer = "none"
  BY DEF SearchInit, Asked
<1>3. Covered(operation.from - 1)
  BY <1>1 DEF Covered
<1>4. OperationHolds
  BY <1>1, <1>3 DEF SearchInit, OperationHolds
<1>5. CallHolds
  BY <1>1, <1>2 DEF SearchInit, CallHolds
<1> QED BY <1>4, <1>5 DEF ScheduleInv

LEMMA SearchStep == ScheduleInv /\ [SearchNext]_scheduleVars => ScheduleInv'
<1> SUFFICES ASSUME ScheduleInv, [SearchNext]_scheduleVars PROVE ScheduleInv'
  OBVIOUS
<1>1. CASE UNCHANGED scheduleVars
  BY <1>1 DEF scheduleVars, ScheduleInv, OperationHolds, CallHolds, Covered, Complete, Stopped
<1>2. CASE Operation
  BY <1>2, RecordStartKeeps, LocateKeeps, FetchKeeps, StoreKeeps, JudgeKeeps, VerdictKeeps DEF Operation
<1> QED BY <1>1, <1>2, CallStep DEF SearchNext

\* The invariant of a query: how far its windows reach, and what the call that
\* waits may be told.
THEOREM ScheduleInvariant == SearchSpec => []ScheduleInv
BY SearchInitially, SearchStep, PTL DEF SearchSpec

\* For any period and any window: what is answered as a success was read to its
\* last day, is on disk and in the audit, and nothing had struck (query,
\* combineResults, withOperationDeadline).
THEOREM SuccessWasWhole == SearchSpec => []SuccessIsWhole
<1>1. ScheduleInv => SuccessIsWhole
  BY DEF ScheduleInv, OperationHolds, CallHolds, SuccessIsWhole, Covered, Complete
<1> QED BY <1>1, ScheduleInvariant, PTL

=============================================================================
