---------------------------- MODULE PortalMembers ----------------------------
(***************************************************************************)
(* The members of an organization and its application                      *)
(* (access-gateway/portal/service.ts, and createApplication of             *)
(* access-bridge.ts): invitations that are claimed, roles that are         *)
(* changed, an application that has an owner among the members and a       *)
(* client in the control plane.                                            *)
(*                                                                         *)
(* One organization and one application.  Every write is one transaction   *)
(* of the portal, which checks its caller again; only createApplication    *)
(* waits, for the client of the control plane, and may end there.  A key   *)
(* that is repeated, an identity that is not verified and an expected      *)
(* version that is not the stored one change nothing and are left out, and *)
(* an invitation that has expired is one nobody claims.                    *)
(***************************************************************************)
EXTENDS FiniteSets

CONSTANTS
    Persons,                     \* users who may become members
    Founder,                    \* whom the operator invites as the first owner
    Invitations

ASSUME MembersAssumption == Founder \in Persons /\ Invitations # {}

VARIABLES
    membership,                 \* memberships: role and status, "none" for none
    invitation,                 \* invitations: whom, as what, and what became of it
    orgActive,                  \* is the organization active
    application,                \* its status and owner
    client,                     \* does the control plane have the application's client
    creating                    \* the createApplication under way

membersVars == <<membership, invitation, orgActive, application, client, creating>>

Roles     == {"owner", "admin", "developer", "viewer"}
NoMember  == [role |-> "none", active |-> FALSE]
NoInvite  == [status |-> "none", person |-> Founder, role |-> "owner"]
NotCreating == [at |-> "idle", actor |-> Founder, owner |-> Founder]

\* createOrganizationRecord: the organization with the invitation of its owner.
MembersInit ==
    /\ membership = [p \in Persons |-> NoMember]
    /\ \E first \in Invitations :
          invitation = [i \in Invitations |->
                           IF i = first THEN [NoInvite EXCEPT !.status = "pending"] ELSE NoInvite]
    /\ orgActive = TRUE
    /\ application = [status |-> "none", owner |-> Founder]
    /\ client = FALSE
    /\ creating = NotCreating

IsMember(p, roles) == orgActive /\ membership[p].active /\ membership[p].role \in roles
Makers == {"owner", "admin", "developer"}
\* Who can own an application.
Able(p) == membership[p].active /\ membership[p].role \in Makers

SetOrganization ==
    /\ orgActive' = ~orgActive
    /\ UNCHANGED <<membership, invitation, application, client, creating>>

Invite(i, to) ==
    /\ invitation' = [invitation EXCEPT ![i] = to]
    /\ UNCHANGED <<membership, orgActive, application, client, creating>>

\* Only an owner invites an owner.
InviteMember(a, i, p, role) ==
    /\ IsMember(a, {"owner", "admin"}) /\ invitation[i].status = "none"
    /\ role = "owner" => membership[a].role = "owner"
    /\ Invite(i, [status |-> "pending", person |-> p, role |-> role])

RevokeInvitation(a, i) ==
    /\ IsMember(a, {"owner", "admin"}) /\ invitation[i].status = "pending"
    /\ Invite(i, [invitation[i] EXCEPT !.status = "revoked"])

\* The organization need not be active.
ClaimInvitation(p, i) ==
    /\ invitation[i].status = "pending" /\ invitation[i].person = p
    /\ membership[p] = NoMember
    /\ invitation' = [invitation EXCEPT ![i].status = "claimed"]
    /\ membership' = [membership EXCEPT ![p] = [role |-> invitation[i].role, active |-> TRUE]]
    /\ UNCHANGED <<orgActive, application, client, creating>>

Owners       == {p \in Persons : membership[p].role = "owner"}
\* Mutant: an owner who is suspended counts.
AllOwners    == Owners
ActiveOwners == {p \in Owners : membership[p].active}

ChangeMembership(a, p, to) ==
    /\ IsMember(a, {"owner", "admin"}) /\ membership[p] # NoMember /\ to # membership[p]
    /\ membership[a].role # "owner" => "owner" \notin {membership[p].role, to.role}
    /\ (p \in Owners /\ (to.role # "owner" \/ ~to.active)) => Cardinality(ActiveOwners) # 1
    /\ (~to.active /\ membership[p].active) \/ (to.role = "viewer" /\ membership[p].role # "viewer")
           => ~(application.status = "active" /\ application.owner = p)
    /\ membership' = [membership EXCEPT ![p] = to]
    /\ UNCHANGED <<invitation, orgActive, application, client, creating>>

\* createApplication of the bridge: the caller and the owner are asked for,
\* the client is created in the control plane and read back there, and the
\* portal asks for the caller and the owner again.
BeginApplication(a, p) ==
    /\ creating.at = "idle" /\ application.status = "none"
    /\ IsMember(a, Makers) /\ Able(p)
    /\ creating' = [at |-> "client", actor |-> a, owner |-> p]
    /\ UNCHANGED <<membership, invitation, orgActive, application, client>>

CreateClient ==
    /\ creating.at = "client"
    /\ client' = TRUE /\ creating' = [creating EXCEPT !.at = "record"]
    /\ UNCHANGED <<membership, invitation, orgActive, application>>

RecordApplication ==
    /\ creating.at = "record" /\ creating' = NotCreating
    /\ IsMember(creating.actor, Makers) /\ Able(creating.owner)
    /\ application' = [status |-> "active", owner |-> creating.owner]
    /\ UNCHANGED <<membership, invitation, orgActive, client>>

EndApplication ==
    /\ creating.at # "idle" /\ creating' = NotCreating
    /\ UNCHANGED <<membership, invitation, orgActive, application, client>>

\* A new owner must be able; a status alone asks for nothing of the owner.
ChangeApplication(a) ==
    /\ application.status # "none" /\ IsMember(a, Makers)
    /\ membership[a].role = "developer" => application.owner = a
    /\ \E status \in {"active", "suspended"}, p \in Persons :
          /\ p = application.owner \/ Able(p)
          /\ application' = [status |-> status, owner |-> p]
    /\ UNCHANGED <<membership, invitation, orgActive, client, creating>>

MembersNext ==
    \/ SetOrganization \/ CreateClient \/ RecordApplication \/ EndApplication
    \/ \E a \in Persons :
          \/ ChangeApplication(a)
          \/ \E i \in Invitations : \/ RevokeInvitation(a, i) \/ ClaimInvitation(a, i)
                                    \/ \E p \in Persons, role \in Roles : InviteMember(a, i, p, role)
          \/ \E p \in Persons : \/ BeginApplication(a, p)
                               \/ \E to \in [role : Roles, active : BOOLEAN] : ChangeMembership(a, p, to)

MembersSpec == MembersInit /\ [][MembersNext]_membersVars

-----------------------------------------------------------------------------
MembersTypeOK ==
    /\ membership \in [Persons -> [role : Roles \cup {"none"}, active : BOOLEAN]]
    /\ invitation \in [Invitations -> [status : {"none", "pending", "claimed", "revoked"},
                                       person : Persons, role : Roles]]
    /\ application \in [status : {"none", "active", "suspended"}, owner : Persons]
    /\ creating \in [at : {"idle", "client", "record"}, actor : Persons, owner : Persons]

HasOwner == [role |-> "owner", active |-> TRUE] \in {membership[p] : p \in Persons}

\* An organization that has an active owner keeps one: whatever owners and
\* administrators do to one another and to themselves, in whatever order, with
\* owners who are suspended in between, nobody can leave it without.
OwnerRemains == [][HasOwner => HasOwner']_membersVars
==============================================================================
