-------------------------- MODULE OrganizationBridge --------------------------
(***************************************************************************)
(* An organization and its tenant                                          *)
(* (access-gateway/portal/organization-bridge.ts and                       *)
(* organization-service.ts): the portal keeps the organization, the        *)
(* control plane keeps the tenant, each in a database of its own.  A       *)
(* change goes to the tenant first, is read back there, and is then        *)
(* recorded by the portal; a call may end at any point between.  Each      *)
(* database remembers the keys of the changes it has made and answers a    *)
(* repeat of one with its old result.                                      *)
(*                                                                         *)
(* One organization, whose identifiers are derived from CreateKey.  The    *)
(* portal refuses a change to the status it already has and one that       *)
(* expects another; with two statuses the target says both.  A key comes   *)
(* with the same request whenever it comes; but the expiry of the owner's  *)
(* invitation, which createOrganization compares with the clock each time, *)
(* is taken to lie ahead.  Where it has passed, a creation that ended half *)
(* way is repeated under its key with a later expiry: the tenant's store   *)
(* is not told the expiry, and the portal has recorded nothing yet.        *)
(***************************************************************************)
EXTENDS Integers, FiniteSets

CONSTANTS
    Calls,                      \* concurrent calls of the operator
    CreateKey,                  \* the idempotency key of createOrganization
    Suspensions, Activations    \* those of setOrganizationStatus, by what they ask for

StatusKeys == Suspensions \cup Activations
BridgeKeys == {CreateKey} \cup StatusKeys

ASSUME BridgeAssumption ==
    /\ IsFiniteSet(Suspensions) /\ IsFiniteSet(Activations)
    /\ Suspensions \cap Activations = {} /\ CreateKey \notin StatusKeys

VARIABLES
    organization,               \* the status of the organization in the portal
    tenant,                     \* the status of its tenant in the control plane
    recorded,                   \* portal_idempotency: the keys the portal has recorded
    applied,                    \* access_idempotency: the keys the tenant store has applied
    bridging,                   \* what each call is doing
    direct                      \* has an administrator changed the tenant beside the bridge

bridgeVars == <<organization, tenant, recorded, applied, bridging, direct>>

Status == {"none", "active", "suspended"}
NoBridging == [at |-> "idle", key |-> CreateKey]
Target(k) == IF k \in Suspensions THEN "suspended" ELSE "active"

BridgeInit ==
    /\ organization = "none" /\ tenant = "none"
    /\ recorded = {} /\ applied = {}
    /\ bridging = [c \in Calls |-> NoBridging]
    /\ direct = FALSE

Goes(c, at)   == bridging' = [bridging EXCEPT ![c].at = at]
EndsBridge(c) == bridging' = [bridging EXCEPT ![c] = NoBridging]

\* createOrganization asks nothing of the portal before it creates the tenant.
BeginCreate(c) ==
    /\ bridging[c].at = "idle"
    /\ bridging' = [bridging EXCEPT ![c] = [at |-> "tenant", key |-> CreateKey]]
    /\ UNCHANGED <<organization, tenant, recorded, applied, direct>>

\* setOrganizationStatus goes on only from the other status.
BeginStatus(c, k) ==
    /\ bridging[c].at = "idle"
    /\ organization \notin {"none", Target(k)}
    /\ bridging' = [bridging EXCEPT ![c] = [at |-> "tenant", key |-> k]]
    /\ UNCHANGED <<organization, tenant, recorded, applied, direct>>

\* Mutant: a tenant may be set to the status it has.
TenantTakesAnything(k) == k = CreateKey <=> tenant = "none"

\* A tenant is created once, and set only to another status.
TenantTakes(k) ==
    /\ k = CreateKey <=> tenant = "none"
    /\ tenant # Target(k)

ChangeTenant(c) ==
    LET k == bridging[c].key IN
    /\ bridging[c].at = "tenant" /\ Goes(c, "readback")
    /\ \/ k \in applied /\ UNCHANGED <<tenant, applied>>
       \/ /\ k \notin applied /\ TenantTakes(k)
          /\ tenant' = Target(k) /\ applied' = applied \cup {k}
    /\ UNCHANGED <<organization, recorded, direct>>

\* The tenant's status is asked for again: it may be another by now.
ReadTenantBack(c) ==
    /\ bridging[c].at = "readback" /\ tenant = Target(bridging[c].key)
    /\ Goes(c, "record")
    /\ UNCHANGED <<organization, tenant, recorded, applied, direct>>

PortalTakes(k) == IF k = CreateKey THEN organization = "none"
                                   ELSE organization \notin {"none", Target(k)}

RecordOrganization(c) ==
    LET k == bridging[c].key IN
    /\ bridging[c].at = "record" /\ EndsBridge(c)
    /\ \/ k \in recorded /\ UNCHANGED <<organization, recorded>>
       \/ /\ k \notin recorded /\ PortalTakes(k)
          /\ organization' = Target(k) /\ recorded' = recorded \cup {k}
    /\ UNCHANGED <<tenant, applied, direct>>

\* A call that is refused, that gets no answer or whose process stops.
BridgeEnds(c) ==
    /\ bridging[c].at # "idle" /\ EndsBridge(c)
    /\ UNCHANGED <<organization, tenant, recorded, applied, direct>>

\* setTenantStatus by an administrator of the control plane.
SetTenantDirectly ==
    /\ tenant # "none"
    /\ tenant' = IF tenant = "active" THEN "suspended" ELSE "active"
    /\ direct' = TRUE
    /\ UNCHANGED <<organization, recorded, applied, bridging>>

BridgeNext ==
    \/ \E c \in Calls :
          \/ BeginCreate(c)
          \/ \E k \in StatusKeys : BeginStatus(c, k)
          \/ ChangeTenant(c) \/ ReadTenantBack(c) \/ RecordOrganization(c) \/ BridgeEnds(c)
    \/ SetTenantDirectly

BridgeSpec == BridgeInit /\ [][BridgeNext]_bridgeVars

-----------------------------------------------------------------------------
BridgeTypeOK ==
    /\ {organization, tenant} \subseteq Status
    /\ recorded \subseteq applied /\ applied \subseteq BridgeKeys
    /\ bridging \in [Calls -> [at : {"idle", "tenant", "readback", "record"}, key : BridgeKeys]]
    /\ direct \in BOOLEAN

\* An organization that disagrees with its tenant is never stuck: unless an
\* administrator went past the bridge, there is a key whose change reached the
\* tenant and not the portal, and the tenant still has the status that key asks
\* for, so that a repeat with that key completes it, whichever calls ended half
\* way and whichever keys were repeated in between.
HalfDoneCanResume ==
    ~direct /\ organization # tenant =>
        \E k \in applied \ recorded : Target(k) = tenant /\ PortalTakes(k)
==============================================================================
