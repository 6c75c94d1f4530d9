----------------------------- MODULE PortalGrants -----------------------------
(***************************************************************************)
(* From a request for capabilities to a machine call that uses them        *)
(* (access-gateway/portal/service.ts, access-bridge.ts and                 *)
(* runtime-executor.ts): the application's developers write and submit a   *)
(* request, a reviewer decides it, an operator provisions, narrows and     *)
(* withdraws the grant, and a call is checked against the grant and        *)
(* against the control plane, which answers late.                          *)
(*                                                                         *)
(* One request, the grant it leads to, one provisioning and one call at a  *)
(* time.  Whether the organization, the application and its owner are able *)
(* (module PortalMembers) and whether tenant, client and credential are    *)
(* active (module TenantAccess) are switches.  A reviewer decides what the *)
(* queue showed, with its version, and so does the operator.  Repeated     *)
(* keys, refusals and the expiry of a grant change nothing here.           *)
(***************************************************************************)
EXTENDS Naturals, FiniteSets

CONSTANTS
    Tools,                      \* capabilities: the tools of the catalogue
    MaxRequest,                 \* bound on the version of the request
    MaxRounds                   \* how often a call is authorized on its way

ASSUME GrantsAssumption == Tools # {} /\ MaxRequest \in Nat \ {0} /\ MaxRounds \in Nat \ {0}

VARIABLES
    request,                    \* state, requested capabilities, version
    queue,                      \* what a reviewer has read: capabilities and version
    reviewed,                   \* the capabilities the approving reviewer had read
    grant,                      \* state, capabilities, version
    provisioning,               \* provisionGrant: the version it found, or 0
    machine,                    \* a call: its step, tool, round
    able,                       \* are organization, application and owner able
    standing                    \* are tenant, client and credential active

grantVars == <<request, queue, reviewed, grant, provisioning, machine, able, standing>>

CapSets  == SUBSET Tools \ {{}}
NoCall   == [at |-> "idle", tool |-> CHOOSE t \in Tools : TRUE, round |-> 0]
NoGrant  == [state |-> "none", caps |-> {}, version |-> 0]

\* createRequest comes with the capabilities it asks for.
GrantsInit ==
    /\ \E caps \in CapSets : request = [state |-> "draft", caps |-> caps, version |-> 1]
    /\ queue = [caps |-> {}, version |-> 0] /\ reviewed = {}
    /\ grant = NoGrant /\ provisioning = 0 /\ machine = NoCall
    /\ able = TRUE /\ standing = TRUE

-----------------------------------------------------------------------------
(* The request.                                                            *)

Requested(from, to) ==
    /\ request.state \in from /\ request.version < MaxRequest
    /\ request' = [to EXCEPT !.version = request.version + 1]

KeepAllBut == UNCHANGED <<provisioning, machine, able, standing>>

UpdateRequest ==
    /\ \E caps \in CapSets : Requested({"draft", "needs_input"}, [request EXCEPT !.caps = caps])
    /\ KeepAllBut /\ UNCHANGED <<queue, reviewed, grant>>

Transition ==
    /\ \/ Requested({"draft", "needs_input"}, [request EXCEPT !.state = "submitted"])
       \/ Requested({"draft", "submitted", "needs_input"}, [request EXCEPT !.state = "withdrawn"])
       \/ Requested({"submitted"}, [request EXCEPT !.state = "in_review"])
    /\ KeepAllBut /\ UNCHANGED <<queue, reviewed, grant>>

\* getReviewQueue.
ReadQueue ==
    /\ request.state \in {"submitted", "in_review", "needs_input"}
    /\ queue' = [caps |-> request.caps, version |-> request.version]
    /\ KeepAllBut /\ UNCHANGED <<request, reviewed, grant>>

AsRead == request.version = queue.version /\ queue.version # 0

\* decideRequest, with the version of the queue; what is approved is what was
\* requested or less.
DecideRequest ==
    /\ AsRead
    /\ \/ /\ \E to \in {"rejected", "needs_input"} :
                Requested({"submitted", "in_review"}, [request EXCEPT !.state = to])
          /\ UNCHANGED <<grant, reviewed>>
       \/ /\ Requested({"submitted", "in_review"}, [request EXCEPT !.state = "approved"])
          /\ \E caps \in CapSets :
                /\ caps \subseteq request.caps
                /\ grant' = [state |-> "provisioning", caps |-> caps, version |-> 1]
          /\ reviewed' = queue.caps
    /\ KeepAllBut /\ UNCHANGED queue

-----------------------------------------------------------------------------
(* The grant.                                                              *)

Granted(to) ==
    /\ grant' = [to EXCEPT !.version = grant.version + 1]
    /\ UNCHANGED <<request, queue, reviewed, machine, able, standing>>

\* provisionGrant: the grant is looked up, the control plane is asked, and
\* the grant is made active if it is still the one that was found.
BeginProvisioning ==
    /\ provisioning = 0 /\ grant.state = "provisioning" /\ able
    /\ provisioning' = grant.version
    /\ UNCHANGED <<request, queue, reviewed, grant, machine, able, standing>>

MarkGrantActive ==
    /\ provisioning # 0 /\ provisioning' = 0
    /\ standing /\ grant.state = "provisioning" /\ grant.version = provisioning
    /\ Granted([grant EXCEPT !.state = "active"])

EndProvisioning ==
    /\ provisioning # 0 /\ provisioning' = 0
    /\ UNCHANGED <<request, queue, reviewed, grant, machine, able, standing>>

ChangeGrantState ==
    /\ \/ grant.state = "active" /\ Granted([grant EXCEPT !.state = "suspended"])
       \/ grant.state \notin {"none", "revoked"} /\ Granted([grant EXCEPT !.state = "revoked"])
    /\ UNCHANGED provisioning

\* A grant is only made narrower.
ChangeGrantCapabilities ==
    /\ grant.state = "active"
    /\ \E caps \in CapSets : caps \subseteq grant.caps /\ caps # grant.caps
                             /\ Granted([grant EXCEPT !.caps = caps])
    /\ UNCHANGED provisioning

-----------------------------------------------------------------------------
(* A machine call.                                                         *)

\* requireMachineGrants.
HasGrant(tool) == able /\ grant.state = "active" /\ tool \in grant.caps

Call(at) ==
    /\ machine' = [machine EXCEPT !.at = at]
    /\ UNCHANGED <<request, queue, reviewed, grant, provisioning, able, standing>>

BeginCall(tool) ==
    /\ machine.at = "idle" /\ HasGrant(tool)
    /\ machine' = [at |-> "state", tool |-> tool, round |-> 1]
    /\ UNCHANGED <<request, queue, reviewed, grant, provisioning, able, standing>>

\* The control plane says what stands; the answer comes later.
ReadStanding == machine.at = "state" /\ standing /\ Call("answer")

\* Mutant: the grant is asked for before the wait only.
AskedBefore == TRUE

\* And the grant is asked for again when it comes.
StillGranted == HasGrant(machine.tool)

\* #requireCurrentMachineAuthority ends; the executor asks once more before
\* and once more after it has signed its own token.
Authorized ==
    /\ machine.at = "answer" /\ StillGranted
    /\ Call(IF machine.round = MaxRounds THEN "admitted" ELSE "between")

AuthorizeAgain ==
    /\ machine.at = "between" /\ HasGrant(machine.tool)
    /\ machine' = [machine EXCEPT !.at = "state", !.round = @ + 1]
    /\ UNCHANGED <<request, queue, reviewed, grant, provisioning, able, standing>>

\* The call is refused, fails or is over.
EndCall ==
    /\ machine.at # "idle" /\ machine' = NoCall
    /\ UNCHANGED <<request, queue, reviewed, grant, provisioning, able, standing>>

SwitchAble ==
    /\ able' = ~able
    /\ UNCHANGED <<request, queue, reviewed, grant, provisioning, machine, standing>>

SwitchStanding ==
    /\ standing' = ~standing
    /\ UNCHANGED <<request, queue, reviewed, grant, provisioning, machine, able>>

GrantsNext ==
    \/ UpdateRequest \/ Transition \/ ReadQueue \/ DecideRequest
    \/ BeginProvisioning \/ MarkGrantActive \/ EndProvisioning
    \/ ChangeGrantState \/ ChangeGrantCapabilities
    \/ \E tool \in Tools : BeginCall(tool)
    \/ ReadStanding \/ Authorized \/ AuthorizeAgain \/ EndCall
    \/ SwitchAble \/ SwitchStanding

GrantsSpec == GrantsInit /\ [][GrantsNext]_grantVars

-----------------------------------------------------------------------------
GrantsTypeOK ==
    /\ request \in [state : {"draft", "submitted", "in_review", "needs_input", "approved", "rejected",
                             "withdrawn"}, caps : CapSets, version : 1..MaxRequest]
    /\ queue \in [caps : SUBSET Tools, version : 0..MaxRequest] /\ reviewed \subseteq Tools
    /\ grant.state \in {"none", "provisioning", "active", "suspended", "revoked"}
    /\ machine \in [at : {"idle", "state", "answer", "between", "admitted"}, tool : Tools,
                    round : 0..MaxRounds]

\* A call is let through only with a tool the reviewer who approved the request
\* had before his eyes, and only while the grant and those it depends on are in
\* order: not on what was true before the control plane was asked.
AdmittedHaveRight ==
    [][machine'.at = "admitted" /\ machine.at # "admitted" =>
          HasGrant(machine.tool) /\ machine.tool \in reviewed]_grantVars
==============================================================================
