------------------------------- MODULE MCPortal -------------------------------
(***************************************************************************)
(* Constants for the parts of the portal: a case from the inquiry to the   *)
(* order, the notices of the order's execution, an organization and its    *)
(* tenant, its members, what its application is granted, a query for       *)
(* schedules, the move of the gateway's state to PostgreSQL, and the       *)
(* portal's own state there.  Each behaviour is one of a single part,      *)
(* which the first state chooses.                                          *)
(***************************************************************************)
EXTENDS FclQuotes, ExecutionMail, OrganizationBridge, PortalMembers, PortalGrants,
    ScheduleQuery, StoreMigration, SharedStore, TLC

CONSTANTS olga, carl, customs, w1, o1, i1, t1, m1, m2

VARIABLE part

\* Notices inside the house, and notices to the outside.
MCRoutings == {[responsible |-> olga, internal |-> inside, external |-> ~inside] : inside \in BOOLEAN}

\* No customer has claimed the case, whose notice is bound to no node, and no
\* shared data is complete, which no node of this run asks for: other runs are
\* about both.
NodesOnly == ~claimed /\ ~shared

\* The case or its document has all its versions, and both may have all but one.
CaseOrDocument ==
    \A d \in Documents : inquiry.version + Len(documents[d]) <= MaxCase + MaxDocument - 2

\* The two migrations are alike: the second waits for the first to have begun.
MigrateInTurn == moving[m2].at # "idle" => moving[m1].at # "idle"

ExportSymmetry == Permutations(Exports)

\* The first invitation and the first request are any; one is enough.  Who asks
\* for schedules matters to that query alone.
PortalInit ==
    /\ part \in {"quotes", "mail", "bridge", "members", "grants", "schedules", "store", "shared"}
    /\ QuoteInit /\ MailInit /\ BridgeInit /\ MembersInit /\ GrantsInit
    /\ SearchInit /\ MigrationInit /\ SharedInit
    /\ part = "schedules" \/ search.by = "person"
    /\ invitation[i1].status = "pending" /\ request.caps = {t1}

PortalNext ==
    /\ UNCHANGED part
    /\ \/ part = "quotes" /\ QuoteNext
              /\ UNCHANGED <<vars, bridgeVars, membersVars, grantVars, scheduleVars, migrationVars, sharedVars>>
       \/ part = "mail" /\ MailNext
              /\ UNCHANGED <<quoteVars, today, bridgeVars, membersVars, grantVars, scheduleVars, migrationVars, sharedVars>>
       \/ part = "bridge" /\ BridgeNext
              /\ UNCHANGED <<quoteVars, today, vars, membersVars, grantVars, scheduleVars, migrationVars, sharedVars>>
       \/ part = "members" /\ MembersNext
              /\ UNCHANGED <<quoteVars, today, vars, bridgeVars, grantVars, scheduleVars, migrationVars, sharedVars>>
       \/ part = "grants" /\ GrantsNext
              /\ UNCHANGED <<quoteVars, today, vars, bridgeVars, membersVars, scheduleVars, migrationVars, sharedVars>>
       \/ part = "schedules" /\ SearchNext
              /\ UNCHANGED <<quoteVars, today, vars, bridgeVars, membersVars, grantVars, migrationVars, sharedVars>>
       \/ part = "store" /\ MigrationNext
              /\ UNCHANGED <<quoteVars, today, vars, bridgeVars, membersVars, grantVars, scheduleVars, sharedVars>>
       \/ part = "shared" /\ SharedNext
              /\ UNCHANGED <<quoteVars, today, vars, bridgeVars, membersVars, grantVars, scheduleVars, migrationVars>>

PortalSpec ==
    PortalInit /\ [][PortalNext]_<<part, quoteVars, today, vars, bridgeVars, membersVars,
                                    grantVars, scheduleVars, migrationVars, sharedVars>>
==============================================================================
