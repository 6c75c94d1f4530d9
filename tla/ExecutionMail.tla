---------------------------- MODULE ExecutionMail ----------------------------
(***************************************************************************)
(* The workers that send the notices of module FclExecution                *)
(* (services/access-gateway/portal/fcl-execution-mail.ts, dispatchOnce).   *)
(*                                                                         *)
(* A worker is a process with its own FclExecutionMailService over the     *)
(* shared database.  Its steps are the transactions of dispatchOnce and    *)
(* the calls it awaits in between, the directory and the mail relay; other *)
(* workers, the people on the case, a crash and the clock come between any *)
(* two of them.  A worker takes its candidates from a list it read once    *)
(* and reads each again before it looks at it: here it takes the oldest    *)
(* that is still pending.  The relay decides about a message whether or    *)
(* not the worker still listens.                                           *)
(***************************************************************************)
EXTENDS FclExecution

CONSTANTS
    Workers,
    AttemptLimit,               \* attempts the schema of a message allows, 100
    MaxCrashes                  \* bound on the restarts of workers

ASSUME MailAssumption ==
    /\ AttemptLimit \in Nat
    /\ MaxCrashes \in Nat

VARIABLES
    worker,                     \* what each worker is doing
    relay,                      \* what the relay made of each hand-over
    expired,                    \* messages whose lease has run out
    crashes

mailVars == <<worker, relay, expired, crashes>>
vars == <<executionVars, mailVars>>

Steps    == {"idle", "pick", "verify", "cancel", "claim", "send", "await", "record"}
Verdicts == {"open", "accepted", "rejected", "partial"}
Outcome  == {"none", "smtp_accepted", "failed", "unknown", "cancelled"}

Idle == [at |-> "idle", message |-> None, token |-> 0, outcome |-> "none"]

MailInit ==
    /\ Init
    /\ worker = [w \in Workers |-> Idle]
    /\ relay = [h \in {} |-> "open"]
    /\ expired = {}
    /\ crashes = 0

-----------------------------------------------------------------------------
At(w, step)    == worker[w].at = step
Goto(w, step)  == worker' = [worker EXCEPT ![w].at = step]
Rest(w)        == worker' = [worker EXCEPT ![w] = Idle]
Busy(w)        == worker[w].message

WithStatus(s) == {i \in DOMAIN outbox : outbox[i].status = s}

\* Mutant: documents leave although their sender was taken off the case.
ApplicableToAnyone(i) ==
    i.kind # "customer" =>
      /\ HasNode(i.node)
      /\ BindingOf(nodes[i.node]) = outbox[i].bound
      /\ nodes[i.node].status \notin {"skipped", "cancelled"}

\* applicable: the node is still as it was when the notice was made; whoever sent
\* documents still works on the case; a customer that claimed the case keeps it.
Applicable(i) ==
    i.kind # "customer" =>
      /\ HasNode(i.node)
      /\ BindingOf(nodes[i.node]) = outbox[i].bound
      /\ nodes[i.node].status \notin {"skipped", "cancelled"}
      /\ i.kind = "documents" => NodeAccess(outbox[i].actor, i.node)

\* Mutant: a message that may have been sent goes back to the queue.
ReapToPending(w) ==
    /\ At(w, "idle")
    /\ outbox' = [i \in DOMAIN outbox |->
         IF outbox[i].status = "sending" /\ i \in expired
         THEN [outbox[i] EXCEPT !.status = "pending", !.lease = 0] ELSE outbox[i]]
    /\ Goto(w, "pick")
    /\ UNCHANGED <<progress, claimed, relay, expired, crashes>>

\* The first transaction of a dispatch: an expired lease leaves the result open.
Reap(w) ==
    /\ At(w, "idle")
    /\ outbox' = [i \in DOMAIN outbox |->
         IF outbox[i].status = "sending" /\ i \in expired
         THEN [outbox[i] EXCEPT !.status = "unknown", !.lease = 0,
                                !.code = "lease_expired"]
         ELSE outbox[i]]
    /\ Goto(w, "pick")
    /\ UNCHANGED <<progress, claimed, relay, expired, crashes>>

Pick(w) ==
    /\ At(w, "pick")
    /\ IF WithStatus("pending") = {} THEN Rest(w)
       ELSE \E i \in WithStatus("pending") :
              /\ \A j \in WithStatus("pending") : i.event <= j.event
              /\ worker' = [worker EXCEPT ![w].message = i,
                              ![w].at = IF Applicable(i) THEN "verify" ELSE "cancel"]
    /\ UNCHANGED <<executionVars, relay, expired, crashes>>

\* Mutant: a message whose people are gone is left where it is.
VerifyAndLeave(w, answer) ==
    /\ At(w, "verify")
    /\ IF answer = "active" THEN Goto(w, "claim") ELSE Rest(w)
    /\ UNCHANGED <<executionVars, relay, expired, crashes>>

\* verifyUsers: without an answer the dispatch ends.
Verify(w, answer) ==
    /\ At(w, "verify")
    /\ CASE answer = "active"      -> Goto(w, "claim")
         [] answer = "inactive"    -> Goto(w, "cancel")
         [] answer = "unavailable" -> Rest(w)
    /\ UNCHANGED <<executionVars, relay, expired, crashes>>

Cancel(w) ==
    /\ At(w, "cancel")
    /\ outbox' = IF outbox[Busy(w)].status = "pending"
                 THEN [outbox EXCEPT ![Busy(w)].status = "cancelled",
                                     ![Busy(w)].code = "changed"]
                 ELSE outbox
    /\ Goto(w, "pick")
    /\ UNCHANGED <<progress, claimed, relay, expired, crashes>>

\* The second transaction: one worker takes the message, with a lease.  Beyond
\* the attempts the schema allows the read-back throws and the dispatch is over.
Claim(w) ==
    LET i == Busy(w) IN
    /\ At(w, "claim")
    /\ \/ /\ outbox[i].status = "pending" /\ Applicable(i)
          /\ outbox[i].attempts < AttemptLimit
          /\ outbox' = [outbox EXCEPT ![i].status = "sending", ![i].attempts = @ + 1,
                                      ![i].lease = outbox[i].attempts + 1]
          /\ worker' = [worker EXCEPT ![w].at = "send", ![w].token = outbox[i].attempts + 1]
          /\ expired' = expired \ {i}
       \/ /\ outbox[i].status = "pending" /\ Applicable(i)
          /\ outbox[i].attempts >= AttemptLimit
          /\ Rest(w)
          /\ UNCHANGED <<outbox, expired>>
       \/ /\ ~(outbox[i].status = "pending" /\ Applicable(i))
          /\ Goto(w, "pick")
          /\ UNCHANGED <<outbox, expired>>
    /\ UNCHANGED <<progress, claimed, relay, crashes>>

\* The relay is handed the message of this attempt, unless the node has moved on.
Send(w) ==
    LET h == <<Busy(w), worker[w].token>> IN
    /\ At(w, "send")
    /\ IF Applicable(Busy(w))
       THEN /\ relay' = [x \in DOMAIN relay \cup {h} |->
                           IF x \in DOMAIN relay THEN relay[x] ELSE "open"]
            /\ Goto(w, "await")
       ELSE /\ worker' = [worker EXCEPT ![w].at = "record", ![w].outcome = "cancelled"]
            /\ UNCHANGED relay
    /\ UNCHANGED <<executionVars, expired, crashes>>

\* The relay decides; nobody may be waiting any more.
RelayDecides(h) ==
    /\ relay[h] = "open"
    /\ \E verdict \in Verdicts \ {"open"} : relay' = [relay EXCEPT ![h] = verdict]
    /\ UNCHANGED <<executionVars, worker, expired, crashes>>

\* What the worker hears: the decision, or nothing before its timer or an error.
Answer(w) ==
    /\ At(w, "await")
    /\ LET heard == relay[<<Busy(w), worker[w].token>>] IN
       \E outcome \in {"unknown"} \cup
            (CASE heard = "accepted" -> {"smtp_accepted"}
               [] heard = "rejected" -> {"failed"}
               [] OTHER -> {}) :
         worker' = [worker EXCEPT ![w].at = "record", ![w].outcome = outcome]
    /\ UNCHANGED <<executionVars, relay, expired, crashes>>

\* Mutant: a late worker writes over the lease of another one.
RecordAnyLease(w) ==
    LET i == Busy(w) IN
    /\ At(w, "record")
    /\ outbox' = IF outbox[i].status = "sending"
                 THEN [outbox EXCEPT ![i].status = worker[w].outcome, ![i].lease = 0,
                                     ![i].code = "relay"]
                 ELSE outbox
    /\ Rest(w)
    /\ UNCHANGED <<progress, claimed, relay, expired, crashes>>

\* The third transaction: the result, if the lease is still the worker's own.
Record(w) ==
    LET i == Busy(w) IN
    /\ At(w, "record")
    /\ outbox' = IF outbox[i].status = "sending" /\ outbox[i].lease = worker[w].token
                 THEN [outbox EXCEPT ![i].status = worker[w].outcome, ![i].lease = 0,
                                     ![i].code = "relay"]
                 ELSE outbox
    /\ Rest(w)
    /\ UNCHANGED <<progress, claimed, relay, expired, crashes>>

Crash(w) ==
    /\ ~At(w, "idle")
    /\ crashes < MaxCrashes
    /\ crashes' = crashes + 1
    /\ Rest(w)
    /\ UNCHANGED <<executionVars, relay, expired>>

Expire(i) ==
    /\ outbox[i].status = "sending"
    /\ i \notin expired
    /\ expired' = expired \cup {i}
    /\ UNCHANGED <<executionVars, worker, relay, crashes>>

-----------------------------------------------------------------------------
People == Next /\ UNCHANGED mailVars

Dispatch(w) ==
    \/ Reap(w) \/ Pick(w) \/ Cancel(w) \/ Claim(w) \/ Send(w) \/ Answer(w) \/ Record(w)
    \/ \E answer \in {"active", "inactive", "unavailable"} : Verify(w, answer)

MailNext ==
    \/ People
    \/ \E w \in Workers : Dispatch(w) \/ Crash(w)
    \/ \E h \in DOMAIN relay : RelayDecides(h)
    \/ \E i \in DOMAIN outbox : Expire(i)

MailSpec == MailInit /\ [][MailNext]_vars

\* Timers fire (the interval of a worker, the timeout of a call and the lease),
\* and the directory, asked again and again, gives an answer at last.
Fairness ==
    /\ \A w \in Workers :
         /\ WF_vars(Dispatch(w))
         /\ SF_vars(Verify(w, "active") \/ Verify(w, "inactive"))
    /\ WF_vars(\E i \in DOMAIN outbox : Expire(i))

FairMailSpec == MailSpec /\ Fairness

-----------------------------------------------------------------------------
MailTypeOK ==
    /\ \A w \in Workers :
         /\ worker[w].at \in Steps
         /\ worker[w].message \in DOMAIN outbox \cup {None}
         /\ worker[w].token \in 0..AttemptLimit
         /\ worker[w].outcome \in Outcome
    /\ \A h \in DOMAIN relay : /\ h \in (DOMAIN outbox) \X (1..AttemptLimit)
                               /\ relay[h] \in Verdicts
    /\ expired \subseteq DOMAIN outbox
    /\ crashes \in 0..MaxCrashes

HandedOver(i) == {h \in DOMAIN relay : h[1] = i}

\* Nothing is sent again unless somebody asked for it: whatever workers, leases
\* and crashes do, the relay gets a message once, and once more for each retry
\* (docs/rfcs/2026-09-23-fcl-execution-v2.md, 5: "unknown" is never sent again).
NoUnaskedResend ==
    \A i \in DOMAIN outbox : Cardinality(HandedOver(i)) <= 1 + outbox[i].retried

\* What a worker wrote down is what the relay said of the newest attempt, and
\* never the late answer to an earlier one; "failed", which a retry may follow,
\* is written only of a message that the relay refused as a whole.
RecordedIsTheNewest ==
    \A i \in DOMAIN outbox :
        outbox[i].code = "relay" =>
          LET h == <<i, outbox[i].attempts>> IN
          /\ outbox[i].status = "smtp_accepted" => h \in DOMAIN relay /\ relay[h] = "accepted"
          /\ outbox[i].status = "failed"        => h \in DOMAIN relay /\ relay[h] = "rejected"
          /\ outbox[i].status = "cancelled"     => h \notin DOMAIN relay

\* A notice is handed over only while what it says is true: its node is in the
\* cycle and the status it was written for, whatever happened to the node and to
\* its people while the notice waited and while the directory was asked.
NothingStaleIsSent ==
    [][\A h \in DOMAIN relay' \ DOMAIN relay :
         h[1].node # None =>
           /\ nodes[h[1].node].cycle = outbox[h[1]].bound.cycle
           /\ nodes[h[1].node].status = outbox[h[1]].bound.status
           /\ nodes[h[1].node].status \notin {"skipped", "cancelled"}
           /\ h[1].kind = "documents" => outbox[h[1]].actor \in
                {Owner, coordinator, nodes[h[1].node].routing.responsible}]_vars

Possible == {i \in [event : 0..MaxVersion, node : Nodes \cup {None}, kind : Kinds] :
               /\ i.node = None <=> i.kind = "customer"
               /\ i.event = 0 => i.node = None}
Is(i, s) == i \in DOMAIN outbox /\ outbox[i].status = s

\* A message that waits with no attempt left and none of the resolutions with
\* which people could settle it: each claim of it throws (fclOutboxSchema).
Exhausted(i) ==
    /\ Is(i, "pending")
    /\ outbox[i].attempts >= AttemptLimit
    /\ outbox[i].resolved + outbox[i].retried >= ResolutionLimit

\* A message that waits is taken up, or a person settles it, unless it or one
\* before it is exhausted: that one keeps all behind it from being sent, and
\* nothing else does, be it a crash, a lease, the relay or the directory.
PendingIsHandled ==
    \A i \in Possible :
        Is(i, "pending") ~> \/ ~Is(i, "pending")
                            \/ \E j \in Possible : j.event <= i.event /\ Exhausted(j)
=============================================================================
