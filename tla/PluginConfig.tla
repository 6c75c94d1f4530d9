------------------------------ MODULE PluginConfig ------------------------------
(***************************************************************************)
(* The configuration of the Freightcom plugin: the service of the console  *)
(* (control-plane/plugin-config-service.ts), its database                  *)
(* (control-plane/plugin-config-store.ts) and the runtime that puts a      *)
(* release into effect (server/plugin-config-runtime.ts).                  *)
(*                                                                         *)
(* Operations of the service run one after another (#exclusive), but a     *)
(* publication waits for the requests that run on the configuration it     *)
(* replaces, and the process may die at that wait or while the result is   *)
(* stored.  A release is named by its revision, the next number for each;  *)
(* 0 is the configuration the store is initialized with.                   *)
(*                                                                         *)
(* Left out: the values and their validation (validate_draft stores a      *)
(* record nothing reads), and the rows of idempotency, which only repeat   *)
(* an answer: what a repeated request would do again is refused by the     *)
(* states below.                                                           *)
(***************************************************************************)
EXTENDS ServerClock, Sequences

CONSTANTS
    Actors,                     \* administrators
    RateRequests,               \* requests for a rate
    PreviewTtl,
    MaxPreviews,                \* bound on previews, and so on releases
    MaxCrashes                  \* bound on crashes

ASSUME ConfigAssumption == PreviewTtl \in Nat \ {0} /\ MaxPreviews \in Nat /\ MaxCrashes \in Nat

VARIABLES
    current,                    \* plugin_current: the active release
    configPreviews,                   \* config_previews with config_approvals
    releases,                   \* config_releases with their attempt
    publication,                \* the publication under way
    running,                    \* is there a process
    fence,                      \* the fatal fence has tripped
    applied,                    \* the release the runtime serves
    barrier,                    \* requests wait for an apply
    rates,                      \* what each request for a rate is doing
    crashes

configVars == <<current, configPreviews, releases, publication, running, fence, applied, barrier, rates, crashes>>

ConfigPreview == [base : 0..MaxPreviews, target : 0..MaxPreviews, creator : Actors, ends : Nat,
            consumed : BOOLEAN, decision : {"none", "approve", "reject"}]
Release == [preview : 1..MaxPreviews, phase : {"claimed", "finalized"},
            state : {"published_pending_apply", "readback_verified", "unavailable", "manual_review"}]
NoPublication == [release |-> 0, at |-> "idle", exact |-> FALSE]
NoRate        == [at |-> "idle", on |-> 0]

ConfigInit ==
    /\ current = 0 /\ applied = 0
    /\ configPreviews = <<>> /\ releases = <<>>
    /\ publication = NoPublication
    /\ running = TRUE /\ fence = FALSE /\ barrier = FALSE
    /\ rates = [q \in RateRequests |-> NoRate]
    /\ crashes = 0

-----------------------------------------------------------------------------
(* The service.                                                            *)

\* An operation starts: none is under way and nothing fatal has happened.
Exclusive == running /\ ~fence /\ publication = NoPublication

CreatePreview(actor) ==
    /\ Exclusive /\ Len(configPreviews) < MaxPreviews
    /\ \E target \in {0} \cup {r \in DOMAIN releases : releases[r].state = "readback_verified"} :
          configPreviews' = Append(configPreviews, [base |-> current, target |-> target, creator |-> actor,
                                        ends |-> now + PreviewTtl, consumed |-> FALSE, decision |-> "none"])
    /\ UNCHANGED <<current, releases, publication, running, fence, applied, barrier, rates, crashes>>

\* A preview that may still be decided or published, with nothing published
\* since it was made.
Fits(preview) == ~preview.consumed /\ preview.ends > now /\ preview.base = current

DecideApproval(actor, p) ==
    /\ Exclusive
    /\ Fits(configPreviews[p]) /\ configPreviews[p].creator # actor /\ configPreviews[p].decision = "none"
    /\ \E decision \in {"approve", "reject"} :
          configPreviews' = [configPreviews EXCEPT ![p].decision = decision]
    /\ UNCHANGED <<current, releases, publication, running, fence, applied, barrier, rates, crashes>>

\* publish, up to the answer of the runtime: the release, its attempt and the
\* use of the preview are stored in one transaction.
Publish(p) ==
    /\ Exclusive
    /\ Fits(configPreviews[p]) /\ configPreviews[p].decision = "approve"
    /\ configPreviews' = [configPreviews EXCEPT ![p].consumed = TRUE]
    /\ releases' = Append(releases, [preview |-> p, phase |-> "claimed", state |-> "published_pending_apply"])
    /\ publication' = [release |-> Len(releases) + 1, at |-> "drain", exact |-> FALSE]
    /\ barrier' = TRUE
    /\ UNCHANGED <<current, running, fence, applied, rates, crashes>>

\* The transaction of finalizePublish.
Settle(r, exact) ==
    /\ releases' = [releases EXCEPT ![r].phase = "finalized",
                                    ![r].state = IF exact THEN "readback_verified" ELSE "unavailable"]
    /\ current' = IF exact THEN r ELSE current

\* Mutant: a result that cannot be stored is only reported.
FinalizeUnfenced ==
    /\ publication.at = "finalize"
    /\ Settle(publication.release, publication.exact) \/ UNCHANGED <<releases, current>>
    /\ publication' = NoPublication
    /\ UNCHANGED <<configPreviews, running, fence, applied, barrier, rates, crashes>>

\* A result that cannot be stored is fatal: the runtime may serve what the
\* store does not call current.
FinalizeApply ==
    /\ publication.at = "finalize"
    /\ \/ Settle(publication.release, publication.exact) /\ UNCHANGED fence
       \/ fence' = TRUE /\ UNCHANGED <<releases, current>>
    /\ publication' = NoPublication
    /\ UNCHANGED <<configPreviews, running, applied, barrier, rates, crashes>>

\* An operator compares a release with what the runtime serves.
Reconcile(r) ==
    /\ Exclusive
    /\ releases' = [releases EXCEPT ![r].state =
                       IF applied = r THEN "readback_verified" ELSE "manual_review"]
    /\ current' = IF applied = r THEN r ELSE current
    /\ UNCHANGED <<configPreviews, publication, running, fence, applied, barrier, rates, crashes>>

-----------------------------------------------------------------------------
(* The runtime.                                                            *)

InUse == {q \in RateRequests : rates[q].at = "running"}

\* Mutant: the adapter is replaced under the requests that run on it.
ApplyAtOnce ==
    /\ publication.at = "drain"
    /\ applied' = publication.release
    /\ publication' = [publication EXCEPT !.at = "finalize", !.exact = TRUE]
    /\ barrier' = FALSE
    /\ UNCHANGED <<current, configPreviews, releases, running, fence, rates, crashes>>

\* apply, when the last request on the old adapter has ended: the new adapter
\* is built, or it is not and the old one stays.
Apply ==
    /\ publication.at = "drain" /\ InUse = {}
    /\ \E built \in BOOLEAN :
          /\ applied' = IF built THEN publication.release ELSE applied
          /\ publication' = [publication EXCEPT !.at = "finalize", !.exact = built]
    /\ barrier' = FALSE
    /\ UNCHANGED <<current, configPreviews, releases, running, fence, rates, crashes>>

Run(q) == rates' = [rates EXCEPT ![q] = [at |-> "running", on |-> applied]]

RequestRate(q) ==
    /\ running /\ ~fence /\ rates[q].at = "idle"
    /\ IF barrier THEN rates' = [rates EXCEPT ![q].at = "waiting"] ELSE Run(q)
    /\ UNCHANGED <<current, configPreviews, releases, publication, running, fence, applied, barrier, crashes>>

\* A request that waited looks again: the barrier may be up once more, and
\* the fence may have tripped.
PassBarrier(q) ==
    /\ rates[q].at = "waiting" /\ ~barrier
    /\ IF fence THEN rates' = [rates EXCEPT ![q] = NoRate] ELSE Run(q)
    /\ UNCHANGED <<current, configPreviews, releases, publication, running, fence, applied, barrier, crashes>>

RateEnds(q) ==
    /\ rates[q].at = "running"
    /\ rates' = [rates EXCEPT ![q] = NoRate]
    /\ UNCHANGED <<current, configPreviews, releases, publication, running, fence, applied, barrier, crashes>>

-----------------------------------------------------------------------------
Crash ==
    /\ running /\ crashes < MaxCrashes
    /\ running' = FALSE /\ crashes' = crashes + 1
    /\ fence' = FALSE /\ barrier' = FALSE
    /\ publication' = NoPublication
    /\ rates' = [q \in RateRequests |-> NoRate]
    /\ UNCHANGED <<current, configPreviews, releases, applied>>

\* The runtime starts with the current release; attempts nobody finished are
\* for an operator to look at, not to be applied again.
Boot ==
    /\ ~running /\ running' = TRUE
    /\ applied' = current
    /\ releases' = [r \in DOMAIN releases |->
           IF releases[r].phase = "finalized" THEN releases[r]
           ELSE [releases[r] EXCEPT !.phase = "finalized", !.state = "manual_review"]]
    /\ UNCHANGED <<current, configPreviews, publication, fence, barrier, rates, crashes>>

ConfigTick == now < MaxTime /\ now' = now + 1 /\ UNCHANGED configVars

ConfigNext ==
    \/ /\ \/ \E actor \in Actors : CreatePreview(actor)
          \/ \E actor \in Actors, p \in DOMAIN configPreviews : DecideApproval(actor, p)
          \/ \E p \in DOMAIN configPreviews : Publish(p)
          \/ \E r \in DOMAIN releases : Reconcile(r)
          \/ \E q \in RateRequests : RequestRate(q) \/ PassBarrier(q) \/ RateEnds(q)
          \/ Apply \/ FinalizeApply \/ Crash \/ Boot
       /\ UNCHANGED now
    \/ ConfigTick

ConfigSpec == ConfigInit /\ now = 0 /\ [][ConfigNext]_<<configVars, now>>

-----------------------------------------------------------------------------
(* Properties.                                                             *)

ConfigTypeOK ==
    /\ current \in 0..Len(releases) /\ applied \in 0..Len(releases)
    /\ configPreviews \in Seq(ConfigPreview) /\ releases \in Seq(Release)
    /\ publication \in [release : 0..MaxPreviews, at : {"idle", "drain", "finalize"}, exact : BOOLEAN]
    /\ rates \in [RateRequests -> [at : {"idle", "waiting", "running"}, on : 0..MaxPreviews]]

\* When no operation is under way and nothing fatal happened, the runtime
\* serves the release the store calls current, that release is verified, and
\* no attempt is open: whatever failed, and wherever the process died.  Each
\* verified release was made from the last one verified before it, so it
\* undoes none that came in between.
RestIsSettled ==
    Exclusive =>
        /\ applied = current
        /\ current # 0 => releases[current].state = "readback_verified"
        /\ \A r \in DOMAIN releases :
              /\ releases[r].phase = "finalized"
              /\ releases[r].state = "readback_verified" =>
                    \A earlier \in 1..(r - 1) :
                        releases[earlier].state = "readback_verified" =>
                            configPreviews[releases[r].preview].base >= earlier

\* A request for a rate never runs on an adapter that has been replaced.
RatesRunOnWhatIsServed == \A q \in InUse : rates[q].on = applied
==============================================================================
