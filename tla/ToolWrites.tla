------------------------------- MODULE ToolWrites -------------------------------
(***************************************************************************)
(* A write through an MCP tool: the reservation of its idempotency key     *)
(* (executeRegisteredToolCore in server/tool-registry.ts over              *)
(* platform/sqlite-production-store.ts), the preview and the commit of a   *)
(* quote draft with its readback (adapters/quote/existing-quote-adapter.ts;*)
(* adapters/review/manual-task-adapter.ts goes through the same steps for  *)
(* a review task), and the audit row without which no result leaves        *)
(* (server/http.ts).                                                       *)
(*                                                                         *)
(* The reservation is durable, the adapter's previews and commits are in   *)
(* memory, the drafts are in the quote system.  What is abstracted:        *)
(*   - an input is its mode and its payload, the rest of it (tenant,       *)
(*     approval, schema) has passed;                                       *)
(*   - the quote system makes a new draft for every save: that it could    *)
(*     tell a repeated key is not relied on;                               *)
(*   - a request's timer fires before the clock passes its deadline.       *)
(***************************************************************************)
EXTENDS ServerClock

CONSTANTS
    Calls,                      \* tool calls, each made once
    Keys,                       \* idempotency keys
    Payloads,                   \* quotes to save
    KeyTtl,                     \* idempotencyTtlMs
    CallTimeout,                \* requestTimeoutMs
    MaxStops                    \* bound on the stops of the process

ASSUME ToolAssumption ==
    /\ KeyTtl \in Nat /\ CallTimeout \in Nat \ {0} /\ CallTimeout < KeyTtl
    /\ MaxStops \in Nat /\ MaxTime \in Nat
    /\ None \notin Calls \cup Keys \cup Payloads

VARIABLES
    records,                    \* idempotency_records
    previews, commits,          \* the adapter's maps
    saves,                      \* what the quote system was asked to save, and when
    calls,                      \* what each call is doing
    stops

toolVars == <<records, previews, commits, saves, calls, stops>>

Input  == [mode : {"preview", "commit"}, payload : Payloads]
\* What a call says: a failure, a preview, or a draft of a payload.
Result == [status : {"failure", "previewed", "committed"}, payload : Payloads]
Record == [input : Input, result : Result \cup {None}, by : Calls, expires : Nat]
Save   == [key : Keys, payload : Payloads, by : Calls, at : Times]
CallAt == {"idle", "reserve", "handle", "readback", "keep", "audit", "answered", "refused"}
Call   == [at : CallAt, key : Keys \cup {None}, input : Input \cup {None}, started : Times,
           aborted : BOOLEAN, result : Result \cup {None}]

ASSUME RecordAssumption == None \notin Input \cup Result \cup Record

Silent == [at |-> "idle", key |-> None, input |-> None, started |-> 0, aborted |-> FALSE,
           result |-> None]

ToolInit ==
    /\ records = [k \in Keys |-> None]
    /\ previews = {}
    /\ commits = [k \in Keys |-> None]
    /\ saves = {}
    /\ calls = [c \in Calls |-> Silent]
    /\ stops = 0

-----------------------------------------------------------------------------
CallIs(c, place) == calls[c].at = place
Key(c)           == calls[c].key
Payload(c)       == calls[c].input.payload
Running(c)       == calls[c].at \notin {"idle", "answered", "refused"}
MoveTo(c, place) == calls' = [calls EXCEPT ![c].at = place]
\* The client is told that nothing can be said, or is told nothing.
Ended            == [Silent EXCEPT !.at = "refused"]
Refuse(c)        == calls' = [calls EXCEPT ![c] = Ended]
Return(c, status) ==
    calls' = [calls EXCEPT ![c].at = "keep",
                           ![c].result = [status |-> status, payload |-> Payload(c)]]
\* The row of a key, if its time is not over.
Row(k) == IF records[k] # None /\ records[k].expires <= now THEN None ELSE records[k]
\* Mutant: the key alone tells a request.
SameKey(c) == Row(Key(c)) # None

\* The row is one of the same request.
Same(c) == Row(Key(c)) # None /\ Row(Key(c)).input = calls[c].input

Invoke(c, k, input) ==
    /\ CallIs(c, "idle")
    /\ calls' = [calls EXCEPT ![c].at = "reserve", ![c].key = k, ![c].input = input,
                              ![c].started = now]
    /\ UNCHANGED <<records, previews, commits, saves, stops, now>>

\* Mutant: a request whose answer is outstanding may be made again.
ReserveAgain(c) ==
    LET row == Row(Key(c)) IN
    /\ CallIs(c, "reserve")
    /\ \/ /\ row = None \/ (Same(c) /\ row.result = None)
          /\ records' = [records EXCEPT ![Key(c)] =
                [input |-> calls[c].input, result |-> None, by |-> c, expires |-> now + KeyTtl]]
          /\ IF calls[c].aborted THEN Refuse(c) ELSE MoveTo(c, "handle")
       \/ /\ Same(c) /\ row.result # None /\ ~calls[c].aborted
          /\ calls' = [calls EXCEPT ![c].at = "audit", ![c].result = row.result]
          /\ UNCHANGED records
    /\ UNCHANGED <<previews, commits, saves, stops, now>>

\* reserve, and what the tool does with its answer: another request has the
\* key, it is being processed, it was done, or it is this call's now.
Reserve(c) ==
    LET row == Row(Key(c)) IN
    /\ CallIs(c, "reserve")
    /\ \/ /\ row = None
          /\ records' = [records EXCEPT ![Key(c)] =
                [input |-> calls[c].input, result |-> None, by |-> c, expires |-> now + KeyTtl]]
          /\ IF calls[c].aborted THEN Refuse(c) ELSE MoveTo(c, "handle")
       \/ /\ row # None /\ ~(Same(c) /\ row.result # None /\ ~calls[c].aborted)
          /\ Refuse(c) /\ UNCHANGED records
       \/ /\ Same(c) /\ row.result # None /\ ~calls[c].aborted
          /\ calls' = [calls EXCEPT ![c].at = "audit", ![c].result = row.result]
          /\ UNCHANGED records
    /\ UNCHANGED <<previews, commits, saves, stops, now>>

\* previewDraft.
Preview(c) ==
    /\ CallIs(c, "handle") /\ calls[c].input.mode = "preview"
    /\ previews' = previews \cup {Payload(c)}
    /\ Return(c, "previewed")
    /\ UNCHANGED <<records, commits, saves, stops, now>>

\* commitDraft before its first wait: a preview of this process, and whether
\* the key has a draft already.
CommitKnown(c) ==
    LET known == commits[Key(c)] IN
    /\ CallIs(c, "handle") /\ calls[c].input.mode = "commit"
    /\ \/ Payload(c) \notin previews /\ Return(c, "failure")
       \/ /\ Payload(c) \in previews /\ known # None
          /\ Return(c, IF known = Payload(c) THEN "committed" ELSE "failure")
    /\ UNCHANGED <<records, previews, commits, saves, stops, now>>

\* saveDraft: the draft is made or not, the answer comes or not.
SaveDraft(c) ==
    /\ CallIs(c, "handle") /\ calls[c].input.mode = "commit"
    /\ Payload(c) \in previews /\ commits[Key(c)] = None
    /\ \/ /\ ~calls[c].aborted
          /\ saves' = saves \cup {[key |-> Key(c), payload |-> Payload(c), by |-> c, at |-> now]}
          /\ MoveTo(c, "readback") \/ Refuse(c)
       \/ Refuse(c) /\ UNCHANGED saves
    /\ UNCHANGED <<records, previews, commits, stops, now>>

\* readDraft: the draft is there, is not, or the call breaks.
ReadBack(c) ==
    /\ CallIs(c, "readback")
    /\ \/ Return(c, "committed") /\ commits' = [commits EXCEPT ![Key(c)] = Payload(c)]
       \/ Return(c, "failure") /\ UNCHANGED commits
       \/ Refuse(c) /\ UNCHANGED commits
    /\ UNCHANGED <<records, previews, saves, stops, now>>

\* commit of the reservation, unless the request was given up: whatever the
\* handler said is what the key will say.
Keep(c) ==
    /\ CallIs(c, "keep")
    /\ IF calls[c].aborted \/ ~Same(c)
       THEN Refuse(c) /\ UNCHANGED records
       ELSE /\ records' = [records EXCEPT ![Key(c)].result = IF @ = None THEN calls[c].result ELSE @]
            /\ MoveTo(c, "audit")
    /\ UNCHANGED <<previews, commits, saves, stops, now>>

\* The audit row, without which the result is not released.
AuditCall(c) ==
    /\ CallIs(c, "audit")
    /\ \/ ~calls[c].aborted /\ calls' = [calls EXCEPT ![c].at = "answered", ![c].started = 0]
       \/ Refuse(c)
    /\ UNCHANGED <<records, previews, commits, saves, stops, now>>

\* withTimeout raises the signal; the steps that look at it go no further.
TimeOut(c) ==
    /\ Running(c) /\ ~calls[c].aborted
    /\ calls' = [calls EXCEPT ![c].aborted = TRUE]
    /\ UNCHANGED <<records, previews, commits, saves, stops, now>>

\* The process stops and starts again with the rows it has.
Stop ==
    /\ stops < MaxStops
    /\ stops' = stops + 1
    /\ previews' = {}
    /\ commits' = [k \in Keys |-> None]
    /\ calls' = [c \in Calls |-> IF Running(c) THEN Ended ELSE calls[c]]
    /\ UNCHANGED <<records, saves, now>>

ToolTick ==
    /\ now < MaxTime
    /\ \A c \in Calls : Running(c) /\ now - calls[c].started >= CallTimeout => calls[c].aborted
    /\ now' = now + 1
    /\ UNCHANGED toolVars

ToolNext ==
    \/ \E c \in Calls :
          \/ \E k \in Keys, input \in Input : Invoke(c, k, input)
          \/ Reserve(c) \/ Preview(c) \/ CommitKnown(c) \/ SaveDraft(c) \/ ReadBack(c)
          \/ Keep(c) \/ AuditCall(c) \/ TimeOut(c)
    \/ Stop
    \/ ToolTick

ToolSpec == ToolInit /\ now = 0 /\ [][ToolNext]_<<toolVars, now>>

-----------------------------------------------------------------------------
ToolTypeOK ==
    /\ records \in [Keys -> Record \cup {None}]
    /\ previews \subseteq Payloads
    /\ commits \in [Keys -> Payloads \cup {None}]
    /\ saves \subseteq Save
    /\ calls \in [Calls -> Call]
    /\ stops \in 0..MaxStops
    /\ now \in Times

\* A key saves twice only when its reservation is over: retries, timeouts, lost
\* answers and restarts never make two drafts within the time to live of the
\* key, less the time a request may take (reserve, and throwIfAborted before
\* the save).
OneSavePerReservation ==
    \A a, b \in saves :
        a.key = b.key /\ a # b => a.at - b.at >= KeyTtl - CallTimeout
                                  \/ b.at - a.at >= KeyTtl - CallTimeout

\* An answer, also one replayed from the row or from the adapter's map, is
\* about the payload of its request, and a commit it reports was saved.
AnswersAreTrue ==
    \A c \in Calls :
        CallIs(c, "answered") =>
            /\ calls[c].result.payload = Payload(c)
            /\ calls[c].result.status = "committed" =>
                  \E s \in saves : s.key = Key(c) /\ s.payload = Payload(c)
==============================================================================
