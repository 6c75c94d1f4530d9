---------------------------- MODULE ScheduleQuery ----------------------------
(***************************************************************************)
(* A live query for sailing schedules (maritime/schedule-live/service.ts,  *)
(* schedule-collector/service.ts and the carriers' adapters): a person or  *)
(* a machine asks, the query of the carrier runs window by window, each    *)
(* window's response is kept as a file, and a race with the deadline and   *)
(* with the caller's own cancellation decides what is answered.            *)
(*                                                                         *)
(* The operation and the call that waits for it are two processes: a call  *)
(* that gave up leaves its operation running.  One query at a time, since  *)
(* signal, request budget, identifiers and files belong to one query.      *)
(* What a carrier answers is whether it did, and whether its parser could  *)
(* read all of the window; records, routing filter and locations are left  *)
(* out, and so are adapters that are not live.                             *)
(***************************************************************************)
EXTENDS Integers, FiniteSets

CONSTANTS
    LastDeparture,              \* the query is for the days 1..LastDeparture
    WindowDays                  \* the longest window a carrier takes

ASSUME ScheduleAssumption == LastDeparture \in Nat \ {0} /\ WindowDays \in Nat \ {0}

VARIABLES
    search,                     \* who asks, where the call stands, its answer
    operation,                  \* where the query stands, its window, its verdict
    coverage,                   \* the windows read so far: days, and whether whole
    files,                      \* the evidence on disk: the windows of it
    rows,                       \* the audit: the statuses recorded
    stop                        \* what struck: the deadline, the caller

scheduleVars == <<search, operation, coverage, files, rows, stop>>

SearchInit ==
    /\ search \in [by : {"person", "machine"}, at : {"asking"}, answer : {"none"}]
    /\ operation = [at |-> "none", from |-> 1, verdict |-> "none"]
    /\ coverage = {} /\ files = {} /\ rows = {} /\ stop = "none"

Stopped == stop # "none"
Until(from) == IF from + WindowDays - 1 < LastDeparture THEN from + WindowDays - 1 ELSE LastDeparture

Audits(status) == rows' = rows \cup {status}
CallAt(at)      == search' = [search EXCEPT !.at = at]
OperationAt(at) == operation' = [operation EXCEPT !.at = at]
KeepCall       == UNCHANGED <<search, stop>>
Settles(verdict) == operation' = [operation EXCEPT !.at = "settled", !.verdict = verdict]

-----------------------------------------------------------------------------
(* The operation.  Every action is what follows one wait.                  *)

\* record(query_started) refuses an aborted signal before and after the row.
RecordStart ==
    /\ operation.at = "start"
    /\ \/ Audits("started") /\ IF Stopped THEN Settles("error") ELSE OperationAt("locate")
       \/ UNCHANGED rows /\ Settles("error")
    /\ KeepCall /\ UNCHANGED <<coverage, files>>

\* The two locations, their requests and their candidates.
Locate ==
    /\ operation.at = "locate"
    /\ \/ ~Stopped /\ OperationAt("fetch")
       \/ Settles("error")
    /\ KeepCall /\ UNCHANGED <<coverage, files, rows>>

\* A window that failed: nothing read, nothing to keep.
WindowFails ==
    IF coverage = {} THEN Settles("error")
    ELSE operation' = [operation EXCEPT !.at = "judge", !.verdict = "partial"]

\* The loop looks at the signal and gives up all it has; then the request of a
\* window, its retries and its budget.  The evidence store looks at the signal
\* before it starts to write.
Fetch ==
    /\ operation.at = "fetch"
    /\ \/ ~Stopped /\ OperationAt("store")
       \/ WindowFails
       \/ Stopped /\ Settles("error")
    /\ KeepCall /\ UNCHANGED <<coverage, files, rows>>

\* The file is written, or it is not; a signal that struck meanwhile counts
\* afterwards, and a parser may refuse what was written.
Store ==
    /\ operation.at = "store"
    /\ \/ WindowFails /\ UNCHANGED coverage
             /\ (UNCHANGED files \/ files' = files \cup {operation.from})
       \/ /\ ~Stopped
          /\ files' = files \cup {operation.from}
          /\ \E whole \in BOOLEAN : coverage' = coverage \cup
                {[from |-> operation.from, until |-> Until(operation.from), whole |-> whole]}
          /\ operation' = IF Until(operation.from) < LastDeparture
                          THEN [operation EXCEPT !.at = "fetch", !.from = Until(operation.from) + 1]
                          ELSE [operation EXCEPT !.at = "judge", !.verdict = "whole"]
    /\ KeepCall /\ UNCHANGED rows

\* Mutant: the last window speaks for all.
LastIsComplete == \E w \in coverage : w.until = LastDeparture /\ w.whole

\* combineResults.
Complete == \A w \in coverage : w.whole

\* coverageCoversQuery: a window reaches the last day and none up to it, in
\* their order, leaves a day out.
CoversQuery ==
    \E last \in coverage :
        /\ last.until >= LastDeparture
        /\ \A w \in {v \in coverage : v.from <= last.from} :
               w.from <= 1 \/ \E v \in coverage : v.from < w.from /\ w.from <= v.until + 1

\* runStatusFor, the schema, the signal.  What is kept of a query that was
\* stopped is not answered either: its audit refuses the aborted signal.
Judge ==
    /\ operation.at = "judge"
    /\ \/ Settles("error")
       \/ /\ ~Stopped
          /\ \/ operation' = [operation EXCEPT !.at = "append", !.verdict = "partial"]
             \/ /\ operation.verdict = "whole" /\ Complete /\ CoversQuery
                /\ operation' = [operation EXCEPT !.at = "append", !.verdict = "success"]
    /\ KeepCall /\ UNCHANGED <<coverage, files, rows>>

\* record(query_completed or query_failed): the row may land after the stop.
RecordVerdict ==
    /\ operation.at = "append"
    /\ \/ Audits(IF operation.verdict = "success" THEN "ok" ELSE "partial")
             /\ Settles(IF Stopped THEN "error" ELSE operation.verdict)
       \/ UNCHANGED rows /\ Settles("error")
    /\ KeepCall /\ UNCHANGED <<coverage, files>>

Operation == RecordStart \/ Locate \/ Fetch \/ Store \/ Judge \/ RecordVerdict

-----------------------------------------------------------------------------
(* The call.                                                               *)

KeepOperation == UNCHANGED <<operation, coverage, files>>

Answers(status) == search' = [search EXCEPT !.at = "answered", !.answer = status]
Throws          == search' = [search EXCEPT !.at = "thrown"]

\* What a sink that fails makes of a call: a machine's is excused once more.
Breaks == IF search.by = "machine" THEN CallAt("excusing") ELSE Throws

\* member, carrierAllowed and the allowlist of the deployment; the deadline
\* starts with the operation, and a caller who is gone already is not served.
Ask ==
    /\ search.at = "asking"
    /\ \/ CallAt("denying") /\ UNCHANGED operation
       \/ IF Stopped THEN CallAt("failing") /\ UNCHANGED operation
          ELSE CallAt("racing") /\ OperationAt("start")
    /\ UNCHANGED <<coverage, files, rows, stop>>

\* A refusal is recorded; a person gets the error, a machine an envelope.
Deny ==
    /\ search.at = "denying"
    /\ \/ Audits("blocked") /\ IF search.by = "machine" THEN Answers("blocked") ELSE Throws
       \/ UNCHANGED rows /\ Breaks
    /\ KeepOperation /\ UNCHANGED stop

\* The deadline and the caller's cancellation count while the race is on.
Strike ==
    /\ stop = "none"
    /\ \/ search.at = "racing" /\ \E by \in {"deadline", "caller"} : stop' = by
       \/ search.at = "asking" /\ stop' = "caller"
    /\ KeepOperation /\ UNCHANGED <<search, rows>>

OperationOver == operation.at = "settled"

\* A value counts unless it is a success that came with an abort.
ValueCounts == operation.verdict # "error" /\ ~(Stopped /\ operation.verdict = "success")

\* The race, or the grace after it, ends with the operation.
TakeResult ==
    /\ search.at \in {"racing", "grace"} /\ OperationOver
    /\ search' = IF ValueCounts
                 THEN [search EXCEPT !.at = "reporting", !.answer = operation.verdict]
                 ELSE [search EXCEPT !.at = "failing"]
    /\ KeepOperation /\ UNCHANGED <<rows, stop>>

\* The race ends with the abort; the operation has 250 ms to settle.
Overtaken ==
    /\ search.at = "racing" /\ Stopped
    /\ CallAt("grace")
    /\ KeepOperation /\ UNCHANGED <<rows, stop>>

GraceElapses ==
    /\ search.at = "grace"
    /\ CallAt("failing")
    /\ KeepOperation /\ UNCHANGED <<rows, stop>>

\* query_failed of the collector, without a signal.
Fail ==
    /\ search.at = "failing"
    /\ \/ Audits("error") /\ search' = [search EXCEPT !.at = "reporting", !.answer = "unavailable"]
       \/ UNCHANGED rows /\ Breaks
    /\ KeepOperation /\ UNCHANGED stop

\* The last row of the live service carries the status that is answered.
Report ==
    /\ search.at = "reporting"
    /\ \/ Audits(search.answer) /\ CallAt("answered")
       \/ UNCHANGED rows /\ Breaks
    /\ KeepOperation /\ UNCHANGED stop

\* The catch of machineExecute.
Excuse ==
    /\ search.at = "excusing"
    /\ \/ Audits("unavailable") /\ Answers("unavailable")
       \/ UNCHANGED rows /\ Throws
    /\ KeepOperation /\ UNCHANGED stop

SearchNext ==
    \/ Ask \/ Deny \/ Strike \/ TakeResult \/ Overtaken \/ GraceElapses \/ Fail \/ Report \/ Excuse
    \/ Operation

SearchSpec == SearchInit /\ [][SearchNext]_scheduleVars

-----------------------------------------------------------------------------

Read == [from : 1..LastDeparture, until : 1..LastDeparture, whole : BOOLEAN]

ScheduleTypeOK ==
    /\ search \in [by : {"person", "machine"},
                   at : {"asking", "denying", "racing", "grace", "failing", "reporting",
                         "excusing", "answered", "thrown"},
                   answer : {"none", "success", "partial", "blocked", "unavailable"}]
    /\ operation \in [at : {"none", "start", "locate", "fetch", "store", "judge", "append", "settled"},
                      from : 1..LastDeparture,
                      verdict : {"none", "whole", "partial", "success", "error"}]
    /\ coverage \subseteq Read /\ files \subseteq 1..LastDeparture
    /\ rows \subseteq {"started", "ok", "partial", "error", "success", "blocked", "unavailable"}
    /\ stop \in {"none", "deadline", "caller"}

\* A query that is answered as a success was read to the end: every day of it
\* is in a window whose response was understood and is on disk, the audit holds
\* the completion and the answer, and neither the deadline nor the caller had
\* struck: whatever fails, in whatever order the operation, the race and the
\* audit come to an end (query, withOperationDeadline, search).
SuccessIsWhole ==
    search.at = "answered" /\ search.answer = "success" =>
        /\ \A day \in 1..LastDeparture : \E w \in coverage :
               day \in w.from..w.until /\ w.whole /\ w.from \in files
        /\ {"ok", "success"} \subseteq rows /\ "error" \notin rows
        /\ ~Stopped
=============================================================================
