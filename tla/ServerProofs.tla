---------------------------- MODULE ServerProofs ------------------------------
(***************************************************************************)
(* The parts of the MCP server process, for any tools, keys, sessions,     *)
(* releases, plugins and bounds.  Each part is proved by itself: they      *)
(* share nothing but the clock of the process.                             *)
(***************************************************************************)
EXTENDS ToolWrites, Sessions, ManagedProvider, PluginConfig,
    FiniteSetTheorems, SequenceTheorems, TLAPS

-----------------------------------------------------------------------------
(***************************************************************************)
(* Theorems about writes through a tool.                                   *)
(***************************************************************************)

\* A draft of payload p was saved under key k.
Saved(k, p) == \E s \in saves : s.key = k /\ s.payload = p
\* What a call or a row says of the request it is about.
TrueOf(result, k, p) ==
    /\ result.payload = p
    /\ result.status = "committed" => Saved(k, p)

\* A call that runs is about a key and an input, and whoever has an answer says
\* what is true.
CallsTell ==
    \A c \in Calls :
        /\ Running(c) \/ CallIs(c, "answered") => Key(c) \in Keys /\ calls[c].input \in Input
        /\ calls[c].at \in {"keep", "audit", "answered"} =>
              calls[c].result # None /\ TrueOf(calls[c].result, Key(c), Payload(c))
        /\ CallIs(c, "readback") => Saved(Key(c), Payload(c))

\* So do the rows and the adapter's map.
StoresTell ==
    /\ \A k \in Keys : commits[k] # None => Saved(k, commits[k])
    /\ \A k \in Keys : records[k] # None /\ records[k].result # None =>
          TrueOf(records[k].result, k, records[k].input.payload)

\* A call that was not given up is younger than the timeout.
CallsAreYoung ==
    \A c \in Calls : Running(c) =>
        /\ calls[c].started <= now
        /\ ~calls[c].aborted => now - calls[c].started <= CallTimeout

\* No row was reserved in the future, and a save came soon after the row that
\* its key has now, or an older one.
RowsCoverSaves ==
    /\ \A k \in Keys : records[k] # None => records[k].expires <= now + KeyTtl
    /\ \A s \in saves : /\ records[s.key] # None
                        /\ s.at <= now
                        /\ s.at + KeyTtl - CallTimeout <= records[s.key].expires

\* A call that may still save has the row of its key, and all the saves of the
\* key were made under rows that were over when it got that row.
SaversHold ==
    \A c \in Calls : CallIs(c, "handle") /\ ~calls[c].aborted =>
        /\ records[Key(c)] # None
        /\ records[Key(c)].by = c
        /\ calls[c].started + KeyTtl <= records[Key(c)].expires
        /\ \A s \in saves : s.key = Key(c) =>
              s.at + KeyTtl - CallTimeout <= records[Key(c)].expires - KeyTtl

ToolInv ==
    /\ ToolTypeOK /\ CallsTell /\ StoresTell
    /\ CallsAreYoung /\ RowsCoverSaves /\ SaversHold /\ OneSavePerReservation

-----------------------------------------------------------------------------
(* Steps that change no table.                                             *)

CallOf(c, call) == calls' = [calls EXCEPT ![c] = call]
Tables          == <<records, commits, saves, stops, now>>

\* What a call is has to be, whatever the tables say.
GoodCall(c, call) ==
    /\ call \in Call
    /\ call.at \notin {"idle", "refused"} => call.key \in Keys /\ call.input \in Input
    /\ call.at \in {"keep", "audit", "answered"} =>
          call.result # None /\ TrueOf(call.result, call.key, call.input.payload)
    /\ call.at = "readback" => Saved(call.key, call.input.payload)
    /\ call.at \notin {"idle", "refused", "answered"} =>
          /\ call.started <= now
          /\ ~call.aborted => now - call.started <= CallTimeout

LEMMA CallsAreGood == ASSUME ToolInv, NEW c \in Calls PROVE GoodCall(c, calls[c])
BY DEF ToolInv, ToolTypeOK, CallsTell, CallsAreYoung, GoodCall, Running, CallIs, Key, Payload, Call,
       CallAt

LEMMA EndedIsGood == ASSUME NEW c \in Calls, MaxTime \in Nat PROVE GoodCall(c, Ended) /\ Ended.at = "refused"
<1>1. 0 \in Times
  BY DEF Times
<1>2. Silent \in Call
  BY <1>1 DEF Silent, Call, CallAt
<1>3. Ended \in Call /\ Ended.at = "refused"
  BY <1>2 DEF Ended, Call, CallAt
<1> QED BY <1>3 DEF GoodCall

\* A call that changes alone, and does not come to where it may save.
LEMMA CallStep ==
    ASSUME ToolInv, NEW c \in Calls, NEW call, GoodCall(c, call), CallOf(c, call),
           call.at = "handle" /\ ~call.aborted => FALSE,
           previews' \subseteq Payloads, UNCHANGED Tables
    PROVE  ToolInv'
<1>1. /\ calls' \in [Calls -> Call] /\ calls'[c] = call
      /\ \A d \in Calls : d # c => calls'[d] = calls[d]
  BY DEF ToolInv, ToolTypeOK, GoodCall, CallOf
<1>2. ToolTypeOK'
  BY <1>1 DEF ToolInv, ToolTypeOK, Tables
<1>3. CallsTell'
  BY <1>1 DEF ToolInv, CallsTell, GoodCall, Running, CallIs, Key, Payload, Saved, TrueOf, Tables
<1>4. CallsAreYoung'
  BY <1>1 DEF ToolInv, CallsAreYoung, GoodCall, Running, Tables
<1>5. SaversHold'
  BY <1>1 DEF ToolInv, SaversHold, CallIs, Key, Tables
<1>6. StoresTell' /\ RowsCoverSaves' /\ OneSavePerReservation'
  BY DEF ToolInv, StoresTell, RowsCoverSaves, OneSavePerReservation, Saved, TrueOf, Tables
<1> QED BY <1>2, <1>3, <1>4, <1>5, <1>6 DEF ToolInv

-----------------------------------------------------------------------------
(* The steps.                                                              *)

LEMMA InvokeKeeps ==
    ASSUME ToolInv, NEW c \in Calls, NEW k \in Keys, NEW input \in Input, Invoke(c, k, input)
    PROVE  ToolInv'
<1> DEFINE call == [calls[c] EXCEPT !.at = "reserve", !.key = k, !.input = input, !.started = now]
<1>1. calls[c] \in Call /\ now \in Times /\ now \in Nat
  BY ToolAssumption DEF ToolInv, ToolTypeOK, Times
<1>2. CallOf(c, call)
  BY <1>1 DEF Invoke, CallOf, Call
<1>3. /\ call \in Call /\ call.at = "reserve" /\ call.key = k /\ call.input = input
      /\ call.started = now
  BY <1>1 DEF Call, CallAt
<1> HIDE DEF call
<1>4. GoodCall(c, call)
  BY <1>1, <1>3, ToolAssumption DEF GoodCall
<1> QED BY <1>2, <1>3, <1>4, CallStep DEF Invoke, Tables, ToolInv, ToolTypeOK

\* What a call has become when all it did was to be refused.
LEMMA RefuseKeeps ==
    ASSUME ToolInv, NEW c \in Calls, Refuse(c), previews' \subseteq Payloads, UNCHANGED Tables
    PROVE  ToolInv'
<1>1. GoodCall(c, Ended) /\ Ended.at = "refused"
  BY EndedIsGood, ToolAssumption
<1> QED BY <1>1, CallStep DEF Refuse, CallOf

\* A call that goes on with what it has, or with a result.
LEMMA MoveIsCall ==
    ASSUME ToolInv, NEW c \in Calls, NEW at \in CallAt, NEW result \in Result \cup {None},
           calls' = [calls EXCEPT ![c].at = at, ![c].result = result]
    PROVE  /\ CallOf(c, [calls[c] EXCEPT !.at = at, !.result = result])
           /\ [calls[c] EXCEPT !.at = at, !.result = result] \in Call
BY DEF ToolInv, ToolTypeOK, CallOf, Call

\* A row that another call reserved for the same request answers this one.
LEMMA ReplayKeeps ==
    ASSUME ToolInv, NEW c \in Calls, CallIs(c, "reserve"), Same(c), Row(Key(c)).result # None,
           calls' = [calls EXCEPT ![c].at = "audit", ![c].result = Row(Key(c)).result],
           previews' \subseteq Payloads, UNCHANGED Tables
    PROVE  ToolInv'
<1> DEFINE result == records[Key(c)].result
           call   == [calls[c] EXCEPT !.at = "audit", !.result = result]
<1>1. Key(c) \in Keys /\ calls[c].input \in Input /\ GoodCall(c, calls[c])
  BY CallsAreGood DEF ToolInv, CallsTell, CallIs, Running
<1>2. Row(Key(c)) = records[Key(c)] /\ records[Key(c)] # None
  BY DEF Same, Row
<1>3. records[Key(c)] \in Record /\ result \in Result
  BY <1>1, <1>2 DEF ToolInv, ToolTypeOK, Record
<1>4. TrueOf(result, Key(c), Payload(c)) /\ result # None
  BY <1>1, <1>2 DEF ToolInv, StoresTell, Same, Payload
<1>5. CallOf(c, call) /\ call \in Call
  BY <1>2, <1>3, MoveIsCall DEF CallAt
<1>6. GoodCall(c, call)
  BY <1>1, <1>4, <1>5 DEF GoodCall, Call, CallIs, Key, Payload
<1> QED BY <1>1, <1>5, <1>6, CallStep DEF GoodCall, Call

LEMMA ReturnKeeps ==
    ASSUME ToolInv, NEW c \in Calls, CallIs(c, "handle") \/ CallIs(c, "readback"),
           NEW status \in {"failure", "previewed", "committed"}, Return(c, status),
           status = "committed" => Saved(Key(c), Payload(c)),
           previews' \subseteq Payloads, UNCHANGED Tables
    PROVE  ToolInv'
<1> DEFINE result == [status |-> status, payload |-> Payload(c)]
           call   == [calls[c] EXCEPT !.at = "keep", !.result = result]
<1>1. Key(c) \in Keys /\ calls[c].input \in Input /\ GoodCall(c, calls[c])
  BY CallsAreGood DEF ToolInv, CallsTell, CallIs, Running
<1>2. Payload(c) \in Payloads
  BY <1>1 DEF Payload, Input
<1>3. result \in Result /\ result # None
  BY <1>2, RecordAssumption DEF Result
<1>4. CallOf(c, call) /\ call \in Call
  BY <1>3, MoveIsCall DEF Return, CallAt
<1>5. TrueOf(result, Key(c), Payload(c))
  BY DEF TrueOf
<1> HIDE DEF result
<1>6. GoodCall(c, call)
  BY <1>1, <1>3, <1>4, <1>5 DEF GoodCall, Call, CallIs, Key, Payload
<1> QED BY <1>1, <1>4, <1>6, CallStep DEF GoodCall, Call

\* The key is free, or its time is over: the row becomes this call's.
LEMMA NewRowKeeps ==
    ASSUME ToolInv, NEW c \in Calls, CallIs(c, "reserve"), Row(Key(c)) = None,
           records' = [records EXCEPT ![Key(c)] =
               [input |-> calls[c].input, result |-> None, by |-> c, expires |-> now + KeyTtl]],
           IF calls[c].aborted THEN Refuse(c) ELSE MoveTo(c, "handle"),
           UNCHANGED <<previews, commits, saves, stops, now>>
    PROVE  ToolInv'
<1> DEFINE row == [input |-> calls[c].input, result |-> None, by |-> c, expires |-> now + KeyTtl]
           k   == Key(c)
<1>1. k \in Keys /\ calls[c].input \in Input /\ GoodCall(c, calls[c])
  BY CallsAreGood DEF ToolInv, CallsTell, CallIs, Running
<1>2. now \in Nat /\ now \in Times /\ KeyTtl \in Nat /\ CallTimeout \in Nat /\ CallTimeout < KeyTtl
  BY ToolAssumption DEF ToolInv, ToolTypeOK, Times
<1>3. row \in Record /\ row # None
  BY <1>1, <1>2, RecordAssumption DEF Record
<1>4. /\ row.input = calls[c].input /\ row.result = None /\ row.by = c /\ row.expires = now + KeyTtl
  OBVIOUS
<1>5. records' = [records EXCEPT ![k] = row]
  OBVIOUS
<1>6. records[k] # None => records[k] \in Record /\ records[k].expires <= now /\ records[k].expires \in Nat
  <2>1. records[k] # None => records[k] \in Record /\ records[k].expires \in Nat
    BY <1>1 DEF ToolInv, ToolTypeOK, Record
  <2>2. records[k] # None => records[k].expires <= now
    BY DEF Row
  <2> QED BY <2>1, <2>2
<1> HIDE DEF row, k
<1>7. /\ records' \in [Keys -> Record \cup {None}] /\ records'[k] = row
      /\ \A j \in Keys : j # k => records'[j] = records[j]
  BY <1>1, <1>3, <1>5 DEF ToolInv, ToolTypeOK
<1>8. \E call : /\ CallOf(c, call) /\ GoodCall(c, call)
                /\ call.at = "handle" => call.key = k /\ call.started = calls[c].started
                /\ call.at \in {"handle", "refused"}
  <2>1. CASE calls[c].aborted
    <3>1. CallOf(c, Ended)
      BY <2>1 DEF Refuse, CallOf
    <3> QED BY <3>1, EndedIsGood, ToolAssumption
  <2>2. CASE ~calls[c].aborted
    <3> DEFINE call == [calls[c] EXCEPT !.at = "handle"]
    <3>1. CallOf(c, call)
      BY <2>2 DEF MoveTo, CallOf
    <3>2. call.key = k /\ call.started = calls[c].started /\ call.at = "handle" /\ GoodCall(c, call)
      BY <1>1 DEF GoodCall, Call, CallAt, CallIs, Key, k
    <3> QED BY <3>1, <3>2
  <2> QED BY <2>1, <2>2
<1>9. PICK call : /\ CallOf(c, call) /\ GoodCall(c, call)
                  /\ call.at = "handle" => call.key = k /\ call.started = calls[c].started
                  /\ call.at \in {"handle", "refused"}
  BY <1>8
<1>10. /\ calls' \in [Calls -> Call] /\ calls'[c] = call
       /\ \A d \in Calls : d # c => calls'[d] = calls[d]
  BY <1>9 DEF ToolInv, ToolTypeOK, GoodCall, CallOf
<1>11. ToolTypeOK'
  BY <1>7, <1>10 DEF ToolInv, ToolTypeOK
<1>12. CallsTell'
  BY <1>9, <1>10 DEF ToolInv, CallsTell, GoodCall, Running, CallIs, Key, Payload, Saved, TrueOf
<1>13. CallsAreYoung'
  BY <1>9, <1>10 DEF ToolInv, CallsAreYoung, GoodCall, Running
<1>14. StoresTell'
  BY <1>4, <1>7 DEF ToolInv, StoresTell, Saved, TrueOf
\* The row before was over, so that the saves under it are old.
<1>15. \A s \in saves : s.key = k => s.at + KeyTtl - CallTimeout <= now
  BY <1>1, <1>2, <1>6 DEF ToolInv, ToolTypeOK, RowsCoverSaves, Save, Times
<1>16. \A s \in saves : s.key \in Keys /\ s.at \in Int
  BY DEF ToolInv, ToolTypeOK, Save, Times
<1>17. RowsCoverSaves'
  <2>1. \A j \in Keys : records'[j] # None => records'[j].expires <= now' + KeyTtl
    BY <1>2, <1>4, <1>7 DEF ToolInv, RowsCoverSaves
  <2>2. \A s \in saves : /\ records'[s.key] # None /\ s.at <= now
                         /\ s.at + KeyTtl - CallTimeout <= records'[s.key].expires
    <3>1. TAKE s \in saves
    <3>2. CASE s.key = k
      BY <1>2, <1>3, <1>4, <1>7, <1>15, <1>16, <3>2 DEF ToolInv, RowsCoverSaves
    <3>3. CASE s.key # k
      BY <1>7, <1>16, <3>3 DEF ToolInv, RowsCoverSaves
    <3> QED BY <3>2, <3>3
  <2> QED BY <2>1, <2>2 DEF RowsCoverSaves
<1>18. SaversHold'
  <2> SUFFICES ASSUME NEW d \in Calls, calls'[d].at = "handle", ~calls'[d].aborted
               PROVE  /\ records'[calls'[d].key] # None
                      /\ records'[calls'[d].key].by = d
                      /\ calls'[d].started + KeyTtl <= records'[calls'[d].key].expires
                      /\ \A s \in saves : s.key = calls'[d].key =>
                            s.at + KeyTtl - CallTimeout <= records'[calls'[d].key].expires - KeyTtl
    BY DEF SaversHold, CallIs, Key
  <2>1. CASE d = c
    <3>1. call.key = k /\ call.started <= now /\ call.started \in Int
      BY <1>9, <1>10, <2>1 DEF GoodCall, Call, Times
    <3> QED BY <1>2, <1>3, <1>4, <1>7, <1>10, <1>15, <1>16, <2>1, <3>1
  <2>2. CASE d # c
    <3>1. calls[d].at = "handle" /\ ~calls[d].aborted /\ GoodCall(d, calls[d])
      BY <1>10, <2>2, CallsAreGood
    <3>2. calls[d].key \in Keys /\ now - calls[d].started <= CallTimeout /\ calls[d].started \in Int
      BY <3>1 DEF GoodCall, Call, Times
    <3>3. calls[d].key # k
      BY <1>1, <1>2, <1>6, <3>1, <3>2 DEF ToolInv, SaversHold, CallIs, Key
    <3> QED BY <1>7, <1>10, <2>2, <3>1, <3>2, <3>3 DEF ToolInv, SaversHold, CallIs, Key
  <2> QED BY <2>1, <2>2
<1> QED BY <1>11, <1>12, <1>13, <1>14, <1>17, <1>18 DEF ToolInv, OneSavePerReservation

LEMMA ReserveKeeps == ASSUME ToolInv, NEW c \in Calls, Reserve(c) PROVE ToolInv'
<1>1. CallIs(c, "reserve") /\ UNCHANGED <<previews, commits, saves, stops, now>>
  BY DEF Reserve
<1>2. CASE Refuse(c) /\ UNCHANGED records
  BY <1>1, <1>2, RefuseKeeps DEF Tables, ToolInv, ToolTypeOK
<1>3. CASE /\ Same(c) /\ Row(Key(c)).result # None
           /\ calls' = [calls EXCEPT ![c].at = "audit", ![c].result = Row(Key(c)).result]
           /\ UNCHANGED records
  BY <1>1, <1>3, ReplayKeeps DEF Tables, ToolInv, ToolTypeOK
<1>4. CASE /\ Row(Key(c)) = None
           /\ records' = [records EXCEPT ![Key(c)] =
                [input |-> calls[c].input, result |-> None, by |-> c, expires |-> now + KeyTtl]]
           /\ IF calls[c].aborted THEN Refuse(c) ELSE MoveTo(c, "handle")
  BY <1>1, <1>4, NewRowKeeps
<1> QED BY <1>2, <1>3, <1>4 DEF Reserve

LEMMA PreviewKeeps == ASSUME ToolInv, NEW c \in Calls, Preview(c) PROVE ToolInv'
<1>1. calls[c].input \in Input
  BY DEF ToolInv, CallsTell, Preview, CallIs, Running
<1>2. previews' \subseteq Payloads
  BY <1>1 DEF ToolInv, ToolTypeOK, Preview, Payload, Input
<1> QED BY <1>2, ReturnKeeps DEF Preview, Tables

LEMMA CommitKnownKeeps == ASSUME ToolInv, NEW c \in Calls, CommitKnown(c) PROVE ToolInv'
<1>1. /\ CallIs(c, "handle") /\ previews' \subseteq Payloads /\ UNCHANGED Tables
  BY DEF CommitKnown, ToolInv, ToolTypeOK, Tables
<1>2. CASE Return(c, "failure")
  BY <1>1, <1>2, ReturnKeeps
<1>3. CASE /\ commits[Key(c)] # None /\ commits[Key(c)] = Payload(c) /\ Return(c, "committed")
  <2>1. Key(c) \in Keys
    BY <1>1 DEF ToolInv, CallsTell, CallIs, Running
  <2>2. Saved(Key(c), Payload(c))
    BY <1>3, <2>1 DEF ToolInv, StoresTell
  <2> QED BY <1>1, <1>3, <2>2, ReturnKeeps
<1> QED BY <1>2, <1>3 DEF CommitKnown

\* The save comes within the time its row stands for, and all the others of its
\* key came under rows that were over when this one was reserved.
LEMMA SaveKeeps ==
    ASSUME ToolInv, NEW c \in Calls, CallIs(c, "handle"), ~calls[c].aborted,
           saves' = saves \cup {[key |-> Key(c), payload |-> Payload(c), by |-> c, at |-> now]},
           MoveTo(c, "readback") \/ Refuse(c),
           UNCHANGED <<records, previews, commits, stops, now>>
    PROVE  ToolInv'
<1> DEFINE save == [key |-> Key(c), payload |-> Payload(c), by |-> c, at |-> now]
           k    == Key(c)
<1>1. k \in Keys /\ calls[c].input \in Input /\ GoodCall(c, calls[c])
  BY CallsAreGood DEF ToolInv, CallsTell, CallIs, Running
<1>2. now \in Nat /\ now \in Times /\ KeyTtl \in Nat /\ CallTimeout \in Nat /\ CallTimeout < KeyTtl
  BY ToolAssumption DEF ToolInv, ToolTypeOK, Times
<1>3. save \in Save
  BY <1>1, <1>2 DEF Save, Payload, Input
<1>4. save.key = k /\ save.payload = Payload(c) /\ save.at = now
  OBVIOUS
<1>5. saves' = saves \cup {save}
  OBVIOUS
<1> HIDE DEF save
<1>6. \A j, p : Saved(j, p) => Saved(j, p)'
  BY <1>5 DEF Saved
<1>7. \E s \in saves' : s.key = k /\ s.payload = Payload(c)
  BY <1>4, <1>5 DEF Saved, k
<1>8. /\ records[k] # None /\ records[k].by = c
      /\ calls[c].started + KeyTtl <= records[k].expires
      /\ \A s \in saves : s.key = k => s.at + KeyTtl - CallTimeout <= records[k].expires - KeyTtl
  BY DEF ToolInv, SaversHold
<1>9. /\ now - calls[c].started <= CallTimeout /\ calls[c].started \in Int
      /\ records[k].expires \in Int /\ records[k].expires <= now + KeyTtl
  BY <1>1, <1>8 DEF GoodCall, CallIs, Call, Times, ToolInv, ToolTypeOK, Record, RowsCoverSaves
<1> HIDE DEF k
<1>10. \A s \in saves : s.key \in Keys /\ s.at \in Int
  BY DEF ToolInv, ToolTypeOK, Save, Times
<1>11. /\ calls' \in [Calls -> Call]
       /\ calls'[c].at = "refused" \/
             /\ calls'[c] = [calls[c] EXCEPT !.at = "readback"]
             /\ calls'[c].at = "readback" /\ calls'[c].key = k /\ calls'[c].input = calls[c].input
             /\ calls'[c].started = calls[c].started /\ calls'[c].aborted = calls[c].aborted
       /\ \A d \in Calls : d # c => calls'[d] = calls[d]
  <2>1. CASE Refuse(c)
    BY <2>1, EndedIsGood, ToolAssumption DEF Refuse, GoodCall, ToolInv, ToolTypeOK
  <2>2. CASE MoveTo(c, "readback")
    BY <1>1, <2>2 DEF MoveTo, GoodCall, ToolInv, ToolTypeOK, Call, CallAt, Key, k
  <2> QED BY <2>1, <2>2
<1>12. ToolTypeOK'
  BY <1>3, <1>5, <1>11 DEF ToolInv, ToolTypeOK
<1>13. CallsTell'
  <2> SUFFICES ASSUME NEW d \in Calls PROVE
        /\ calls'[d].at \notin {"idle", "refused"} => calls'[d].key \in Keys /\ calls'[d].input \in Input
        /\ calls'[d].at \in {"keep", "audit", "answered"} =>
              calls'[d].result # None /\ TrueOf(calls[d].result, calls[d].key, calls[d].input.payload)'
        /\ calls'[d].at = "readback" => Saved(calls[d].key, calls[d].input.payload)'
    BY DEF CallsTell, Running, CallIs, Key, Payload
  <2>1. CASE d = c
    BY <1>1, <1>7, <1>11, <2>1 DEF Saved, Payload
  <2>2. CASE d # c
    <3>1. calls'[d] = calls[d] /\ GoodCall(d, calls[d])
      BY <1>11, <2>2, CallsAreGood
    <3> QED BY <1>6, <3>1 DEF GoodCall, TrueOf
  <2> QED BY <2>1, <2>2
<1>14. StoresTell'
  BY <1>6 DEF ToolInv, StoresTell, TrueOf
<1>15. CallsAreYoung'
  BY <1>1, <1>11 DEF ToolInv, CallsAreYoung, Running, GoodCall, CallIs
<1>16. RowsCoverSaves'
  BY <1>2, <1>4, <1>5, <1>8, <1>9 DEF ToolInv, RowsCoverSaves
<1>17. SaversHold'
  <2> SUFFICES ASSUME NEW d \in Calls, calls'[d].at = "handle", ~calls'[d].aborted
               PROVE  /\ records[calls'[d].key] # None
                      /\ records[calls'[d].key].by = d
                      /\ calls'[d].started + KeyTtl <= records[calls'[d].key].expires
                      /\ \A s \in saves' : s.key = calls'[d].key =>
                            s.at + KeyTtl - CallTimeout <= records[calls'[d].key].expires - KeyTtl
    BY DEF SaversHold, CallIs, Key
  <2>1. d # c /\ calls'[d] = calls[d]
    BY <1>11
  <2>2. /\ records[calls[d].key] # None /\ records[calls[d].key].by = d
        /\ calls[d].started + KeyTtl <= records[calls[d].key].expires
        /\ \A s \in saves : s.key = calls[d].key =>
              s.at + KeyTtl - CallTimeout <= records[calls[d].key].expires - KeyTtl
    BY <2>1 DEF ToolInv, SaversHold, CallIs, Key
  <2>3. calls[d].key # k
    BY <1>8, <2>1, <2>2
  <2> QED BY <1>4, <1>5, <2>1, <2>2, <2>3
<1>18. \A s \in saves : s.key = k => now - s.at >= KeyTtl - CallTimeout
  BY <1>2, <1>8, <1>9, <1>10
<1>19. OneSavePerReservation'
  BY <1>4, <1>5, <1>10, <1>18 DEF ToolInv, OneSavePerReservation
<1> QED BY <1>12, <1>13, <1>14, <1>15, <1>16, <1>17, <1>19 DEF ToolInv

LEMMA SaveDraftKeeps == ASSUME ToolInv, NEW c \in Calls, SaveDraft(c) PROVE ToolInv'
<1>1. CASE Refuse(c) /\ UNCHANGED saves
  BY <1>1, RefuseKeeps DEF SaveDraft, Tables, ToolInv, ToolTypeOK
<1>2. CASE /\ ~calls[c].aborted
           /\ saves' = saves \cup {[key |-> Key(c), payload |-> Payload(c), by |-> c, at |-> now]}
           /\ MoveTo(c, "readback") \/ Refuse(c)
  BY <1>2, SaveKeeps DEF SaveDraft
<1> QED BY <1>1, <1>2 DEF SaveDraft

LEMMA ToolReadBackKeeps == ASSUME ToolInv, NEW c \in Calls, ReadBack(c) PROVE ToolInv'
<1>1. /\ CallIs(c, "readback") /\ UNCHANGED <<records, previews, saves, stops, now>>
      /\ previews' \subseteq Payloads
  BY DEF ReadBack, ToolInv, ToolTypeOK
<1>2. Key(c) \in Keys /\ Payload(c) \in Payloads /\ Saved(Key(c), Payload(c))
  BY <1>1 DEF ToolInv, CallsTell, CallIs, Running, Payload, Input
<1>3. CASE Return(c, "failure") /\ UNCHANGED commits
  BY <1>1, <1>3, ReturnKeeps DEF Tables
<1>4. CASE Refuse(c) /\ UNCHANGED commits
  BY <1>1, <1>4, RefuseKeeps DEF Tables
<1>5. CASE Return(c, "committed") /\ commits' = [commits EXCEPT ![Key(c)] = Payload(c)]
  <2> DEFINE result == [status |-> "committed", payload |-> Payload(c)]
             call   == [calls[c] EXCEPT !.at = "keep", !.result = result]
  <2>1. calls[c].input \in Input /\ GoodCall(c, calls[c])
    BY <1>1, CallsAreGood DEF ToolInv, CallsTell, CallIs, Running
  <2>2. result \in Result /\ result # None
    BY <1>2, RecordAssumption DEF Result
  <2>3. CallOf(c, call) /\ call \in Call
    BY <1>5, <2>2, MoveIsCall DEF Return, CallAt
  <2>4. TrueOf(result, Key(c), Payload(c))
    BY <1>2 DEF TrueOf
  <2> HIDE DEF result
  <2>5. GoodCall(c, call) /\ call.at = "keep"
    BY <1>1, <2>1, <2>2, <2>3, <2>4 DEF GoodCall, Call, CallIs, Key, Payload
  <2> HIDE DEF call
  <2>6. /\ calls' \in [Calls -> Call] /\ calls'[c] = call
        /\ \A d \in Calls : d # c => calls'[d] = calls[d]
    BY <2>3 DEF ToolInv, ToolTypeOK, CallOf
  <2>7. ToolTypeOK'
    BY <1>1, <1>2, <1>5, <2>6 DEF ToolInv, ToolTypeOK
  <2>8. CallsTell'
    BY <1>1, <2>5, <2>6 DEF ToolInv, CallsTell, GoodCall, Running, CallIs, Key, Payload, Saved, TrueOf
  <2>9. StoresTell'
    BY <1>1, <1>2, <1>5 DEF ToolInv, ToolTypeOK, StoresTell, Saved, TrueOf
  <2>10. CallsAreYoung'
    BY <1>1, <2>5, <2>6 DEF ToolInv, CallsAreYoung, GoodCall, Running
  <2>11. SaversHold'
    BY <1>1, <2>5, <2>6 DEF ToolInv, SaversHold, CallIs, Key
  <2>12. RowsCoverSaves' /\ OneSavePerReservation'
    BY <1>1 DEF ToolInv, RowsCoverSaves, OneSavePerReservation
  <2> QED BY <2>7, <2>8, <2>9, <2>10, <2>11, <2>12 DEF ToolInv
<1> QED BY <1>3, <1>4, <1>5 DEF ReadBack

\* The row gets a result that is true of its request, or keeps the one it has.
LEMMA KeepKeeps == ASSUME ToolInv, NEW c \in Calls, Keep(c) PROVE ToolInv'
<1>1. /\ CallIs(c, "keep") /\ UNCHANGED <<previews, commits, saves, stops, now>>
      /\ previews' \subseteq Payloads
  BY DEF Keep, ToolInv, ToolTypeOK
<1>2. CASE Refuse(c) /\ UNCHANGED records
  BY <1>1, <1>2, RefuseKeeps DEF Tables
<1>3. CASE /\ Same(c)
           /\ records' = [records EXCEPT ![Key(c)].result = IF @ = None THEN calls[c].result ELSE @]
           /\ MoveTo(c, "audit")
  <2> DEFINE k   == Key(c)
             row == [records[k] EXCEPT !.result = IF @ = None THEN calls[c].result ELSE @]
  <2>1. /\ k \in Keys /\ calls[c].input \in Input /\ GoodCall(c, calls[c])
        /\ calls[c].result # None /\ TrueOf(calls[c].result, k, Payload(c))
    BY <1>1, CallsAreGood DEF ToolInv, CallsTell, CallIs, Running
  <2>2. records[k] # None /\ records[k] \in Record /\ records[k].input = calls[c].input
    BY <1>3, <2>1 DEF ToolInv, ToolTypeOK, Same, Row
  <2>3. calls[c].result \in Result
    BY <2>1 DEF GoodCall, Call
  <2>4. /\ row \in Record /\ row.by = records[k].by /\ row.expires = records[k].expires
        /\ row.input = records[k].input
        /\ row.result = IF records[k].result = None THEN calls[c].result ELSE records[k].result
    BY <2>2, <2>3 DEF Record
  <2>5. row # None
    BY <2>4, RecordAssumption
  <2>6. records' = [records EXCEPT ![k] = row]
    BY <1>3, <2>1 DEF ToolInv, ToolTypeOK
  <2>7. TrueOf(row.result, k, row.input.payload)
    BY <2>1, <2>2, <2>4 DEF ToolInv, StoresTell, Payload
  <2> HIDE DEF row, k
  <2>8. /\ records' \in [Keys -> Record \cup {None}] /\ records'[k] = row
        /\ \A j \in Keys : j # k => records'[j] = records[j]
    BY <2>1, <2>4, <2>6 DEF ToolInv, ToolTypeOK
  <2>9. \A j \in Keys : /\ records[j] # None => records'[j] # None
                        /\ records'[j] # None => /\ records[j] # None
                                                 /\ records'[j].by = records[j].by
                                                 /\ records'[j].expires = records[j].expires
    BY <2>2, <2>4, <2>5, <2>8
  <2> DEFINE call == [calls[c] EXCEPT !.at = "audit"]
  <2>10. CallOf(c, call) /\ GoodCall(c, call) /\ call.at = "audit"
    BY <1>1, <1>3, <2>1 DEF CallOf, MoveTo, GoodCall, Call, CallAt, CallIs, Key, Payload, k
  <2> HIDE DEF call
  <2>11. /\ calls' \in [Calls -> Call] /\ calls'[c] = call
         /\ \A d \in Calls : d # c => calls'[d] = calls[d]
    BY <2>10 DEF ToolInv, ToolTypeOK, CallOf, GoodCall
  <2>12. ToolTypeOK'
    BY <1>1, <2>8, <2>11 DEF ToolInv, ToolTypeOK
  <2>13. CallsTell'
    BY <1>1, <2>10, <2>11 DEF ToolInv, CallsTell, GoodCall, Running, CallIs, Key, Payload, Saved, TrueOf
  <2>14. StoresTell'
    BY <1>1, <2>7, <2>8 DEF ToolInv, StoresTell, Saved, TrueOf
  <2>15. CallsAreYoung'
    BY <1>1, <2>10, <2>11 DEF ToolInv, CallsAreYoung, GoodCall, Running
  <2>16. RowsCoverSaves'
    <3>1. \A s \in saves : s.key \in Keys
      BY DEF ToolInv, ToolTypeOK, Save
    <3> QED BY <1>1, <2>9, <3>1 DEF ToolInv, RowsCoverSaves
  <2>17. SaversHold'
    <3> SUFFICES ASSUME NEW d \in Calls, calls'[d].at = "handle", ~calls'[d].aborted
                 PROVE  /\ records'[calls'[d].key] # None
                        /\ records'[calls'[d].key].by = d
                        /\ calls'[d].started + KeyTtl <= records'[calls'[d].key].expires
                        /\ \A s \in saves : s.key = calls'[d].key =>
                              s.at + KeyTtl - CallTimeout <= records'[calls'[d].key].expires - KeyTtl
      BY <1>1 DEF SaversHold, CallIs, Key
    <3>1. calls'[d] = calls[d] /\ GoodCall(d, calls[d])
      BY <2>10, <2>11, CallsAreGood
    <3>2. calls[d].key \in Keys
      BY <3>1 DEF GoodCall
    <3> QED BY <2>9, <3>1, <3>2 DEF ToolInv, SaversHold, CallIs, Key
  <2> QED BY <1>1, <2>12, <2>13, <2>14, <2>15, <2>16, <2>17 DEF ToolInv, OneSavePerReservation
<1> QED BY <1>2, <1>3 DEF Keep

LEMMA AuditKeeps == ASSUME ToolInv, NEW c \in Calls, AuditCall(c) PROVE ToolInv'
<1>1. /\ CallIs(c, "audit") /\ UNCHANGED Tables /\ previews' \subseteq Payloads
      /\ calls[c].input \in Input /\ GoodCall(c, calls[c])
  BY CallsAreGood DEF AuditCall, ToolInv, ToolTypeOK, Tables, CallsTell, CallIs, Running
<1>2. CASE Refuse(c)
  BY <1>1, <1>2, RefuseKeeps
<1>3. CASE calls' = [calls EXCEPT ![c].at = "answered", ![c].started = 0]
  <2> DEFINE call == [calls[c] EXCEPT !.at = "answered", !.started = 0]
  <2>1. calls[c] \in Call /\ 0 \in Times
    BY <1>1, ToolAssumption DEF GoodCall, Times
  <2>2. CallOf(c, call) /\ GoodCall(c, call) /\ call.at = "answered"
    BY <1>1, <1>3, <2>1 DEF CallOf, GoodCall, Call, CallAt, CallIs
  <2> QED BY <1>1, <2>2, CallStep
<1> QED BY <1>2, <1>3 DEF AuditCall

LEMMA TimeOutKeeps == ASSUME ToolInv, NEW c \in Calls, TimeOut(c) PROVE ToolInv'
<1> DEFINE call == [calls[c] EXCEPT !.aborted = TRUE]
<1>1. UNCHANGED Tables /\ previews' \subseteq Payloads /\ GoodCall(c, calls[c])
  BY CallsAreGood DEF TimeOut, ToolInv, ToolTypeOK, Tables
<1>2. CallOf(c, call) /\ GoodCall(c, call) /\ call.aborted
  BY <1>1 DEF CallOf, GoodCall, Call, TimeOut
<1> QED BY <1>1, <1>2, CallStep

LEMMA StopKeeps == ASSUME ToolInv, Stop PROVE ToolInv'
<1>1. /\ \A c \in Calls : calls'[c] = IF Running(c) THEN Ended ELSE calls[c]
      /\ UNCHANGED <<records, saves, now>> /\ previews' = {} /\ commits' = [k \in Keys |-> None]
  BY DEF Stop
<1>2. \A c \in Calls : GoodCall(c, Ended) /\ Ended.at = "refused"
  BY EndedIsGood, ToolAssumption
<1>3. \A c \in Calls : ~Running(c)'
  BY <1>1, <1>2 DEF Running
<1>4. \A c \in Calls : calls'[c].at = "answered" => calls'[c] = calls[c]
  BY <1>1, <1>2
<1>5. ToolTypeOK'
  <2>1. calls' \in [Calls -> Call]
    BY <1>2 DEF Stop, ToolInv, ToolTypeOK, GoodCall
  <2> QED BY <1>1, <2>1, ToolAssumption DEF ToolInv, ToolTypeOK, Stop
<1>6. CallsTell'
  BY <1>1, <1>3, <1>4 DEF ToolInv, CallsTell, Running, CallIs, Key, Payload, Saved, TrueOf
<1>7. CallsAreYoung' /\ SaversHold'
  BY <1>3 DEF CallsAreYoung, SaversHold, Running, CallIs
<1> QED BY <1>1, <1>5, <1>6, <1>7 DEF ToolInv, StoresTell, RowsCoverSaves, OneSavePerReservation,
                                      Saved, TrueOf

\* The clock passes no deadline before the timer has fired.
LEMMA TickKeeps == ASSUME ToolInv, ToolTick PROVE ToolInv'
<1>1. /\ UNCHANGED toolVars /\ now' = now + 1 /\ now < MaxTime
      /\ \A c \in Calls : Running(c) /\ now - calls[c].started >= CallTimeout => calls[c].aborted
  BY DEF ToolTick
<1>2. now \in Nat /\ KeyTtl \in Nat /\ CallTimeout \in Nat
  BY ToolAssumption DEF ToolInv, ToolTypeOK, Times
<1>3. now' \in Times
  BY <1>1, <1>2, ToolAssumption DEF Times
<1>4. ToolTypeOK'
  BY <1>1, <1>3 DEF ToolInv, ToolTypeOK, toolVars
<1>5. CallsAreYoung'
  BY <1>1, <1>2 DEF ToolInv, ToolTypeOK, CallsAreYoung, Running, toolVars, Call, Times
<1>6. RowsCoverSaves'
  BY <1>1, <1>2 DEF ToolInv, ToolTypeOK, RowsCoverSaves, toolVars, Save, Times, Record
<1>7. CallsTell' /\ StoresTell' /\ SaversHold' /\ OneSavePerReservation'
  BY <1>1 DEF ToolInv, CallsTell, StoresTell, SaversHold, OneSavePerReservation, toolVars, Running, CallIs,
              Key, Payload, Saved, TrueOf
<1> QED BY <1>4, <1>5, <1>6, <1>7 DEF ToolInv

-----------------------------------------------------------------------------
LEMMA ToolInitInv == ASSUME ToolInit, now = 0 PROVE ToolInv
<1>1. 0 \in Times /\ Silent \in Call /\ Silent.at = "idle"
  BY ToolAssumption DEF Times, Silent, Call, CallAt
<1>2. ToolTypeOK
  BY <1>1, ToolAssumption DEF ToolInit, ToolTypeOK
<1>3. \A c \in Calls : calls[c].at = "idle"
  BY <1>1 DEF ToolInit
<1> QED
  BY <1>2, <1>3 DEF ToolInit, ToolInv, CallsTell, StoresTell, CallsAreYoung, RowsCoverSaves, SaversHold,
                    OneSavePerReservation, Running, CallIs

LEMMA ToolNextInv == ASSUME ToolInv, [ToolNext]_<<toolVars, now>> PROVE ToolInv'
<1>1. ASSUME NEW c \in Calls, NEW k \in Keys, NEW input \in Input, Invoke(c, k, input) PROVE ToolInv'
  BY <1>1, InvokeKeeps
<1>2. ASSUME NEW c \in Calls, \/ Reserve(c) \/ Preview(c) \/ CommitKnown(c) \/ SaveDraft(c)
                              \/ ReadBack(c) \/ Keep(c) \/ AuditCall(c) \/ TimeOut(c)
      PROVE ToolInv'
  BY <1>2, ReserveKeeps, PreviewKeeps, CommitKnownKeeps, SaveDraftKeeps, ToolReadBackKeeps, KeepKeeps,
     AuditKeeps, TimeOutKeeps
<1>3. CASE Stop
  BY <1>3, StopKeeps
<1>4. CASE ToolTick
  BY <1>4, TickKeeps
<1>5. CASE UNCHANGED <<toolVars, now>>
  BY <1>5 DEF toolVars, ToolInv, ToolTypeOK, CallsTell, StoresTell, CallsAreYoung, RowsCoverSaves,
              SaversHold, OneSavePerReservation, Running, CallIs, Key, Payload, Saved, TrueOf
<1> QED BY <1>1, <1>2, <1>3, <1>4, <1>5 DEF ToolNext

\* The types, what calls and stores say, the age of calls, rows and saves: what
\* is true after every step, for any calls, keys and times
\* (executeRegisteredToolCore, ExistingQuoteAdapter, SqliteProductionStore).
THEOREM ToolInvariant == ToolSpec => []ToolInv
<1>1. ToolInit /\ now = 0 => ToolInv
  BY ToolInitInv
<1>2. ToolInv /\ [ToolNext]_<<toolVars, now>> => ToolInv'
  BY ToolNextInv
<1> QED BY <1>1, <1>2, PTL DEF ToolSpec

\* However often a key is used, and whatever times out, is lost or stops, two
\* saves under it are as far apart as its time to live without the time a
\* request may take (reserve, throwIfAborted).
THEOREM OneSave == ToolSpec => []OneSavePerReservation
<1>1. ToolInv => OneSavePerReservation
  BY DEF ToolInv
<1> QED BY <1>1, ToolInvariant, PTL

\* Whatever answers a call, the handler, the row or the adapter's map, what it
\* says is of the payload that was asked, and a draft it reports was saved.
THEOREM AnswersTell == ToolSpec => []AnswersAreTrue
<1>1. ToolInv => AnswersAreTrue
  BY DEF ToolInv, CallsTell, AnswersAreTrue, TrueOf, Saved, CallIs
<1> QED BY <1>1, ToolInvariant, PTL

-----------------------------------------------------------------------------
(***************************************************************************)
(* That the registry of sessions is exact (Sessions).                      *)
(*                                                                         *)
(* The inductive invariant says where the requests stand: what one that    *)
(* opens a session has made of it at each of its waits, that one that      *)
(* names a session never comes to where sessions are made, and who may     *)
(* still have a session once the registry is closed.                       *)
(***************************************************************************)

Unregistered == {"enter", "purge", "register"}

\* A request that opens a session: the session is its own, it has a runtime from
\* the start, no entry before it is registered, and none any more once it is
\* given up, unless it waited while the handler closed.
OpenerStands(r) ==
    LET q == requests[r] IN
    /\ q.at \in Unregistered \cup {"idle", "connect", "handle", "undo", "unbind"} \cup Finished
    /\ runtimes[r] = "none" <=> q.at = "idle"
    /\ q.at # "idle" => q.session = r /\ q.kind = "open"
    /\ q.at = "purge" => q.next = "register"
    /\ q.at \in Unregistered => runtimes[r] = "open" /\ entries[r] = None
    /\ q.at \in Unregistered \cup {"idle"} => r \notin created
    /\ q.at \in {"purge", "register"} /\ closed => r \in waiters
    /\ q.at = "unbind" => r \in waiters \/ entries[r] = None
    /\ q.at = "refused" => /\ r \notin created
                           /\ r \in waiters \/ (entries[r] = None /\ runtimes[r] \in Shut)

\* A request that names a session never makes one.
UserStands(r) ==
    LET q == requests[r] IN
    /\ q.at \in {"idle", "lookup", "purge", "get", "touch", "forget", "drop", "handle"} \cup Finished
    /\ q.at = "purge" => q.next \in {"get", "touch"}

RequestsStand ==
    /\ \A r \in Openers : OpenerStands(r)
    /\ \A r \in Users : UserStands(r)
    /\ \A r \in Requests : requests[r].at \notin Finished \cup {"idle"} =>
          requests[r].session \in SessionIds /\ requests[r].who \in Identities

\* A session in the registry has its runtime, and one without an entry is looked
\* after, or not open.
EntriesAreOpen ==
    \A s \in SessionIds :
        /\ entries[s] # None => runtimes[s] = "open"
        /\ runtimes[s] = "open" /\ entries[s] = None => requests[s].at \in Unregistered

\* Only who waited meanwhile has a session once the handler is closed.
ClosedIsEmpty ==
    /\ ~closed => waiters = {}
    /\ closed => \A s \in SessionIds : entries[s] # None => s \in waiters

HasRoom == Cardinality(Open) <= MaxSessions

SessionInv ==
    SessionTypeOK /\ RequestsStand /\ EntriesAreOpen /\ ClosedIsEmpty /\ HasRoom

-----------------------------------------------------------------------------
RuntimeStates == {"none", "open", "closing"} \cup Shut

LEMMA SessionStatesTyped ==
    ASSUME SessionInv
    PROVE  /\ entries \in [SessionIds -> Entry \cup {None}] /\ runtimes \in [SessionIds -> RuntimeStates]
           /\ bindings \in [SessionIds -> Nat \cup {None}] /\ created \subseteq SessionIds
           /\ requests \in [Requests -> Request] /\ waiters \subseteq Openers
           /\ closed \in BOOLEAN /\ now \in Times /\ now \in Nat
           /\ SessionIds = Openers /\ Requests = Openers \cup Users /\ Openers \cap Users = {}
BY SessionAssumption DEF SessionInv, SessionTypeOK, RuntimeStates, SessionIds, Requests, Times

\* What becomes of the session of another request: nothing, or it is closed, or
\* it is refreshed.
Moved(s) ==
    \/ entries'[s] = entries[s] /\ runtimes'[s] = runtimes[s]
    \/ entries[s] # None /\ entries'[s] = None /\ runtimes'[s] = "closing"
    \/ entries[s] # None /\ entries'[s] # None /\ runtimes'[s] = runtimes[s]

\* A request moves alone.
OnlyMoves(r) ==
    /\ requests' \in [Requests -> Request]
    /\ \A q \in Requests : q # r => requests'[q] = requests[q]
    /\ requests'[r].at \notin Finished \cup {"idle"} =>
          requests'[r].session \in SessionIds /\ requests'[r].who \in Identities

LEMMA RoomStays ==
    ASSUME SessionInv, \A s \in SessionIds : entries'[s] # None => entries[s] # None
    PROVE  HasRoom'
<1>1. IsFiniteSet(Open) /\ Open' \in SUBSET Open
  <2>1. IsFiniteSet(SessionIds) /\ Open \in SUBSET SessionIds
    BY SessionAssumption DEF Open, SessionIds
  <2> QED BY <2>1, FS_Subset DEF Open
<1>2. Cardinality(Open') <= Cardinality(Open) /\ Cardinality(Open) \in Nat /\ Cardinality(Open') \in Nat
  BY <1>1, FS_Subset, FS_CardinalityType
<1> QED BY <1>2, SessionAssumption DEF SessionInv, HasRoom

\* One request moves, and the sessions of the others stand as before.
LEMMA StepKeeps ==
    ASSUME SessionInv, NEW r \in Requests, OnlyMoves(r), UNCHANGED <<closed, waiters, now>>,
           entries' \in [SessionIds -> Entry \cup {None}], runtimes' \in [SessionIds -> RuntimeStates],
           bindings' \in [SessionIds -> Nat \cup {None}], created' \subseteq SessionIds, HasRoom',
           \A s \in SessionIds : s # r => Moved(s) /\ (s \in created' => s \in created),
           r \in Users => UserStands(r)',
           r \in Openers =>
              /\ OpenerStands(r)'
              /\ entries'[r] # None => runtimes'[r] = "open"
              /\ runtimes'[r] = "open" /\ entries'[r] = None => requests'[r].at \in Unregistered
              /\ entries'[r] # None => entries[r] # None \/ r \in waiters \/ ~closed
    PROVE  SessionInv'
<1>1. SessionTypeOK'
  BY SessionStatesTyped DEF SessionTypeOK, OnlyMoves, RuntimeStates
<1>2. RequestsStand'
  <2>1. ASSUME NEW q \in Openers PROVE OpenerStands(q)'
    <3>1. CASE q = r
      BY <3>1
    <3>2. CASE q # r
      <4>1. /\ requests'[q] = requests[q] /\ Moved(q) /\ (q \in created' => q \in created)
            /\ entries[q] # None => runtimes[q] = "open"
            /\ OpenerStands(q)
        BY <3>2, SessionStatesTyped DEF OnlyMoves, SessionInv, EntriesAreOpen, RequestsStand
      <4> QED BY <4>1 DEF Moved, OpenerStands, Unregistered, Shut
    <3> QED BY <3>1, <3>2
  <2>2. ASSUME NEW q \in Users PROVE UserStands(q)'
    <3>1. CASE q = r
      BY <3>1
    <3>2. CASE q # r
      BY <3>2, SessionStatesTyped DEF OnlyMoves, SessionInv, RequestsStand, UserStands
    <3> QED BY <3>1, <3>2
  <2>3. ASSUME NEW q \in Requests, requests'[q].at \notin Finished \cup {"idle"}
        PROVE  requests'[q].session \in SessionIds /\ requests'[q].who \in Identities
    BY <2>3 DEF OnlyMoves, SessionInv, RequestsStand
  <2> QED BY <2>1, <2>2, <2>3 DEF RequestsStand
<1>3. EntriesAreOpen'
  <2>1. ASSUME NEW s \in SessionIds
        PROVE  /\ entries'[s] # None => runtimes'[s] = "open"
               /\ runtimes'[s] = "open" /\ entries'[s] = None => requests'[s].at \in Unregistered
    <3>1. CASE s = r
      BY <3>1, SessionStatesTyped
    <3>2. CASE s # r
      BY <3>2, SessionStatesTyped DEF OnlyMoves, Moved, SessionInv, EntriesAreOpen
    <3> QED BY <3>1, <3>2
  <2> QED BY <2>1 DEF EntriesAreOpen
<1>4. ClosedIsEmpty'
  BY SessionStatesTyped DEF SessionInv, ClosedIsEmpty, Moved
<1> QED BY <1>1, <1>2, <1>3, <1>4 DEF SessionInv

-----------------------------------------------------------------------------
(* What the steps are made of.                                             *)

LEMMA RemoveMoves ==
    ASSUME SessionInv, NEW s \in SessionIds, Remove(s)
    PROVE  /\ entries' \in [SessionIds -> Entry \cup {None}] /\ runtimes' \in [SessionIds -> RuntimeStates]
           /\ entries'[s] = None /\ (entries[s] # None => runtimes'[s] = "closing")
           /\ entries[s] = None => runtimes'[s] = runtimes[s]
           /\ \A t \in SessionIds : t # s => entries'[t] = entries[t] /\ runtimes'[t] = runtimes[t]
           /\ \A t \in SessionIds : Moved(t)
           /\ HasRoom'
<1>1. CASE entries[s] = None
  <2>1. UNCHANGED <<entries, runtimes>>
    BY <1>1 DEF Remove
  <2> QED BY <1>1, <2>1, SessionStatesTyped, RoomStays DEF Moved
<1>2. CASE entries[s] # None
  <2>1. entries' = [entries EXCEPT ![s] = None] /\ runtimes' = [runtimes EXCEPT ![s] = "closing"]
    BY <1>2 DEF Remove
  <2>2. /\ entries' \in [SessionIds -> Entry \cup {None}] /\ runtimes' \in [SessionIds -> RuntimeStates]
        /\ entries'[s] = None /\ runtimes'[s] = "closing"
        /\ \A t \in SessionIds : t # s => entries'[t] = entries[t] /\ runtimes'[t] = runtimes[t]
    BY <2>1, SessionStatesTyped DEF RuntimeStates
  <2> QED BY <1>2, <2>2, RoomStays DEF Moved
<1> QED BY <1>1, <1>2

LEMMA NothingMoves ==
    ASSUME SessionInv, UNCHANGED <<entries, runtimes>>
    PROVE  /\ entries' \in [SessionIds -> Entry \cup {None}] /\ runtimes' \in [SessionIds -> RuntimeStates]
           /\ \A t \in SessionIds : Moved(t)
           /\ HasRoom'
BY SessionStatesTyped, RoomStays DEF Moved

LEMMA GoToMoves ==
    ASSUME SessionInv, NEW r \in Requests, NEW place \in Place, GoTo(r, place),
           requests[r].at \notin Finished \cup {"idle"}
    PROVE  /\ OnlyMoves(r) /\ requests'[r].at = place /\ requests'[r].next = requests[r].next
           /\ requests'[r].session = requests[r].session /\ requests'[r].kind = requests[r].kind
<1>1. requests[r] \in Request /\ requests[r].session \in SessionIds /\ requests[r].who \in Identities
  BY SessionStatesTyped DEF SessionInv, RequestsStand
<1> QED BY <1>1, SessionStatesTyped DEF GoTo, OnlyMoves, Request

LEMMA EndMoves ==
    ASSUME SessionInv, NEW r \in Requests, NEW place \in Finished, End(r, place)
    PROVE  /\ OnlyMoves(r) /\ requests'[r].at = place
           /\ requests'[r].session = requests[r].session /\ requests'[r].kind = requests[r].kind
<1>1. requests[r] \in Request /\ place \in Place
  BY SessionStatesTyped DEF Finished, Place
<1>2. Idle \in Request
  BY DEF Idle, Request, Place, Kind
<1> DEFINE to == [Idle EXCEPT !.at = place, !.kind = requests[r].kind, !.session = Session(r)]
<1>3. /\ to \in Request /\ to.at = place /\ to.session = requests[r].session
      /\ to.kind = requests[r].kind
  BY <1>1, <1>2 DEF Request, Session
<1>4. requests' = [requests EXCEPT ![r] = to]
  BY DEF End
<1> HIDE DEF to
<1> QED BY <1>3, <1>4, SessionStatesTyped DEF OnlyMoves

LEMMA UserStepKeeps ==
    ASSUME SessionInv, NEW r \in Users, OnlyMoves(r), UNCHANGED <<closed, waiters, now>>,
           UNCHANGED <<entries, runtimes>> \/ \E s \in SessionIds : Remove(s),
           bindings' \in [SessionIds -> Nat \cup {None}], created' \subseteq created, UserStands(r)'
    PROVE  SessionInv'
<1>1. r \in Requests /\ r \notin Openers /\ r \notin SessionIds /\ created' \subseteq SessionIds
  BY SessionStatesTyped
<1>2. /\ entries' \in [SessionIds -> Entry \cup {None}] /\ runtimes' \in [SessionIds -> RuntimeStates]
      /\ \A t \in SessionIds : Moved(t)
      /\ HasRoom'
  BY RemoveMoves, NothingMoves
<1> QED BY <1>1, <1>2, StepKeeps

\* A session that was not registered is closed by the request that made it.
LEMMA AbandonKeeps ==
    ASSUME SessionInv, NEW r \in Openers, requests[r].at \in Unregistered, Abandon(r),
           UNCHANGED <<closed, bindings, created, waiters, now>>
    PROVE  SessionInv'
<1>1. /\ r \in Requests /\ OpenerStands(r) /\ requests[r].session = r /\ entries[r] = None
      /\ requests[r].at \notin Finished \cup {"idle"} /\ r \in SessionIds /\ requests[r].kind = "open"
      /\ r \notin created
  BY SessionStatesTyped DEF SessionInv, RequestsStand, OpenerStands, Unregistered, Finished
<1>2. /\ OnlyMoves(r) /\ requests'[r].at = "unbind" /\ requests'[r].session = r
      /\ requests'[r].kind = "open"
  <2>1. GoTo(r, "unbind") /\ "unbind" \in Place
    BY DEF Abandon, Place
  <2> QED BY <1>1, <2>1, GoToMoves
<1>3. /\ entries' = entries /\ runtimes' \in [SessionIds -> RuntimeStates] /\ runtimes'[r] = "closing"
      /\ \A t \in SessionIds : t # r => runtimes'[t] = runtimes[t]
  BY <1>1, SessionStatesTyped DEF Abandon, RuntimeStates, Session
<1>4. OpenerStands(r)'
  BY <1>1, <1>2, <1>3 DEF OpenerStands, Unregistered, Finished
<1>5. HasRoom'
  BY <1>3, RoomStays
<1> QED BY <1>1, <1>2, <1>3, <1>4, <1>5, SessionStatesTyped, StepKeeps DEF Moved

LEMMA PurgeKeeps ==
    ASSUME SessionInv, NEW r \in Requests, requests[r].at \notin Finished \cup {"idle"},
           NEW victims \in SUBSET SessionIds, NEW request \in Request,
           request.session = requests[r].session, request.kind = requests[r].kind,
           request.who = requests[r].who,
           r \in Openers => /\ requests[r].at \in Unregistered /\ request.next = "register"
                            /\ closed => r \in waiters
                            /\ UNCHANGED <<bindings, created>>,
           r \in Users => request.next \in {"get", "touch"},
           Purge(r, victims, request),
           bindings' \in [SessionIds -> Nat \cup {None}], created' \subseteq created,
           UNCHANGED <<closed, waiters, now>>
    PROVE  SessionInv'
<1>0. requests[r].session \in SessionIds /\ requests[r].who \in Identities
  BY DEF SessionInv, RequestsStand
<1>1. ASSUME r \in Openers PROVE /\ OpenerStands(r) /\ r \in SessionIds /\ entries[r] = None
                                 /\ runtimes[r] = "open" /\ r \notin created
                                 /\ requests[r].session = r /\ requests[r].kind = "open"
  BY <1>1, SessionStatesTyped DEF SessionInv, RequestsStand, OpenerStands, Unregistered
<1>2. ASSUME OnlyMoves(r), requests'[r].at \in {"purge", request.next},
             requests'[r].session = request.session, requests'[r].kind = request.kind,
             requests'[r].at = "purge" => requests'[r].next = request.next,
             UNCHANGED <<entries, runtimes>> \/ \E s \in SessionIds : Remove(s)
      PROVE  SessionInv'
  <2>1. CASE r \in Users
    BY <1>2, <2>1, UserStepKeeps DEF UserStands
  <2>2. CASE r \in Openers
    <3>1. /\ entries' \in [SessionIds -> Entry \cup {None}] /\ runtimes' \in [SessionIds -> RuntimeStates]
          /\ \A t \in SessionIds : Moved(t)
          /\ HasRoom'
      BY <1>2, RemoveMoves, NothingMoves
    <3>2. entries'[r] = None /\ runtimes'[r] = "open"
      BY <1>1, <2>2, <3>1 DEF Moved
    <3>3. OpenerStands(r)'
      BY <1>1, <1>2, <2>2, <3>2 DEF OpenerStands, Unregistered, Finished
    <3> QED BY <1>1, <1>2, <2>2, <3>1, <3>2, <3>3, SessionStatesTyped, StepKeeps DEF Unregistered
  <2> QED BY <2>1, <2>2, SessionStatesTyped
<1>3. ASSUME NEW v \in victims, Remove(v),
             requests' = [requests EXCEPT ![r] =
                 [request EXCEPT !.at = "purge", !.victims = victims \ {v},
                                 !.victim = IF entries[v] = None THEN None ELSE v]]
      PROVE  SessionInv'
  <2> DEFINE to == [request EXCEPT !.at = "purge", !.victims = victims \ {v},
                                   !.victim = IF entries[v] = None THEN None ELSE v]
  <2>1. /\ to \in Request /\ to.at = "purge" /\ to.next = request.next /\ to.who = request.who
        /\ to.session = request.session /\ to.kind = request.kind
    BY DEF Request, Place
  <2> HIDE DEF to
  <2>2. OnlyMoves(r) /\ requests'[r] = to
    BY <1>0, <1>3, <2>1, SessionStatesTyped DEF OnlyMoves, to
  <2> QED BY <1>2, <1>3, <2>1, <2>2
<1>4. ASSUME UNCHANGED <<entries, runtimes>>,
             requests' = [requests EXCEPT ![r] =
                 [request EXCEPT !.at = request.next, !.next = "idle", !.victim = None]]
      PROVE  SessionInv'
  <2> DEFINE to == [request EXCEPT !.at = request.next, !.next = "idle", !.victim = None]
  <2>1. /\ to \in Request /\ to.at = request.next /\ to.who = request.who
        /\ to.session = request.session /\ to.kind = request.kind
    BY DEF Request, Place
  <2> HIDE DEF to
  <2>2. OnlyMoves(r) /\ requests'[r] = to
    BY <1>0, <1>4, <2>1, SessionStatesTyped DEF OnlyMoves, to
  <2>3. request.next # "purge"
    BY SessionStatesTyped
  <2> QED BY <1>2, <1>4, <2>1, <2>2, <2>3
<1>5. CASE r \in Openers /\ Abandon(r)
  BY <1>5, AbandonKeeps
<1>6. CASE r \notin Openers /\ Refused(r) /\ UNCHANGED <<entries, runtimes>>
  <2>1. OnlyMoves(r) /\ requests'[r].at = "refused"
    BY <1>6, EndMoves DEF Refused, Finished
  <2>2. r \in Users
    BY <1>6, SessionStatesTyped
  <2> QED BY <1>6, <2>1, <2>2, UserStepKeeps DEF UserStands, Finished
<1> QED BY <1>3, <1>4, <1>5, <1>6 DEF Purge

LEMMA StartPurgeKeeps ==
    ASSUME SessionInv, NEW r \in Requests, requests[r].at \notin Finished \cup {"idle"},
           NEW next \in Place, StartPurge(r, [requests[r] EXCEPT !.next = next]),
           r \in Openers => /\ requests[r].at \in Unregistered /\ next = "register"
                            /\ closed => r \in waiters
                            /\ UNCHANGED <<bindings, created>>,
           r \in Users => next \in {"get", "touch"},
           bindings' \in [SessionIds -> Nat \cup {None}], created' \subseteq created,
           UNCHANGED <<closed, waiters, now>>
    PROVE  SessionInv'
<1> DEFINE request == [requests[r] EXCEPT !.next = next]
           victims == {s \in Open : Expired(entries[s])}
<1>1. /\ request \in Request /\ request.next = next /\ request.session = requests[r].session
      /\ request.kind = requests[r].kind /\ request.who = requests[r].who
  BY SessionStatesTyped DEF Request
<1>2. victims \in SUBSET SessionIds /\ Purge(r, victims, request)
  BY DEF Open, StartPurge
<1> HIDE DEF request, victims
<1> QED BY <1>1, <1>2, PurgeKeeps

-----------------------------------------------------------------------------
(* The steps.                                                              *)

LEMMA PurgeNextKeeps == ASSUME SessionInv, NEW r \in Requests, PurgeNext(r) PROVE SessionInv'
<1> DEFINE broke   == requests[r].victim # None /\ runtimes[requests[r].victim] = "failed"
           request == [requests[r] EXCEPT !.failed = @ \/ broke]
<1>1. /\ requests[r].at = "purge" /\ requests[r] \in Request
      /\ UNCHANGED <<closed, bindings, created, waiters, now>>
      /\ Purge(r, requests[r].victims, request)
  BY SessionStatesTyped DEF PurgeNext, Where
<1>2. /\ request \in Request /\ request.next = requests[r].next
      /\ request.session = requests[r].session /\ request.kind = requests[r].kind
      /\ request.who = requests[r].who /\ requests[r].victims \in SUBSET SessionIds
  <2>1. (requests[r].failed \/ broke) \in BOOLEAN
    OBVIOUS
  <2> HIDE DEF broke
  <2> QED BY <1>1, <2>1 DEF Request
<1> HIDE DEF request
<1>3. /\ r \in Openers => requests[r].next = "register" /\ (closed => r \in waiters)
      /\ r \in Users => requests[r].next \in {"get", "touch"}
  BY <1>1 DEF SessionInv, RequestsStand, OpenerStands, UserStands
<1> QED BY <1>1, <1>2, <1>3, SessionStatesTyped, PurgeKeeps DEF Finished, Unregistered

LEMMA EnterKeeps == ASSUME SessionInv, NEW r \in Requests, Enter(r) PROVE SessionInv'
<1>1. /\ requests[r].at = "enter" /\ UNCHANGED <<closed, bindings, created, waiters, now>>
      /\ r \in Openers
  BY SessionStatesTyped DEF Enter, Where, SessionInv, RequestsStand, UserStands, Finished
<1>2. CASE closed
  BY <1>1, <1>2, AbandonKeeps DEF Enter, Unregistered
<1>3. CASE ~closed
  <2>1. StartPurge(r, [requests[r] EXCEPT !.next = "register"]) /\ "register" \in Place
    BY <1>3 DEF Enter, Place
  <2> QED BY <1>1, <1>3, <2>1, SessionStatesTyped, StartPurgeKeeps DEF Unregistered, Finished
<1> QED BY <1>2, <1>3

\* There is room for one more, and only the request of the session puts it in.
LEMMA RegisterKeeps == ASSUME SessionInv, NEW r \in Requests, Register(r) PROVE SessionInv'
<1>1. /\ requests[r].at = "register" /\ UNCHANGED <<closed, bindings, created, waiters, now>>
      /\ r \in Openers /\ requests[r] \in Request
  BY SessionStatesTyped DEF Register, Where, SessionInv, RequestsStand, UserStands, Finished
<1>2. /\ OpenerStands(r) /\ requests[r].session = r /\ entries[r] = None /\ runtimes[r] = "open"
      /\ requests[r].who \in Identities /\ r \in SessionIds /\ r \notin created
      /\ closed => r \in waiters
      /\ requests[r].kind = "open"
  BY <1>1, SessionStatesTyped DEF SessionInv, RequestsStand, OpenerStands, Unregistered, Finished
<1>3. CASE Cardinality(Open) >= MaxSessions \/ requests[r].ends <= now
  BY <1>1, <1>3, AbandonKeeps DEF Register, Unregistered
<1>4. CASE ~(Cardinality(Open) >= MaxSessions \/ requests[r].ends <= now)
  <2> DEFINE entry == NewEntry(r)
             ends  == Earlier(entry.ends, now + MaxLifetime)
  <2>1. entry \in Entry /\ entry # None /\ ends \in Nat
    BY <1>1, <1>2, SessionStatesTyped, SessionAssumption, EntryAssumption DEF NewEntry, Entry, Earlier, Request
  <2>2. /\ UNCHANGED runtimes /\ entries' = [entries EXCEPT ![r] = entry]
        /\ requests' = [requests EXCEPT ![r].at = "connect", ![r].ends = ends]
    BY <1>2, <1>4 DEF Register, Session
  <2> HIDE DEF entry, ends
  <2>3. /\ OnlyMoves(r) /\ requests'[r].at = "connect" /\ requests'[r].session = r
        /\ requests'[r].kind = "open"
    <3> DEFINE to == [requests[r] EXCEPT !.at = "connect", !.ends = ends]
    <3>1. /\ to \in Request /\ to.at = "connect" /\ to.session = requests[r].session
          /\ to.kind = requests[r].kind /\ to.who = requests[r].who
      BY <1>1, <2>1 DEF Request, Place
    <3>2. requests' = [requests EXCEPT ![r] = to]
      BY <1>1, <2>2, SessionStatesTyped
    <3> HIDE DEF to
    <3> QED BY <1>1, <1>2, <3>1, <3>2, SessionStatesTyped DEF OnlyMoves
  <2>4. /\ entries' \in [SessionIds -> Entry \cup {None}] /\ entries'[r] = entry
        /\ \A s \in SessionIds : s # r => entries'[s] = entries[s]
    BY <1>2, <2>1, <2>2, SessionStatesTyped
  <2>5. HasRoom'
    <3>1. IsFiniteSet(SessionIds) /\ Open \in SUBSET SessionIds
      BY SessionAssumption DEF Open, SessionIds
    <3>2. IsFiniteSet(Open) /\ Cardinality(Open) \in Nat
      BY <3>1, FS_Subset, FS_CardinalityType
    <3>3. Open' = Open \cup {r}
      BY <1>2, <2>1, <2>4 DEF Open
    <3>4. r \notin Open
      BY <1>2 DEF Open
    <3>5. Cardinality(Open \cup {r}) = Cardinality(Open) + 1
      BY <3>2, <3>4, FS_AddElement
    <3> QED BY <1>4, <3>2, <3>3, <3>5, SessionAssumption DEF HasRoom
  <2>6. OpenerStands(r)'
    BY <1>2, <2>2, <2>3 DEF OpenerStands, Unregistered, Finished
  <2> QED BY <1>1, <1>2, <2>1, <2>2, <2>3, <2>4, <2>5, <2>6, SessionStatesTyped, StepKeeps DEF Moved
<1> QED BY <1>3, <1>4

\* What a request that has its session does next.
LEMMA GoingOnKeeps ==
    ASSUME SessionInv, NEW r \in Openers, NEW place \in {"handle", "undo"}, GoTo(r, place),
           requests[r].at \in {"connect", "handle"},
           bindings' \in [SessionIds -> Nat \cup {None}],
           created' \subseteq created \cup {r}, UNCHANGED <<entries, runtimes, closed, waiters, now>>
    PROVE  SessionInv'
<1>1. /\ r \in Requests /\ r \in SessionIds /\ OpenerStands(r) /\ place \in Place
      /\ requests[r].session = r /\ requests[r].kind = "open" /\ created' \subseteq SessionIds
      /\ requests[r].at \notin Finished \cup {"idle"}
      /\ entries[r] # None => runtimes[r] = "open"
      /\ runtimes[r] = "open" => entries[r] # None
  BY SessionStatesTyped DEF SessionInv, RequestsStand, OpenerStands, EntriesAreOpen, Place, Finished, Unregistered
<1>2. /\ OnlyMoves(r) /\ requests'[r].at = place /\ requests'[r].session = r
      /\ requests'[r].kind = "open"
  BY <1>1, GoToMoves
<1>3. OpenerStands(r)'
  BY <1>1, <1>2 DEF OpenerStands, Unregistered, Finished
<1>4. \A s \in SessionIds : Moved(s)
  BY DEF Moved
<1> QED BY <1>1, <1>2, <1>3, <1>4, SessionStatesTyped, NothingMoves, StepKeeps

LEMMA ConnectKeeps == ASSUME SessionInv, NEW r \in Requests, Connect(r) PROVE SessionInv'
<1>1. /\ requests[r].at = "connect" /\ UNCHANGED <<entries, closed, runtimes, waiters, now>>
      /\ r \in Openers /\ requests[r] \in Request
  BY SessionStatesTyped DEF Connect, Where, SessionInv, RequestsStand, UserStands, Finished
<1>2. requests[r].session = r /\ r \in SessionIds
  BY <1>1, SessionStatesTyped DEF SessionInv, RequestsStand, OpenerStands
<1>3. CASE /\ bindings' = [bindings EXCEPT ![Session(r)] = requests[r].ends]
           /\ created' = created \cup {Session(r)}
           /\ GoTo(r, "handle")
  <2>1. bindings' \in [SessionIds -> Nat \cup {None}] /\ created' = created \cup {r}
    BY <1>1, <1>2, <1>3, SessionStatesTyped DEF Session, Request
  <2> QED BY <1>1, <1>3, <2>1, GoingOnKeeps
<1>4. CASE GoTo(r, "undo") /\ UNCHANGED <<bindings, created>>
  BY <1>1, <1>4, SessionStatesTyped, GoingOnKeeps
<1> QED BY <1>3, <1>4 DEF Connect

LEMMA UndoKeeps == ASSUME SessionInv, NEW r \in Requests, Undo(r) PROVE SessionInv'
<1>1. /\ requests[r].at = "undo" /\ UNCHANGED <<closed, bindings, created, waiters, now>>
      /\ r \in Openers /\ GoTo(r, "unbind")
  BY SessionStatesTyped DEF Undo, Where, SessionInv, RequestsStand, UserStands, Finished
<1>2. /\ r \in SessionIds /\ OpenerStands(r) /\ "unbind" \in Place
      /\ requests[r].session = r /\ requests[r].kind = "open"
      /\ requests[r].at \notin Finished \cup {"idle"}
      /\ entries[r] # None => runtimes[r] = "open"
      /\ runtimes[r] = "open" => entries[r] # None
  BY <1>1, SessionStatesTyped
  DEF SessionInv, RequestsStand, OpenerStands, EntriesAreOpen, Place, Finished, Unregistered
<1>3. /\ OnlyMoves(r) /\ requests'[r].at = "unbind" /\ requests'[r].session = r
      /\ requests'[r].kind = "open"
  BY <1>1, <1>2, GoToMoves
<1>4. /\ entries' \in [SessionIds -> Entry \cup {None}] /\ runtimes' \in [SessionIds -> RuntimeStates]
      /\ \A t \in SessionIds : Moved(t)
      /\ HasRoom'
  BY <1>1, <1>2, RemoveMoves, NothingMoves DEF Undo, Session
<1>5. CASE closed
  <2>1. UNCHANGED <<entries, runtimes>> /\ (entries[r] # None => r \in waiters)
    BY <1>1, <1>2, <1>5 DEF Undo, SessionInv, ClosedIsEmpty
  <2>2. OpenerStands(r)'
    BY <1>1, <1>2, <1>3, <2>1 DEF OpenerStands, Unregistered, Finished
  <2>3. entries'[r] # None => runtimes'[r] = "open"
    BY <1>2, <2>1
  <2>4. ~(runtimes'[r] = "open" /\ entries'[r] = None)
    BY <1>2, <2>1
  <2> QED BY <1>1, <1>2, <1>3, <1>4, <2>1, <2>2, <2>3, <2>4, SessionStatesTyped, StepKeeps
<1>6. CASE ~closed
  <2>1. /\ entries'[r] = None /\ runtimes'[r] # "open"
        /\ runtimes'[r] = "none" <=> runtimes[r] = "none"
    BY <1>1, <1>2, <1>6, RemoveMoves DEF Undo, Session
  <2>2. OpenerStands(r)'
    BY <1>1, <1>2, <1>3, <2>1 DEF OpenerStands, Unregistered, Finished
  <2> QED BY <1>1, <1>2, <1>3, <1>4, <2>1, <2>2, SessionStatesTyped, StepKeeps
<1> QED BY <1>5, <1>6

LEMMA UnbindKeeps == ASSUME SessionInv, NEW r \in Requests, Unbind(r) PROVE SessionInv'
<1>1. /\ requests[r].at = "unbind" /\ UNCHANGED <<entries, closed, runtimes, waiters, now>>
      /\ r \in Openers /\ Refused(r) /\ runtimes[Session(r)] # "closing"
  BY SessionStatesTyped DEF Unbind, Where, SessionInv, RequestsStand, UserStands, Finished
<1>2. /\ r \in SessionIds /\ OpenerStands(r) /\ requests[r].session = r /\ requests[r].kind = "open"
      /\ entries[r] # None => runtimes[r] = "open"
      /\ runtimes[r] = "open" => entries[r] # None
      /\ runtimes[r] \in RuntimeStates
  BY <1>1, SessionStatesTyped DEF SessionInv, RequestsStand, OpenerStands, EntriesAreOpen, Unregistered
<1>3. /\ OnlyMoves(r) /\ requests'[r].at = "refused" /\ requests'[r].session = r
      /\ requests'[r].kind = "open"
  BY <1>1, <1>2, EndMoves DEF Refused, Finished
<1>4. bindings' \in [SessionIds -> Nat \cup {None}] /\ created' = created \ {r}
  BY <1>2, SessionStatesTyped DEF Unbind, Session
<1>5. OpenerStands(r)'
  BY <1>1, <1>2, <1>3, <1>4 DEF OpenerStands, Unregistered, Finished, Session, RuntimeStates
<1> QED BY <1>1, <1>2, <1>3, <1>4, <1>5, SessionStatesTyped, NothingMoves, StepKeeps

LEMMA LookupKeeps == ASSUME SessionInv, NEW r \in Requests, Lookup(r) PROVE SessionInv'
<1> DEFINE s   == Session(r)
           row == IF bindings[s] # None /\ bindings[s] <= now THEN None ELSE bindings[s]
<1>1. /\ requests[r].at = "lookup" /\ UNCHANGED <<closed, created, waiters, now>>
      /\ r \in Users /\ bindings' = [bindings EXCEPT ![s] = row]
  BY SessionStatesTyped DEF Lookup, Where, SessionInv, RequestsStand, OpenerStands, Unregistered, Finished
<1>2. /\ s \in SessionIds /\ bindings' \in [SessionIds -> Nat \cup {None}]
      /\ requests[r].at \notin Finished \cup {"idle"}
  BY <1>1, SessionStatesTyped DEF SessionInv, RequestsStand, Session, Finished
<1>3. CASE Refused(r) /\ UNCHANGED <<entries, runtimes>>
  <2>1. OnlyMoves(r) /\ requests'[r].at = "refused"
    BY <1>3, EndMoves DEF Refused, Finished
  <2> QED BY <1>1, <1>2, <1>3, <2>1, UserStepKeeps DEF UserStands, Finished
<1>4. CASE /\ IF closed THEN UNCHANGED <<entries, runtimes>> ELSE Remove(s)
           /\ GoTo(r, "drop")
  <2>1. OnlyMoves(r) /\ requests'[r].at = "drop"
    BY <1>2, <1>4, GoToMoves DEF Place
  <2> QED BY <1>1, <1>2, <1>4, <2>1, UserStepKeeps DEF UserStands
<1>5. CASE GoTo(r, "forget") /\ UNCHANGED <<entries, runtimes>>
  <2>1. OnlyMoves(r) /\ requests'[r].at = "forget"
    BY <1>2, <1>5, GoToMoves DEF Place
  <2> QED BY <1>1, <1>2, <1>5, <2>1, UserStepKeeps DEF UserStands
<1>6. CASE StartPurge(r, [requests[r] EXCEPT !.next = "get"])
  BY <1>1, <1>2, <1>6, SessionStatesTyped, StartPurgeKeeps DEF Place
<1> QED BY <1>3, <1>4, <1>5, <1>6 DEF Lookup

\* The steps of a request for a session that do not look at the registry.
LEMMA ForgetKeeps == ASSUME SessionInv, NEW r \in Requests, Drop(r) \/ Forget(r) PROVE SessionInv'
<1>1. /\ requests[r].at \in {"drop", "forget"} /\ UNCHANGED <<entries, runtimes, closed, created, waiters, now>>
      /\ r \in Users /\ Refused(r)
  BY SessionStatesTyped DEF Drop, Forget, Where, SessionInv, RequestsStand, OpenerStands, Unregistered, Finished
<1>2. bindings' \in [SessionIds -> Nat \cup {None}]
  BY SessionStatesTyped DEF Drop, Forget
<1>3. OnlyMoves(r) /\ requests'[r].at = "refused"
  BY <1>1, EndMoves DEF Refused, Finished
<1> QED BY <1>1, <1>2, <1>3, UserStepKeeps DEF UserStands, Finished

LEMMA GetKeeps == ASSUME SessionInv, NEW r \in Requests, Get(r) PROVE SessionInv'
<1>1. /\ requests[r].at = "get" /\ UNCHANGED <<closed, bindings, created, waiters, now>> /\ r \in Users
      /\ requests[r].at \notin Finished \cup {"idle"}
  BY SessionStatesTyped DEF Get, Where, SessionInv, RequestsStand, OpenerStands, Unregistered, Finished
<1>2. CASE Refused(r) /\ UNCHANGED <<entries, runtimes>>
  <2>1. OnlyMoves(r) /\ requests'[r].at = "refused"
    BY <1>2, EndMoves DEF Refused, Finished
  <2> QED BY <1>1, <1>2, <2>1, SessionStatesTyped, UserStepKeeps DEF UserStands, Finished
<1>3. CASE GoTo(r, "forget") /\ UNCHANGED <<entries, runtimes>>
  <2>1. OnlyMoves(r) /\ requests'[r].at = "forget"
    BY <1>1, <1>3, GoToMoves DEF Place
  <2> QED BY <1>1, <1>3, <2>1, SessionStatesTyped, UserStepKeeps DEF UserStands
<1>4. CASE StartPurge(r, [requests[r] EXCEPT !.next = "touch"])
  BY <1>1, <1>4, SessionStatesTyped, StartPurgeKeeps DEF Place
<1> QED BY <1>2, <1>3, <1>4 DEF Get

\* An entry is refreshed only while it is there.
LEMMA TouchKeeps == ASSUME SessionInv, NEW r \in Requests, Touch(r) PROVE SessionInv'
<1> DEFINE s == Session(r)
<1>1. /\ requests[r].at = "touch" /\ UNCHANGED <<closed, bindings, created, waiters, now>> /\ r \in Users
      /\ requests[r].at \notin Finished \cup {"idle"} /\ requests[r] \in Request
  BY SessionStatesTyped DEF Touch, Where, SessionInv, RequestsStand, OpenerStands, Unregistered, Finished
<1>2. s \in SessionIds
  BY <1>1 DEF SessionInv, RequestsStand, Session
<1>3. CASE Refused(r) /\ UNCHANGED <<entries, runtimes>>
  <2>1. OnlyMoves(r) /\ requests'[r].at = "refused"
    BY <1>3, EndMoves DEF Refused, Finished
  <2> QED BY <1>1, <1>3, <2>1, SessionStatesTyped, UserStepKeeps DEF UserStands, Finished
<1>4. CASE Remove(s) /\ GoTo(r, "drop")
  <2>1. OnlyMoves(r) /\ requests'[r].at = "drop"
    BY <1>1, <1>4, GoToMoves DEF Place
  <2> QED BY <1>1, <1>2, <1>4, <2>1, SessionStatesTyped, UserStepKeeps DEF UserStands
<1>5. CASE /\ entries[s] # None /\ entries' = [entries EXCEPT ![s] = Touched(r)]
           /\ GoTo(r, "handle") /\ UNCHANGED runtimes
  <2>1. OnlyMoves(r) /\ requests'[r].at = "handle"
    BY <1>1, <1>5, GoToMoves DEF Place
  <2>2. Touched(r) \in Entry /\ Touched(r) # None
    <3>1. entries[s] \in Entry
      BY <1>2, <1>5, SessionStatesTyped
    <3> QED BY <1>1, <3>1, SessionStatesTyped, EntryAssumption DEF Touched, Entry, Earlier, Request
  <2>3. /\ entries' \in [SessionIds -> Entry \cup {None}] /\ entries'[s] # None
        /\ \A t \in SessionIds : t # s => entries'[t] = entries[t]
    BY <1>2, <1>5, <2>2, SessionStatesTyped
  <2>4. \A t \in SessionIds : Moved(t)
    BY <1>5, <2>3 DEF Moved
  <2>5. HasRoom'
    BY <1>5, <2>3, RoomStays
  <2>6. r \notin Openers /\ UserStands(r)'
    BY <1>1, <2>1, SessionStatesTyped DEF UserStands
  <2> QED BY <1>1, <1>5, <2>1, <2>3, <2>4, <2>5, <2>6, SessionStatesTyped, StepKeeps
<1> QED BY <1>3, <1>4, <1>5 DEF Touch

LEMMA AnswerKeeps == ASSUME SessionInv, NEW r \in Requests, Answer(r) PROVE SessionInv'
<1>1. /\ requests[r].at = "handle" /\ requests[r] \in Request
      /\ UNCHANGED <<entries, closed, runtimes, bindings, created, waiters, now>>
  BY SessionStatesTyped DEF Answer, Where
<1>2. ASSUME NEW place \in Finished, End(r, place), place = "refused" => r \in Users PROVE SessionInv'
  <2>1. /\ OnlyMoves(r) /\ requests'[r].at = place /\ requests'[r].session = requests[r].session
        /\ requests'[r].kind = requests[r].kind
    BY <1>2, EndMoves
  <2>2. CASE r \in Users
    BY <1>1, <2>1, <2>2, SessionStatesTyped, UserStepKeeps DEF UserStands, Finished
  <2>3. CASE r \in Openers
    <3>1. /\ OpenerStands(r) /\ r \in SessionIds /\ place = "served"
          /\ entries[r] # None => runtimes[r] = "open"
          /\ runtimes[r] = "open" => entries[r] # None
      BY <1>1, <1>2, <2>3, SessionStatesTyped
      DEF SessionInv, RequestsStand, EntriesAreOpen, Unregistered, Finished
    <3>2. OpenerStands(r)'
      BY <1>1, <2>1, <3>1 DEF OpenerStands, Unregistered, Finished
    <3>3. \A s \in SessionIds : Moved(s)
      BY <1>1 DEF Moved
    <3>4. r \notin Users
      BY <2>3, SessionStatesTyped
    <3> QED BY <1>1, <2>1, <3>1, <3>2, <3>3, <3>4, SessionStatesTyped, NothingMoves, StepKeeps
  <2> QED BY <2>2, <2>3, SessionStatesTyped
<1>3. CASE r \in Openers /\ GoTo(r, "undo")
  BY <1>1, <1>3, SessionStatesTyped, GoingOnKeeps
<1> QED BY <1>2, <1>3 DEF Answer, Refused, Finished

LEMMA EndSessionKeeps == ASSUME SessionInv, NEW r \in Requests, EndSession(r) PROVE SessionInv'
<1>1. /\ requests[r].at = "handle" /\ UNCHANGED <<closed, waiters, now>> /\ r \in Users
      /\ requests[r].session \in SessionIds
  BY SessionStatesTyped DEF EndSession, Where, SessionInv, RequestsStand, OpenerStands, Finished
<1>2. /\ bindings' \in [SessionIds -> Nat \cup {None}] /\ created' \subseteq created
      /\ UNCHANGED <<entries, runtimes>> \/ Remove(requests[r].session)
  BY <1>1, SessionStatesTyped DEF EndSession, Session
<1>3. OnlyMoves(r) /\ requests'[r].at \in Finished
  BY EndMoves DEF EndSession, Refused, Finished
<1>4. UserStands(r)'
  BY <1>3 DEF UserStands, Finished
<1> QED BY <1>1, <1>2, <1>3, <1>4, UserStepKeeps

LEMMA GiveUpKeeps == ASSUME SessionInv, NEW r \in Requests, GiveUp(r) PROVE SessionInv'
<1> DEFINE to == [requests[r] EXCEPT !.aborted = TRUE]
<1>1. /\ requests[r] \in Request /\ requests[r].at \notin Finished \cup {"idle"}
      /\ requests[r].session \in SessionIds /\ requests[r].who \in Identities
      /\ UNCHANGED <<entries, closed, runtimes, bindings, created, waiters, now>>
      /\ requests' = [requests EXCEPT ![r] = to]
  BY SessionStatesTyped DEF GiveUp, SessionInv, RequestsStand
<1>2. /\ to \in Request /\ to.at = requests[r].at /\ to.session = requests[r].session
      /\ to.kind = requests[r].kind /\ to.who = requests[r].who /\ to.next = requests[r].next
  BY <1>1 DEF Request
<1> HIDE DEF to
<1>3. OnlyMoves(r) /\ requests'[r] = to
  BY <1>1, <1>2, SessionStatesTyped DEF OnlyMoves
<1>4. \A s \in SessionIds : Moved(s)
  BY <1>1 DEF Moved
<1>5. r \in Users => UserStands(r)'
  BY <1>2, <1>3 DEF SessionInv, RequestsStand, UserStands
<1>6. r \in Openers => /\ OpenerStands(r)'
                       /\ entries'[r] # None => runtimes'[r] = "open"
                       /\ runtimes'[r] = "open" /\ entries'[r] = None => requests'[r].at \in Unregistered
  BY <1>1, <1>2, <1>3, SessionStatesTyped DEF SessionInv, RequestsStand, OpenerStands, EntriesAreOpen
<1> QED BY <1>1, <1>3, <1>4, <1>5, <1>6, SessionStatesTyped, NothingMoves, StepKeeps

LEMMA ReceiveKeeps ==
    ASSUME SessionInv, NEW r \in Requests, NEW kind \in Kind, NEW s \in SessionIds,
           NEW who \in Identities, NEW ends \in TokenEnds, Receive(r, kind, s, who, ends)
    PROVE  SessionInv'
<1> DEFINE at == IF kind = "open" THEN "enter" ELSE "lookup"
           to == [requests[r] EXCEPT !.at = at, !.kind = kind, !.session = s, !.who = who, !.ends = ends]
<1>1. /\ requests[r].at = "idle" /\ requests[r] \in Request
      /\ UNCHANGED <<entries, closed, bindings, created, waiters, now>>
      /\ requests' = [requests EXCEPT ![r] = to]
  BY SessionStatesTyped DEF Receive, Where
<1>2. /\ to \in Request /\ to.at = at /\ to.session = s /\ to.kind = kind /\ to.who = who
  BY <1>1, SessionAssumption DEF Request, Place
<1> HIDE DEF to
<1>3. OnlyMoves(r) /\ requests'[r] = to
  BY <1>1, <1>2, SessionStatesTyped DEF OnlyMoves
<1>4. HasRoom'
  BY <1>1, RoomStays
<1>5. CASE r \in Users
  <2>1. kind # "open" /\ UNCHANGED runtimes
    BY <1>5, SessionStatesTyped DEF Receive
  <2> QED BY <1>1, <1>2, <1>3, <1>5, <2>1, SessionStatesTyped, UserStepKeeps DEF UserStands
<1>6. CASE r \in Openers
  <2>1. kind = "open" /\ s = r /\ runtimes' = [runtimes EXCEPT ![r] = "open"]
    BY <1>6 DEF Receive
  <2>2. /\ runtimes' \in [SessionIds -> RuntimeStates] /\ runtimes'[r] = "open"
        /\ \A t \in SessionIds : t # r => runtimes'[t] = runtimes[t]
    BY <1>6, <2>1, SessionStatesTyped DEF RuntimeStates
  <2>3. runtimes[r] = "none" /\ entries[r] = None /\ r \notin created
    BY <1>1, <1>6, SessionStatesTyped DEF SessionInv, RequestsStand, OpenerStands, EntriesAreOpen
  <2>4. OpenerStands(r)'
    BY <1>1, <1>2, <1>3, <1>6, <2>1, <2>2, <2>3 DEF OpenerStands, Unregistered, Finished
  <2> QED BY <1>1, <1>2, <1>3, <1>4, <1>6, <2>1, <2>2, <2>3, <2>4, SessionStatesTyped, StepKeeps
          DEF Moved, Unregistered
<1> QED BY <1>5, <1>6, SessionStatesTyped

\* A runtime that was to close has no entry any more.
LEMMA RuntimeClosesKeeps == ASSUME SessionInv, NEW s \in SessionIds, RuntimeCloses(s) PROVE SessionInv'
<1>1. PICK outcome \in Shut : /\ runtimes[s] = "closing" /\ runtimes' = [runtimes EXCEPT ![s] = outcome]
                              /\ UNCHANGED <<entries, closed, bindings, created, requests, waiters, now>>
  BY DEF RuntimeCloses
<1>2. /\ runtimes' \in [SessionIds -> RuntimeStates] /\ runtimes'[s] = outcome
      /\ \A t \in SessionIds : t # s => runtimes'[t] = runtimes[t]
  BY <1>1, SessionStatesTyped DEF RuntimeStates
<1>3. outcome \notin {"none", "open"} /\ entries[s] = None
  BY <1>1 DEF Shut, SessionInv, EntriesAreOpen
<1>4. SessionTypeOK'
  BY <1>1, <1>2, SessionStatesTyped DEF SessionTypeOK, RuntimeStates
<1>5. RequestsStand'
  <2>1. ASSUME NEW r \in Openers PROVE OpenerStands(r)'
    <3>1. OpenerStands(r) /\ r \in SessionIds
      BY SessionStatesTyped DEF SessionInv, RequestsStand
    <3>2. CASE r = s
      BY <1>1, <1>2, <1>3, <3>1, <3>2 DEF OpenerStands, Unregistered, Finished, Shut
    <3>3. CASE r # s
      BY <1>1, <1>2, <3>1, <3>3 DEF OpenerStands
    <3> QED BY <3>2, <3>3
  <2> QED BY <1>1, <2>1 DEF SessionInv, RequestsStand, UserStands
<1>6. EntriesAreOpen'
  BY <1>1, <1>2, <1>3 DEF SessionInv, EntriesAreOpen
<1> QED BY <1>1, <1>4, <1>5, <1>6 DEF SessionInv, ClosedIsEmpty, HasRoom, Open

\* The handler closes: nothing is left in the registry, and who waits is known.
LEMMA CloseKeeps == ASSUME SessionInv, Close PROVE SessionInv'
<1>1. /\ ~closed /\ closed' = TRUE /\ waiters = {} /\ UNCHANGED <<requests, now>> /\ created' = {}
      /\ waiters' = {r \in Openers : requests[r].at \in {"purge", "register"}}
  BY DEF Close, SessionInv, ClosedIsEmpty
<1>2. /\ entries' \in [SessionIds -> Entry \cup {None}] /\ runtimes' \in [SessionIds -> RuntimeStates]
      /\ bindings' \in [SessionIds -> Nat \cup {None}]
  BY SessionStatesTyped DEF Close, RuntimeStates
<1>3. \A s \in SessionIds : /\ entries'[s] = None
                            /\ runtimes'[s] = IF entries[s] # None THEN "closing" ELSE runtimes[s]
  BY DEF Close, Open
<1>4. SessionTypeOK'
  BY <1>1, <1>2, SessionStatesTyped DEF SessionTypeOK, RuntimeStates
<1>5. RequestsStand'
  <2>1. ASSUME NEW r \in Openers PROVE OpenerStands(r)'
    <3>1. /\ OpenerStands(r) /\ r \in SessionIds
          /\ entries[r] # None => runtimes[r] = "open"
      BY SessionStatesTyped DEF SessionInv, RequestsStand, EntriesAreOpen
    <3> QED BY <1>1, <1>3, <3>1 DEF OpenerStands, Unregistered, Finished
  <2> QED BY <1>1, <2>1 DEF SessionInv, RequestsStand, UserStands
<1>6. EntriesAreOpen'
  BY <1>1, <1>3 DEF SessionInv, EntriesAreOpen
<1>7. HasRoom'
  BY <1>3, RoomStays
<1>8. ClosedIsEmpty'
  BY <1>1, <1>3 DEF ClosedIsEmpty
<1> QED BY <1>4, <1>5, <1>6, <1>7, <1>8 DEF SessionInv

-----------------------------------------------------------------------------
LEMMA SessionInitInv == SessionInit /\ now = 0 => SessionInv
<1> SUFFICES ASSUME SessionInit, now = 0 PROVE SessionInv
  OBVIOUS
<1>1. Idle \in Request /\ Idle.at = "idle"
  BY DEF Idle, Request, Place, Kind
<1>2. SessionTypeOK
  <2>1. now \in Times
    BY SessionAssumption DEF Times
  <2>2. requests \in [Requests -> Request]
    BY <1>1 DEF SessionInit
  <2>3. /\ entries \in [SessionIds -> Entry \cup {None}] /\ bindings \in [SessionIds -> Nat \cup {None}]
        /\ runtimes \in [SessionIds -> {"none", "open", "closing"} \cup Shut]
    BY DEF SessionInit
  <2> QED BY <2>1, <2>2, <2>3 DEF SessionInit, SessionTypeOK
<1>3. \A r \in Requests : requests[r].at = "idle"
  BY <1>1 DEF SessionInit
<1>4. RequestsStand
  BY <1>3 DEF SessionInit, RequestsStand, OpenerStands, UserStands, Unregistered, Finished,
     Requests, SessionIds
<1>5. EntriesAreOpen /\ ClosedIsEmpty
  BY DEF SessionInit, EntriesAreOpen, ClosedIsEmpty
<1>6. Open = {}
  BY DEF SessionInit, Open
<1>7. HasRoom
  BY <1>6, FS_EmptySet, SessionAssumption DEF HasRoom
<1> QED BY <1>2, <1>4, <1>5, <1>7 DEF SessionInv

LEMMA SessionNextInv == SessionInv /\ [SessionNext]_<<sessionVars, now>> => SessionInv'
<1> SUFFICES ASSUME SessionInv, [SessionNext]_<<sessionVars, now>> PROVE SessionInv'
  OBVIOUS
<1>1. ASSUME UNCHANGED sessionVars, now' \in Times PROVE SessionInv'
  BY <1>1 DEF sessionVars, SessionInv, SessionTypeOK, RequestsStand, OpenerStands, UserStands,
     EntriesAreOpen, ClosedIsEmpty, HasRoom, Open
<1>2. CASE UNCHANGED <<sessionVars, now>>
  BY <1>1, <1>2, SessionStatesTyped
<1>3. CASE SessionTick
  BY <1>1, <1>3, SessionStatesTyped, SessionAssumption DEF SessionTick, Times
<1>4. ASSUME NEW r \in Requests, RequestStep(r) PROVE SessionInv'
  BY <1>4, PurgeNextKeeps, EnterKeeps, RegisterKeeps, ConnectKeeps, UndoKeeps, UnbindKeeps, LookupKeeps,
     ForgetKeeps, GetKeeps, TouchKeeps, AnswerKeeps, EndSessionKeeps DEF RequestStep
<1> QED BY <1>2, <1>3, <1>4, ReceiveKeeps, GiveUpKeeps, RuntimeClosesKeeps, CloseKeeps DEF SessionNext

\* Each request stands where its own session can bear it, at every wait of every
\* other one (createMcpHttpHandler, session-runtime.ts).
THEOREM SessionInvariant == SessionSpec => []SessionInv
BY SessionInitInv, SessionNextInv, PTL DEF SessionSpec

\* The registry holds no more sessions than it may, each with an open runtime;
\* an open runtime without an entry has a request that looks after it; and a
\* session that could not be created leaves nothing, unless it was being
\* registered while the handler closed (register, touch and removeAndClose of
\* session-runtime.ts, createSession of server/http.ts).
THEOREM RegistryStaysExact == SessionSpec => []RegistryIsExact
<1>1. SessionInv => RegistryIsExact
  BY SessionStatesTyped DEF SessionInv, HasRoom, EntriesAreOpen, Unregistered, RequestsStand, OpenerStands,
     RegistryIsExact
<1> QED BY <1>1, SessionInvariant, PTL

-----------------------------------------------------------------------------
(***************************************************************************)
(* That a managed provider outlives its calls and is never rolled back     *)
(* (ManagedProvider).                                                      *)
(*                                                                         *)
(* The inductive invariant has two halves: which providers may have calls, *)
(* and how what was served, what the process knows of the journal and what *)
(* the file says follow one another while an activation is on its way.     *)
(***************************************************************************)

Activations == [at : {"idle", "prepare", "write", "readback", "dispose"}, release : Releases \cup {None}]

ActivationTyped == activation \in Activations /\ (activation.at # "idle" => activation.release \in Releases)

\* What is served has its provider, until the server closes, and a call that is
\* under way has one whatever happens.
CallsAreServed ==
    /\ process # "closed" /\ active # None => generations[active.revision] = "active"
    /\ process \in {"down", "starting"} => active = None
    /\ \A c \in ProviderCalls :
          IF providerCalls[c].at = "idle" THEN providerCalls[c].generation = 0
                                          ELSE providerCalls[c].generation \in Revisions
    /\ InFlightKeepsProvider

\* The one is the other or a later one.
Follows(later, earlier) == later = earlier \/ later.revision > earlier.revision

\* The file follows the journal, and the journal what was served last; what an
\* activation is to write follows the journal.
JournalLeads ==
    /\ newest # None => stored # None /\ Follows(stored, newest)
    /\ process # "down" /\ newest # None => journal # None /\ Follows(journal, newest)
    /\ process # "down" /\ journal # None => stored # None /\ Follows(stored, journal)
    /\ activation.at # "idle" => process # "down"
    /\ activation.at \in {"write", "readback"} =>
          journal = None \/ activation.release.revision > journal.revision
    /\ activation.at = "readback" => stored = activation.release

ProviderInv == ProviderTypeOK /\ ActivationTyped /\ CallsAreServed /\ JournalLeads

-----------------------------------------------------------------------------
CallState == [at : {"idle", "running", "aborted"}, generation : 0..MaxRevision]
Stage     == {"none", "active", "draining", "disposing"}

LEMMA ProviderStatesTyped ==
    ASSUME ProviderInv
    PROVE  /\ offer \in Releases /\ stored \in Releases \cup {None} /\ journal \in Releases \cup {None}
           /\ active \in Releases \cup {None} /\ newest \in Releases \cup {None}
           /\ generations \in [Revisions -> Stage]
           /\ activation \in Activations /\ (activation.at # "idle" => activation.release \in Releases)
           /\ providerCalls \in [ProviderCalls -> CallState]
BY DEF ProviderInv, ProviderTypeOK, ActivationTyped, Stage, CallState

LEMMA NoActivationTyped == NoActivation \in Activations /\ NoActivation.at = "idle"
BY DEF NoActivation, Activations

\* A release that the journal does not refuse follows what was served last.
LEMMA NewFollows ==
    ASSUME ProviderInv, process # "down", NEW release \in Releases, ~Replayed(release), newest # None
    PROVE  Follows(release, newest)
<1>1. journal \in Releases /\ newest \in Releases /\ Follows(journal, newest)
  BY ProviderStatesTyped DEF ProviderInv, JournalLeads
<1>2. release.revision >= journal.revision /\ (release.revision = journal.revision => release = journal)
  <2>1. release.revision \in Int /\ journal.revision \in Int /\ journal # None
    BY <1>1 DEF Releases, Revisions, ProviderInv, JournalLeads
  <2> QED BY <2>1 DEF Replayed
<1>3. release.revision \in Int /\ journal.revision \in Int /\ newest.revision \in Int
  BY <1>1 DEF Releases, Revisions
<1> QED BY <1>1, <1>2, <1>3 DEF Follows

\* What switching to a release does.
LEMMA SwitchKeeps ==
    ASSUME ProviderInv, NEW release \in Releases, Switch(release), process # "down",
           stored # None, Follows(stored, release), UNCHANGED <<offer, stored, providerCalls>>
    PROVE  ProviderInv'
<1> DEFINE before == IF active = None THEN 0 ELSE active.revision
           idle   == before # 0 /\ InFlight(before) = {}
<1>1. /\ journal' = release /\ active' = release /\ newest' = release
      /\ generations' = [g \in Revisions |->
             IF g = release.revision THEN "active"
             ELSE IF g # before THEN generations[g]
             ELSE IF idle THEN "disposing" ELSE "draining"]
      /\ activation' = IF idle THEN [at |-> "dispose", release |-> release] ELSE NoActivation
      /\ process' = IF process = "starting" THEN "up" ELSE process
  BY DEF Switch
<1>2. release.revision \in Revisions /\ process \in {"starting", "up", "closed"}
  BY DEF Releases, ProviderInv, ProviderTypeOK
<1>3. generations' \in [Revisions -> Stage]
      /\ generations'[release.revision] = "active"
  BY <1>1, <1>2, ProviderStatesTyped DEF CallState, Stage
<1>4. ActivationTyped' /\ activation'.at \in {"idle", "dispose"}
  BY <1>1, NoActivationTyped DEF ActivationTyped, Activations
<1>5. ProviderTypeOK'
  BY <1>1, <1>2, <1>3, <1>4, ProviderStatesTyped DEF CallState, Stage, ProviderTypeOK
<1>6. CallsAreServed'
  <2>1. ASSUME NEW c \in ProviderCalls, providerCalls'[c].at # "idle"
        PROVE  generations'[providerCalls'[c].generation] \in {"active", "draining"}
    <3> DEFINE g == providerCalls[c].generation
    <3>1. providerCalls'[c] = providerCalls[c] /\ providerCalls[c].at \in {"running", "aborted"}
      BY <2>1, ProviderStatesTyped DEF CallState, Stage
    <3>2. generations[g] \in {"active", "draining"} /\ c \in InFlight(g) /\ g \in 0..MaxRevision
      BY <3>1, ProviderStatesTyped DEF CallState, Stage, ProviderInv, CallsAreServed, InFlightKeepsProvider, InFlight
    <3>3. g \in Revisions /\ (g = before => ~idle)
      BY <3>1, <3>2 DEF ProviderInv, CallsAreServed
    <3> HIDE DEF before, idle
    <3> QED BY <1>1, <3>1, <3>2, <3>3
  <2> QED BY <1>1, <1>2, <1>3, <2>1 DEF ProviderInv, CallsAreServed, InFlightKeepsProvider
<1>7. JournalLeads'
  BY <1>1, <1>2, <1>4 DEF JournalLeads, Follows
<1> QED BY <1>4, <1>5, <1>6, <1>7 DEF ProviderInv

\* An activation that fails ends a process that has not served anything.
LEMMA FailedKeeps ==
    ASSUME ProviderInv, Failed, UNCHANGED <<offer, stored, active, generations, providerCalls, newest>>
    PROVE  ProviderInv'
<1>1. /\ activation' = NoActivation
      /\ \/ process' = process /\ journal' = journal /\ process # "starting"
         \/ process = "starting" /\ process' = "down" /\ journal' = None
  BY DEF Failed
<1>2. ActivationTyped' /\ activation'.at = "idle"
  BY <1>1, NoActivationTyped DEF ActivationTyped
<1>3. ProviderTypeOK'
  BY <1>1, <1>2, ProviderStatesTyped DEF ProviderTypeOK, ProviderInv
<1>4. CallsAreServed'
  BY <1>1 DEF ProviderInv, CallsAreServed, InFlightKeepsProvider
<1>5. JournalLeads'
  BY <1>1, <1>2 DEF ProviderInv, JournalLeads
<1> QED BY <1>2, <1>3, <1>4, <1>5 DEF ProviderInv

LEMMA RefreshKeeps == ASSUME ProviderInv, Refresh PROVE ProviderInv'
<1>1. CASE Failed
  BY <1>1, FailedKeeps DEF Refresh
<1>2. CASE activation' = [at |-> "prepare", release |-> offer] /\ UNCHANGED <<process, journal>>
  <2>1. ActivationTyped' /\ activation'.at = "prepare" /\ process # "down"
    BY <1>2, ProviderStatesTyped DEF ActivationTyped, Activations, Refresh
  <2> QED BY <1>2, <2>1 DEF Refresh, ProviderInv, ProviderTypeOK, CallsAreServed, InFlightKeepsProvider,
             JournalLeads
<1> QED BY <1>1, <1>2 DEF Refresh

LEMMA PrepareKeeps == ASSUME ProviderInv, Prepare PROVE ProviderInv'
<1> DEFINE release == activation.release
<1>1. /\ activation.at = "prepare" /\ release \in Releases /\ process # "down"
      /\ UNCHANGED <<offer, stored, providerCalls, deaths>>
  BY ProviderStatesTyped DEF Prepare, ProviderInv, JournalLeads
<1>2. CASE Failed /\ UNCHANGED <<active, generations, newest>>
  BY <1>1, <1>2, FailedKeeps
<1>3. CASE ~Replayed(release) /\ journal # None /\ journal.revision = release.revision /\ Switch(release)
  <2>1. stored # None /\ Follows(stored, journal) /\ journal = release
    BY <1>1, <1>3, ProviderStatesTyped DEF ProviderInv, JournalLeads, Replayed
  <2> HIDE DEF release
  <2> QED BY <1>1, <1>3, <2>1, SwitchKeeps
<1>4. CASE /\ ~Replayed(release) /\ ~(journal # None /\ journal.revision = release.revision)
           /\ activation' = [activation EXCEPT !.at = "write"]
           /\ UNCHANGED <<process, journal, active, generations, newest>>
  <2>1. ActivationTyped' /\ activation'.at = "write" /\ activation'.release = release
    BY <1>1, <1>4, ProviderStatesTyped DEF ActivationTyped, Activations
  <2>2. journal = None \/ release.revision > journal.revision
    BY <1>1, <1>4, ProviderStatesTyped DEF Replayed, Releases, Revisions
  <2> QED BY <1>1, <1>4, <2>1, <2>2 DEF ProviderInv, ProviderTypeOK, CallsAreServed,
             InFlightKeepsProvider, JournalLeads
<1> QED BY <1>2, <1>3, <1>4 DEF Prepare

\* What is written follows the journal, so the file never falls behind it.
LEMMA WriteKeeps == ASSUME ProviderInv, Write PROVE ProviderInv'
<1>1. /\ activation.at = "write" /\ activation.release \in Releases
      /\ UNCHANGED <<offer, active, generations, providerCalls, newest, deaths>>
  BY ProviderStatesTyped DEF Write
<1>2. CASE Failed /\ UNCHANGED stored
  BY <1>1, <1>2, FailedKeeps
<1>3. CASE /\ stored' = activation.release /\ activation' = [activation EXCEPT !.at = "readback"]
           /\ UNCHANGED <<process, journal>>
  <2>1. /\ ActivationTyped' /\ activation'.at = "readback"
        /\ activation'.release = activation.release
    BY <1>1, <1>3, ProviderStatesTyped DEF ActivationTyped, Activations
  <2>2. /\ process # "down" /\ (journal = None \/ stored'.revision > journal.revision)
        /\ newest # None => journal # None /\ Follows(journal, newest)
    BY <1>1, <1>3 DEF ProviderInv, JournalLeads
  <2>3. /\ journal # None => stored' # None /\ Follows(stored', journal)
        /\ newest # None => stored' # None /\ Follows(stored', newest)
    <3>1. /\ stored'.revision \in Int /\ (journal # None => journal.revision \in Int)
          /\ newest # None => newest.revision \in Int
      BY <1>1, <1>3, ProviderStatesTyped DEF Releases, Revisions
    <3> QED BY <1>1, <1>3, <2>2, <3>1, ReleaseAssumption DEF Follows
  <2> QED BY <1>1, <1>3, <2>1, <2>2, <2>3, ProviderStatesTyped DEF ProviderInv, ProviderTypeOK,
             CallsAreServed, InFlightKeepsProvider, JournalLeads, Follows
<1> QED BY <1>2, <1>3 DEF Write

LEMMA ProviderReadBackKeeps == ASSUME ProviderInv, ReadBackJournal PROVE ProviderInv'
<1>1. /\ activation.at = "readback" /\ activation.release \in Releases /\ process # "down"
      /\ stored = activation.release /\ stored # None
      /\ UNCHANGED <<offer, stored, providerCalls, deaths>>
  BY ProviderStatesTyped, ReleaseAssumption DEF ReadBackJournal, ProviderInv, JournalLeads
<1>2. Follows(stored, activation.release)
  BY <1>1 DEF Follows
<1>3. CASE Switch(activation.release)
  BY <1>1, <1>2, <1>3, SwitchKeeps
<1>4. CASE Failed /\ UNCHANGED <<active, generations, newest>>
  BY <1>1, <1>4, FailedKeeps
<1> QED BY <1>3, <1>4 DEF ReadBackJournal

-----------------------------------------------------------------------------
\* Where only calls and providers move, the calls have to be looked at.
LEMMA CallsMove ==
    ASSUME ProviderInv, UNCHANGED <<offer, stored, journal, active, newest>>,
           process' # process => process' = "closed" /\ process = "up",
           activation' \in {activation, NoActivation},
           generations' \in [Revisions -> Stage],
           providerCalls' \in [ProviderCalls -> CallState],
           CallsAreServed'
    PROVE  ProviderInv'
<1>1. ActivationTyped' /\ (activation'.at = "idle" \/ activation' = activation)
  BY ProviderStatesTyped, NoActivationTyped DEF ActivationTyped
<1>2. ProviderTypeOK'
  BY <1>1, ProviderStatesTyped DEF CallState, Stage, ProviderTypeOK, ProviderInv, NoActivation
<1>3. JournalLeads'
  BY <1>1 DEF ProviderInv, JournalLeads
<1> QED BY <1>1, <1>2, <1>3 DEF ProviderInv

LEMMA AbortMoves ==
    ASSUME ProviderInv, NEW some, Abort(some)
    PROVE  /\ providerCalls' \in [ProviderCalls -> CallState]
           /\ \A c \in ProviderCalls :
                 /\ providerCalls'[c].generation = providerCalls[c].generation
                 /\ providerCalls'[c].at = "idle" <=> providerCalls[c].at = "idle"
BY ProviderStatesTyped DEF CallState, Stage, Abort

LEMMA DisposedKeeps == ASSUME ProviderInv, NEW g \in Revisions, Disposed(g) PROVE ProviderInv'
<1>1. /\ generations[g] = "disposing" /\ generations' = [generations EXCEPT ![g] = "none"]
      /\ UNCHANGED <<offer, stored, process, journal, active, providerCalls, newest, deaths>>
      /\ activation' = activation \/ activation' = NoActivation
  BY DEF Disposed
<1>2. /\ generations' \in [Revisions -> Stage]
      /\ \A h \in Revisions : generations[h] # "disposing" => generations'[h] = generations[h]
  BY <1>1, ProviderStatesTyped DEF CallState, Stage
<1>3. active # None => active.revision \in Revisions
  BY ProviderStatesTyped DEF Releases
<1>4. CallsAreServed'
  BY <1>1, <1>2, <1>3 DEF ProviderInv, CallsAreServed, InFlightKeepsProvider
<1>5. /\ UNCHANGED <<offer, stored, journal, active, newest>> /\ process' = process
      /\ activation' \in {activation, NoActivation}
      /\ generations' \in [Revisions -> Stage] /\ providerCalls' \in [ProviderCalls -> CallState]
  BY <1>1, <1>2, ProviderStatesTyped
<1> QED BY <1>5, <1>4, CallsMove

LEMMA CallKeeps == ASSUME ProviderInv, NEW c \in ProviderCalls, CallProvider(c) PROVE ProviderInv'
<1>1. /\ active # None /\ process # "closed" /\ active.revision \in Revisions
      /\ generations[active.revision] = "active"
      /\ providerCalls' = [providerCalls EXCEPT ![c] = [at |-> "running", generation |-> active.revision]]
      /\ UNCHANGED <<offer, stored, process, journal, active, generations, activation, newest, deaths>>
  BY ProviderStatesTyped DEF CallProvider, Serves, ProviderInv, CallsAreServed, Releases
<1>2. /\ providerCalls' \in [ProviderCalls -> CallState]
      /\ providerCalls'[c].at = "running" /\ providerCalls'[c].generation = active.revision
      /\ \A d \in ProviderCalls : d # c => providerCalls'[d] = providerCalls[d]
  BY <1>1, ProviderStatesTyped DEF CallState, Stage, Revisions
<1>3. CallsAreServed'
  BY <1>1, <1>2 DEF ProviderInv, CallsAreServed, InFlightKeepsProvider
<1>4. /\ UNCHANGED <<offer, stored, journal, active, newest>> /\ process' = process
      /\ activation' \in {activation, NoActivation}
      /\ generations' \in [Revisions -> Stage] /\ providerCalls' \in [ProviderCalls -> CallState]
  BY <1>1, <1>2, ProviderStatesTyped
<1> QED BY <1>4, <1>3, CallsMove

LEMMA HandlerEndsKeeps == ASSUME ProviderInv, NEW c \in ProviderCalls, HandlerEnds(c) PROVE ProviderInv'
<1> DEFINE g == providerCalls[c].generation
<1>1. /\ g # 0 /\ providerCalls' = [providerCalls EXCEPT ![c] = NoCall]
      /\ generations' = IF generations[g] = "draining" /\ InFlight(g) \subseteq {c}
                        THEN [generations EXCEPT ![g] = "disposing"] ELSE generations
      /\ UNCHANGED <<offer, stored, process, journal, active, activation, newest, deaths>>
  BY DEF HandlerEnds
<1>2. g \in Revisions
  BY <1>1, ProviderStatesTyped DEF CallState, Stage, Revisions
<1>3. /\ providerCalls' \in [ProviderCalls -> CallState]
      /\ providerCalls'[c].at = "idle" /\ providerCalls'[c].generation = 0
      /\ \A d \in ProviderCalls : d # c => providerCalls'[d] = providerCalls[d]
  BY <1>1, ProviderStatesTyped, ProviderAssumption DEF CallState, Stage, NoCall
<1>4. /\ generations' \in [Revisions -> Stage]
      /\ \A h \in Revisions : generations'[h] = generations[h] \/
            (h = g /\ generations[h] = "draining" /\ InFlight(g) \subseteq {c})
  BY <1>1, <1>2, ProviderStatesTyped DEF CallState, Stage
<1>5. \A d \in ProviderCalls : d # c /\ providerCalls[d].at # "idle" /\ providerCalls[d].generation = g
        => ~(InFlight(g) \subseteq {c})
  BY ProviderStatesTyped DEF CallState, Stage, InFlight
<1> HIDE DEF g
<1>6. active # None => active.revision \in Revisions
  BY ProviderStatesTyped DEF Releases
<1>7. \A d \in ProviderCalls : providerCalls'[d].at # "idle" =>
         generations'[providerCalls'[d].generation] \in {"active", "draining"}
  BY <1>3, <1>4, <1>5 DEF ProviderInv, CallsAreServed, InFlightKeepsProvider
<1>8. CallsAreServed'
  BY <1>1, <1>3, <1>4, <1>6, <1>7 DEF ProviderInv, CallsAreServed, InFlightKeepsProvider
<1>9. /\ UNCHANGED <<offer, stored, journal, active, newest>> /\ process' = process
      /\ activation' \in {activation, NoActivation}
      /\ generations' \in [Revisions -> Stage] /\ providerCalls' \in [ProviderCalls -> CallState]
  BY <1>1, <1>3, <1>4, ProviderStatesTyped
<1> QED BY <1>9, <1>8, CallsMove

LEMMA CloseGenerationKeeps ==
    ASSUME ProviderInv, NEW g \in Revisions, CloseGeneration(g) PROVE ProviderInv'
<1>1. /\ process = "closed" /\ Abort(InFlight(g))
      /\ generations' = [generations EXCEPT ![g] = IF InFlight(g) = {} THEN "disposing" ELSE "draining"]
      /\ UNCHANGED <<offer, stored, process, journal, active, activation, newest, deaths>>
  BY DEF CloseGeneration
<1>2. /\ generations' \in [Revisions -> Stage]
      /\ generations'[g] = IF InFlight(g) = {} THEN "disposing" ELSE "draining"
      /\ \A h \in Revisions : h # g => generations'[h] = generations[h]
  BY <1>1, ProviderStatesTyped DEF CallState, Stage
<1>3. \A d \in ProviderCalls : providerCalls[d].at # "idle" /\ providerCalls[d].generation = g
        => InFlight(g) # {}
  BY ProviderStatesTyped DEF CallState, Stage, InFlight
<1>4. CallsAreServed'
  BY <1>1, <1>2, <1>3, AbortMoves DEF ProviderInv, CallsAreServed, InFlightKeepsProvider
<1>5. /\ UNCHANGED <<offer, stored, journal, active, newest>> /\ process' = process
      /\ activation' \in {activation, NoActivation}
      /\ generations' \in [Revisions -> Stage] /\ providerCalls' \in [ProviderCalls -> CallState]
  BY <1>1, <1>2, AbortMoves
<1> QED BY <1>5, <1>4, CallsMove

LEMMA AbortKeeps == ASSUME ProviderInv, AbortCall \/ \E g \in Revisions : DrainTimer(g) PROVE ProviderInv'
<1>1. /\ UNCHANGED <<offer, stored, process, journal, active, generations, activation, newest, deaths>>
      /\ \E some : Abort(some)
  BY DEF AbortCall, DrainTimer
<1>2. CallsAreServed'
  BY <1>1, AbortMoves DEF ProviderInv, CallsAreServed, InFlightKeepsProvider
<1>3. /\ UNCHANGED <<offer, stored, journal, active, newest>> /\ process' = process
      /\ activation' \in {activation, NoActivation}
      /\ generations' \in [Revisions -> Stage] /\ providerCalls' \in [ProviderCalls -> CallState]
  BY <1>1, AbortMoves, ProviderStatesTyped
<1> QED BY <1>3, <1>2, CallsMove

\* Whatever dies with the process, the file has what it last served, or later.
LEMMA ProcessKeeps ==
    ASSUME ProviderInv, Offer \/ StartProvider \/ CloseProvider \/ Die
    PROVE  ProviderInv'
<1>1. CASE Offer
  BY <1>1 DEF Offer, ProviderInv, ProviderTypeOK, ActivationTyped, CallsAreServed,
     InFlightKeepsProvider, JournalLeads
<1>2. CASE StartProvider
  <2>1. activation.at = "idle" /\ process' = "starting" /\ journal' = stored
    BY <1>2, ProviderStatesTyped DEF StartProvider, ProviderInv, JournalLeads, Activations
  <2> QED BY <1>2, <2>1 DEF StartProvider, ProviderInv, ProviderTypeOK, ActivationTyped,
             CallsAreServed, InFlightKeepsProvider, JournalLeads, Follows
<1>3. CASE CloseProvider
  <2>1. CallsAreServed'
    BY <1>3 DEF CloseProvider, ProviderInv, CallsAreServed, InFlightKeepsProvider
  <2> QED BY <1>3, <2>1, ProviderStatesTyped, CallsMove DEF CloseProvider
<1>4. CASE Die
  <2>1. /\ process' = "down" /\ journal' = None /\ active' = None /\ activation' = NoActivation
        /\ UNCHANGED <<offer, stored, newest>>
        /\ generations' \in [Revisions -> Stage]
    BY <1>4 DEF CallState, Stage, Die
  <2>2. /\ providerCalls' \in [ProviderCalls -> CallState]
        /\ \A c \in ProviderCalls : providerCalls'[c].at = "idle" /\ providerCalls'[c].generation = 0
    BY <1>4, ProviderAssumption DEF CallState, Stage, Die, NoCall
  <2>3. ActivationTyped' /\ activation'.at = "idle"
    BY <2>1, NoActivationTyped DEF ActivationTyped
  <2>4. ProviderTypeOK'
    BY <2>1, <2>2, <2>3, ProviderStatesTyped DEF CallState, Stage, ProviderTypeOK
  <2>5. CallsAreServed' /\ JournalLeads'
    BY <2>1, <2>2, <2>3 DEF CallsAreServed, InFlightKeepsProvider, ProviderInv, JournalLeads
  <2> QED BY <2>3, <2>4, <2>5 DEF ProviderInv
<1> QED BY <1>1, <1>2, <1>3, <1>4

-----------------------------------------------------------------------------
LEMMA ProviderInitInv == ProviderInit => ProviderInv
<1> SUFFICES ASSUME ProviderInit PROVE ProviderInv
  OBVIOUS
<1>1. ActivationTyped /\ activation.at = "idle"
  BY NoActivationTyped DEF ProviderInit, Fresh, ActivationTyped
<1>2. /\ providerCalls \in [ProviderCalls -> CallState]
      /\ \A c \in ProviderCalls : providerCalls[c].at = "idle" /\ providerCalls[c].generation = 0
  BY ProviderAssumption DEF CallState, Stage, ProviderInit, NoCall
<1>3. ProviderTypeOK
  BY <1>1, <1>2 DEF CallState, Stage, ProviderInit, Fresh, ProviderTypeOK
<1>4. CallsAreServed /\ JournalLeads
  BY <1>1, <1>2 DEF ProviderInit, Fresh, CallsAreServed, InFlightKeepsProvider, JournalLeads
<1> QED BY <1>1, <1>3, <1>4 DEF ProviderInv

LEMMA ProviderNextInv == ProviderInv /\ [ProviderNext]_<<providerVars, now>> => ProviderInv'
<1> SUFFICES ASSUME ProviderInv, [ProviderNext]_<<providerVars, now>> PROVE ProviderInv'
  OBVIOUS
<1>1. CASE UNCHANGED providerVars
  BY <1>1 DEF providerVars, ProviderInv, ProviderTypeOK, ActivationTyped, CallsAreServed,
     InFlightKeepsProvider, JournalLeads
<1> QED BY <1>1, ProcessKeeps, RefreshKeeps, PrepareKeeps, WriteKeeps, ProviderReadBackKeeps, DisposedKeeps,
           AbortKeeps, CloseGenerationKeeps, CallKeeps, HandlerEndsKeeps
        DEF ProviderNext, ProviderTick

\* Where calls, providers and the journal of what was served stand, across
\* activations and deaths (managed-provider.ts, managed-business-provider.ts).
THEOREM ProviderInvariant == ProviderSpec => []ProviderInv
<1>1. ProviderInit /\ now = 0 => ProviderInv
  BY ProviderInitInv
<1> QED BY <1>1, ProviderNextInv, PTL DEF ProviderSpec

\* No provider is disposed of under a handler that still runs, aborted or not
\* (#retire, #finishCall and close of ManagedProviderRuntime).
THEOREM ProvidersOutliveCalls == ProviderSpec => []InFlightKeepsProvider
<1>1. ProviderInv => InFlightKeepsProvider
  BY DEF ProviderInv, CallsAreServed
<1> QED BY <1>1, ProviderInvariant, PTL

\* Over restarts and whatever is in the file, what comes to be served is what was
\* served last or a higher revision (persist and the journal that start reads).
THEOREM ServedNeverRollsBack == ProviderSpec => NeverRollsBack
<1>1. ASSUME ProviderInv, [ProviderNext]_<<providerVars, now>>,
             active' \notin {None, active}, newest # None
      PROVE  active' = newest \/ active'.revision > newest.revision
  <2>1. ASSUME NEW release, Switch(release), release \in Releases, process # "down", ~Replayed(release)
        PROVE  active' = newest \/ active'.revision > newest.revision
    BY <1>1, <2>1, NewFollows DEF Switch, Follows
  <2>2. CASE Prepare
    <3>1. activation.at = "prepare" /\ activation.release \in Releases /\ process # "down"
      BY <1>1, <2>2, ProviderStatesTyped DEF Prepare, ProviderInv, JournalLeads
    <3>2. Switch(activation.release) /\ ~Replayed(activation.release)
      BY <1>1, <2>2 DEF Prepare
    <3> QED BY <2>1, <3>1, <3>2
  <2>3. CASE ReadBackJournal
    <3>1. /\ activation.at = "readback" /\ activation.release \in Releases /\ process # "down"
          /\ journal = None \/ activation.release.revision > journal.revision
          /\ journal \in Releases \cup {None}
      BY <1>1, <2>3, ProviderStatesTyped DEF ReadBackJournal, ProviderInv, JournalLeads
    <3>2. ~Replayed(activation.release)
      BY <3>1 DEF Replayed, Releases, Revisions
    <3>3. Switch(activation.release)
      BY <1>1, <2>3 DEF ReadBackJournal
    <3> QED BY <2>1, <3>1, <3>2, <3>3
  <2>4. Prepare \/ ReadBackJournal
    BY <1>1 DEF ProviderNext, ProviderTick, providerVars, Offer, StartProvider, Refresh, Write, Disposed,
       DrainTimer, CloseGeneration, CallProvider, HandlerEnds, AbortCall, CloseProvider, Die
  <2> QED BY <2>2, <2>3, <2>4
<1> QED BY <1>1, ProviderInvariant, PTL DEF ProviderSpec, NeverRollsBack

-----------------------------------------------------------------------------
(***************************************************************************)
(* That the configuration of the plugin is settled whenever nothing is     *)
(* under way (PluginConfig).                                               *)
(*                                                                         *)
(* The inductive invariant says what a publication holds on to: the last   *)
(* release, made from the current one, which nothing replaces meanwhile,   *)
(* and what the runtime serves before and after it is applied.             *)
(***************************************************************************)

AnyPreview == [base : Nat, target : Nat, creator : Actors, ends : Nat, consumed : BOOLEAN,
               decision : {"none", "approve", "reject"}]
AnyRelease == [preview : Nat, phase : {"claimed", "finalized"},
               state : {"published_pending_apply", "readback_verified", "unavailable", "manual_review"}]
AnyRate    == [at : {"idle", "waiting", "running"}, on : Nat]

ConfigTyped ==
    /\ configPreviews \in Seq(AnyPreview) /\ releases \in Seq(AnyRelease)
    /\ current \in 0..Len(releases) /\ applied \in 0..Len(releases)
    /\ publication \in [release : Nat, at : {"idle", "drain", "finalize"}, exact : BOOLEAN]
    /\ rates \in [RateRequests -> AnyRate]
    /\ now \in Nat

\* A release that is verified is not after the current one, and was made from
\* the last one verified before it; one that is open has its publication.
ReleasesStand ==
    \A r \in 1..Len(releases) :
        /\ releases[r].preview \in 1..Len(configPreviews)
        /\ releases[r].phase = "claimed" => releases[r].state = "published_pending_apply"
        /\ releases[r].phase = "claimed" /\ running /\ ~fence =>
              publication.at # "idle" /\ publication.release = r
        /\ releases[r].state = "readback_verified" =>
              /\ r <= current
              /\ \A earlier \in 1..(r - 1) : releases[earlier].state = "readback_verified" =>
                    configPreviews[releases[r].preview].base >= earlier

CurrentStands == current # 0 => releases[current].state = "readback_verified"

\* What is published is the last release, made from the current one.
PublicationStands ==
    /\ publication.at = "idle" => publication = NoPublication
    /\ publication.at # "idle" =>
          /\ running /\ ~fence
          /\ publication.release = Len(releases) /\ Len(releases) # 0
          /\ releases[Len(releases)].phase = "claimed"
          /\ configPreviews[releases[Len(releases)].preview].base = current

RuntimeStands ==
    /\ running /\ ~fence =>
          applied = IF publication.at = "finalize" /\ publication.exact
                    THEN publication.release ELSE current
    /\ ~running => ~fence /\ \A q \in RateRequests : rates[q].at = "idle"
    /\ RatesRunOnWhatIsServed

ConfigInv == ConfigTyped /\ ReleasesStand /\ CurrentStands /\ PublicationStands /\ RuntimeStands

-----------------------------------------------------------------------------
(* Sequences.                                                              *)

LEMMA AppendIsSeq ==
    ASSUME NEW S, NEW s \in Seq(S), NEW x \in S
    PROVE  /\ Append(s, x) \in Seq(S) /\ Len(Append(s, x)) = Len(s) + 1
           /\ \A k \in 1..Len(s) : Append(s, x)[k] = s[k]
           /\ Append(s, x)[Len(s) + 1] = x
OBVIOUS

LEMMA FunctionIsSeq ==
    ASSUME NEW S, NEW n \in Nat, NEW f \in [1..n -> S]
    PROVE  f \in Seq(S) /\ Len(f) = n
<1>1. f \in Seq(S)
  BY SeqDef
<1>2. DOMAIN f = 1..n /\ DOMAIN f = 1..Len(f) /\ Len(f) \in Nat
  BY <1>1, LenProperties
<1> QED BY <1>1, <1>2

\* Both are sequences whose steps change no length but to append.
LEMMA ConfigStatesTyped ==
    ASSUME ConfigInv
    PROVE  /\ configPreviews \in Seq(AnyPreview) /\ Len(configPreviews) \in Nat
           /\ DOMAIN configPreviews = 1..Len(configPreviews)
           /\ configPreviews \in [1..Len(configPreviews) -> AnyPreview]
           /\ releases \in Seq(AnyRelease) /\ Len(releases) \in Nat
           /\ DOMAIN releases = 1..Len(releases)
           /\ releases \in [1..Len(releases) -> AnyRelease]
           /\ current \in 0..Len(releases) /\ applied \in 0..Len(releases)
           /\ publication \in [release : Nat, at : {"idle", "drain", "finalize"}, exact : BOOLEAN]
           /\ rates \in [RateRequests -> AnyRate]
           /\ now \in Nat
BY LenProperties DEF ConfigInv, ConfigTyped

LEMMA NoPublicationTyped ==
    /\ NoPublication \in [release : Nat, at : {"idle", "drain", "finalize"}, exact : BOOLEAN]
    /\ NoPublication.at = "idle"
BY DEF NoPublication

\* Between operations everything is settled.
LEMMA ExclusiveIsSettled ==
    ASSUME ConfigInv, Exclusive
    PROVE  /\ running /\ ~fence /\ publication.at = "idle" /\ applied = current
           /\ \A r \in 1..Len(releases) : releases[r].phase = "finalized"
<1>1. running /\ ~fence /\ publication.at = "idle"
  BY NoPublicationTyped DEF Exclusive
<1>2. \A r \in 1..Len(releases) : releases[r].phase \in {"claimed", "finalized"}
  BY ConfigStatesTyped DEF AnyRelease
<1> QED BY <1>1, <1>2 DEF ConfigInv, ReleasesStand, RuntimeStands

-----------------------------------------------------------------------------
(* What one step of each kind leaves alone.                                *)

\* No release looks at more of a preview than what it was made from.
BasesStay ==
    /\ configPreviews' \in Seq(AnyPreview) /\ Len(configPreviews') \in Nat
    /\ Len(configPreviews') >= Len(configPreviews)
    /\ \A p \in 1..Len(configPreviews) : configPreviews'[p].base = configPreviews[p].base

LEMMA PreviewStepKeeps ==
    ASSUME ConfigInv, BasesStay, now' \in Nat,
           UNCHANGED <<current, releases, publication, running, fence, applied, rates>>
    PROVE  ConfigInv'
<1>1. ConfigTyped'
  BY DEF ConfigInv, ConfigTyped, BasesStay
<1>2. ReleasesStand'
  <2>1. ASSUME NEW r \in 1..Len(releases)
        PROVE  /\ releases[r].preview \in 1..Len(configPreviews')
               /\ configPreviews'[releases[r].preview].base = configPreviews[releases[r].preview].base
    BY ConfigStatesTyped DEF ConfigInv, ReleasesStand, BasesStay
  <2> QED BY <2>1 DEF ConfigInv, ReleasesStand
<1>3. PublicationStands'
  <2>1. Len(releases) # 0 => Len(releases) \in 1..Len(releases)
    BY ConfigStatesTyped
  <2> QED BY <2>1 DEF ConfigInv, PublicationStands, ReleasesStand, BasesStay
<1> QED BY <1>1, <1>2, <1>3 DEF ConfigInv, CurrentStands, RuntimeStands, RatesRunOnWhatIsServed, InUse

LEMMA CreatePreviewKeeps ==
    ASSUME ConfigInv, NEW actor \in Actors, CreatePreview(actor), UNCHANGED now
    PROVE  ConfigInv'
<1>1. PICK target \in {0} \cup {r \in DOMAIN releases : releases[r].state = "readback_verified"} :
         configPreviews' = Append(configPreviews, [base |-> current, target |-> target, creator |-> actor,
                                      ends |-> now + PreviewTtl, consumed |-> FALSE, decision |-> "none"])
  BY DEF CreatePreview
<1> DEFINE made == [base |-> current, target |-> target, creator |-> actor,
                    ends |-> now + PreviewTtl, consumed |-> FALSE, decision |-> "none"]
<1>2. made \in AnyPreview
  BY ConfigStatesTyped, ConfigAssumption DEF AnyPreview
<1> HIDE DEF made
<1>3. configPreviews' = Append(configPreviews, made)
  BY <1>1 DEF made
<1>4. BasesStay
  BY <1>2, <1>3, AppendIsSeq, ConfigStatesTyped DEF BasesStay
<1> QED BY <1>4, PreviewStepKeeps, ConfigStatesTyped DEF CreatePreview

\* A preview that is decided or used stays what it was made from.
LEMMA PreviewChanges ==
    ASSUME ConfigInv, NEW p \in 1..Len(configPreviews), NEW x \in AnyPreview,
           x.base = configPreviews[p].base, configPreviews' = [configPreviews EXCEPT ![p] = x]
    PROVE  BasesStay /\ Len(configPreviews') = Len(configPreviews)
BY ConfigStatesTyped, ExceptSeq DEF BasesStay

LEMMA DecideKeeps ==
    ASSUME ConfigInv, NEW actor \in Actors, NEW p \in 1..Len(configPreviews), DecideApproval(actor, p),
           UNCHANGED now
    PROVE  ConfigInv'
<1>1. PICK decision \in {"approve", "reject"} :
         configPreviews' = [configPreviews EXCEPT ![p].decision = decision]
  BY DEF DecideApproval
<1> DEFINE x == [configPreviews[p] EXCEPT !.decision = decision]
<1>2. x \in AnyPreview /\ x.base = configPreviews[p].base
  BY ConfigStatesTyped DEF AnyPreview
<1>3. configPreviews' = [configPreviews EXCEPT ![p] = x]
  BY <1>1
<1> HIDE DEF x
<1> QED BY <1>2, <1>3, PreviewChanges, PreviewStepKeeps, ConfigStatesTyped DEF DecideApproval

LEMMA RateStepKeeps ==
    ASSUME ConfigInv, now' \in Nat,
           UNCHANGED <<current, configPreviews, releases, publication, running, fence, applied>>,
           rates' \in [RateRequests -> AnyRate],
           \A q \in RateRequests : rates'[q].at # "idle" => running,
           \A q \in RateRequests : rates'[q].at = "running" => rates'[q].on = applied
    PROVE  ConfigInv'
<1>1. ConfigTyped' /\ ReleasesStand' /\ CurrentStands' /\ PublicationStands'
  BY DEF ConfigInv, ConfigTyped, ReleasesStand, CurrentStands, PublicationStands
<1>2. RuntimeStands'
  BY DEF ConfigInv, RuntimeStands, RatesRunOnWhatIsServed, InUse
<1> QED BY <1>1, <1>2 DEF ConfigInv

LEMMA RatesKeep ==
    ASSUME ConfigInv, NEW q \in RateRequests, RequestRate(q) \/ PassBarrier(q) \/ RateEnds(q), UNCHANGED now
    PROVE  ConfigInv'
<1>1. /\ UNCHANGED <<current, configPreviews, releases, publication, running, fence, applied>>
      /\ running
  BY ConfigStatesTyped DEF RequestRate, PassBarrier, RateEnds, ConfigInv, RuntimeStands
<1>2. applied \in Nat /\ [at |-> "running", on |-> applied] \in AnyRate /\ NoRate \in AnyRate /\ NoRate.at = "idle"
  BY ConfigStatesTyped DEF AnyRate, NoRate
<1>3. \A x \in RateRequests : rates[x].at = "running" => rates[x].on = applied
  BY DEF ConfigInv, RuntimeStands, RatesRunOnWhatIsServed, InUse
<1>4. CASE rates' = [rates EXCEPT ![q].at = "waiting"]
  <2>1. rates' \in [RateRequests -> AnyRate] /\ rates'[q].at = "waiting"
    BY <1>4, ConfigStatesTyped DEF AnyRate
  <2> QED BY <1>1, <1>3, <1>4, <2>1, RateStepKeeps, ConfigStatesTyped
<1>5. CASE Run(q)
  <2>1. rates' \in [RateRequests -> AnyRate] /\ rates'[q].on = applied
    BY <1>2, <1>5, ConfigStatesTyped DEF Run
  <2>2. \A x \in RateRequests : x # q => rates'[x] = rates[x]
    BY <1>5, ConfigStatesTyped DEF Run
  <2> QED BY <1>1, <1>3, <2>1, <2>2, RateStepKeeps, ConfigStatesTyped
<1>6. CASE rates' = [rates EXCEPT ![q] = NoRate]
  <2>1. rates' \in [RateRequests -> AnyRate] /\ rates'[q].at = "idle"
    BY <1>2, <1>6, ConfigStatesTyped
  <2>2. \A x \in RateRequests : x # q => rates'[x] = rates[x]
    BY <1>6, ConfigStatesTyped
  <2> QED BY <1>1, <1>3, <2>1, <2>2, RateStepKeeps, ConfigStatesTyped
<1> QED BY <1>4, <1>5, <1>6 DEF RequestRate, PassBarrier, RateEnds

-----------------------------------------------------------------------------
(* The releases.                                                           *)

\* The new release is the last one, made from the current one.
LEMMA PublishKeeps ==
    ASSUME ConfigInv, NEW p \in 1..Len(configPreviews), Publish(p), UNCHANGED now PROVE ConfigInv'
<1> DEFINE x    == [configPreviews[p] EXCEPT !.consumed = TRUE]
           made == [preview |-> p, phase |-> "claimed", state |-> "published_pending_apply"]
           n    == Len(releases)
<1>1. /\ Exclusive /\ configPreviews[p].base = current
      /\ configPreviews' = [configPreviews EXCEPT ![p] = x] /\ releases' = Append(releases, made)
      /\ publication' = [release |-> n + 1, at |-> "drain", exact |-> FALSE]
      /\ UNCHANGED <<current, running, fence, applied, rates>>
  BY DEF Publish, Fits
<1>2. x \in AnyPreview /\ x.base = configPreviews[p].base
  BY ConfigStatesTyped DEF AnyPreview
<1>3. made \in AnyRelease /\ made.preview = p /\ made.state # "readback_verified" /\ made.phase = "claimed"
      /\ made.state = "published_pending_apply"
  BY ConfigStatesTyped DEF AnyRelease
<1> HIDE DEF x, made
<1>4. BasesStay /\ Len(configPreviews') = Len(configPreviews)
  BY <1>1, <1>2, PreviewChanges
<1>5. /\ releases' \in Seq(AnyRelease) /\ Len(releases') = n + 1 /\ releases'[n + 1] = made
      /\ \A r \in 1..n : releases'[r] = releases[r]
      /\ n \in Nat
  BY <1>1, <1>3, AppendIsSeq, ConfigStatesTyped
<1>6. /\ running /\ ~fence /\ applied = current
      /\ \A r \in 1..n : releases[r].phase = "finalized"
  BY <1>1, ExclusiveIsSettled
<1> HIDE DEF n
<1>7. ConfigTyped'
  BY <1>1, <1>4, <1>5, ConfigStatesTyped DEF ConfigTyped, BasesStay, n
<1>8. ReleasesStand'
  <2>1. ASSUME NEW r \in 1..n
        PROVE  /\ releases'[r].preview \in 1..Len(configPreviews')
               /\ releases'[r].phase = "finalized"
               /\ releases'[r].state = "readback_verified" =>
                     /\ r <= current'
                     /\ \A earlier \in 1..(r - 1) : releases'[earlier].state = "readback_verified" =>
                           configPreviews'[releases'[r].preview].base >= earlier
    <3>1. releases'[r] = releases[r] /\ \A earlier \in 1..(r - 1) : releases'[earlier] = releases[earlier]
      BY <1>5
    <3>2. /\ releases[r].preview \in 1..Len(configPreviews)
          /\ releases[r].state = "readback_verified" =>
                /\ r <= current
                /\ \A earlier \in 1..(r - 1) : releases[earlier].state = "readback_verified" =>
                      configPreviews[releases[r].preview].base >= earlier
      BY DEF ConfigInv, ReleasesStand, n
    <3> QED BY <1>1, <1>4, <1>6, <3>1, <3>2 DEF BasesStay
  <2>2. n + 1 \in 1..(n + 1) /\ \A r \in 1..(n + 1) : r = n + 1 \/ r \in 1..n
    BY <1>5
  <2> QED BY <1>1, <1>3, <1>4, <1>5, <2>1, <2>2 DEF ReleasesStand
<1>9. CurrentStands'
  <2>1. current # 0 => current \in 1..n
    BY ConfigStatesTyped DEF n
  <2> QED BY <1>1, <1>5, <2>1 DEF ConfigInv, CurrentStands
<1>10. PublicationStands'
  BY <1>1, <1>3, <1>4, <1>5, <1>6 DEF PublicationStands, BasesStay
<1>11. RuntimeStands'
  BY <1>1, <1>6 DEF ConfigInv, RuntimeStands, RatesRunOnWhatIsServed, InUse
<1> QED BY <1>7, <1>8, <1>9, <1>10, <1>11 DEF ConfigInv

LEMMA ApplyKeeps == ASSUME ConfigInv, Apply, UNCHANGED now PROVE ConfigInv'
<1>1. PICK built \in BOOLEAN :
         /\ applied' = IF built THEN publication.release ELSE applied
         /\ publication' = [publication EXCEPT !.at = "finalize", !.exact = built]
  BY DEF Apply
<1>2. /\ publication.at = "drain" /\ InUse = {}
      /\ UNCHANGED <<current, configPreviews, releases, running, fence, rates>>
  BY DEF Apply
<1>3. /\ running /\ ~fence /\ publication.release = Len(releases) /\ Len(releases) # 0
      /\ applied = current /\ publication.release \in 0..Len(releases)
  BY <1>2, ConfigStatesTyped DEF ConfigInv, PublicationStands, RuntimeStands
<1>4. /\ publication' \in [release : Nat, at : {"idle", "drain", "finalize"}, exact : BOOLEAN]
      /\ publication'.at = "finalize" /\ publication'.exact = built
      /\ publication'.release = publication.release
  BY <1>1, ConfigStatesTyped
<1>5. applied' \in 0..Len(releases)
  BY <1>1, <1>3, ConfigStatesTyped
<1>6. ConfigTyped' /\ ReleasesStand' /\ CurrentStands'
  BY <1>2, <1>4, <1>5, ConfigStatesTyped DEF ConfigInv, ConfigTyped, ReleasesStand, CurrentStands
<1>7. PublicationStands'
  BY <1>2, <1>4 DEF ConfigInv, PublicationStands
<1>8. RuntimeStands'
  BY <1>1, <1>2, <1>3, <1>4 DEF ConfigInv, RuntimeStands, RatesRunOnWhatIsServed, InUse
<1> QED BY <1>6, <1>7, <1>8 DEF ConfigInv

\* One release takes another state, without becoming verified unless it is the
\* one that becomes current, the last.
LEMMA SettleKeeps ==
    ASSUME ConfigInv, NEW r \in 1..Len(releases), NEW to \in AnyRelease,
           releases' = [releases EXCEPT ![r] = to], to.preview = releases[r].preview,
           to.phase = "finalized",
           UNCHANGED <<configPreviews, running, applied, rates, now>>,
           publication' = NoPublication, fence' = fence, running, ~fence,
           \A q \in 1..Len(releases) : q # r => releases[q].phase = "finalized",
           \/ /\ to.state # "readback_verified" /\ current' = current /\ r # current
              /\ applied = current
           \/ /\ to.state = "readback_verified" /\ current' = r /\ applied = r
              /\ r = Len(releases) /\ configPreviews[releases[r].preview].base = current
           \/ /\ to.state = "readback_verified" /\ current' = current /\ r = current
              /\ applied = current
    PROVE  ConfigInv'
<1> DEFINE n == Len(releases)
<1>1. /\ releases' \in Seq(AnyRelease) /\ Len(releases') = n /\ n \in Nat
      /\ releases'[r] = to /\ \A q \in 1..n : q # r => releases'[q] = releases[q]
  <2>1. releases \in Seq(AnyRelease) /\ n \in Nat
    BY ConfigStatesTyped
  <2>2. /\ releases' \in Seq(AnyRelease) /\ Len(releases') = n
        /\ \A q \in 1..n : releases'[q] = IF q = r THEN to ELSE releases[q]
    BY <2>1, ExceptSeq
  <2> QED BY <2>1, <2>2
<1> HIDE DEF n
<1>2. current \in 0..n /\ current' \in 0..n /\ r \in 1..n /\ current' >= current
  <2>1. current \in 0..n /\ r \in 1..n
    BY ConfigStatesTyped DEF n
  <2>2. current' = current \/ (current' = r /\ r = n)
    BY DEF n
  <2> QED BY <1>1, <2>1, <2>2
<1>3. ConfigTyped'
  BY <1>1, <1>2, NoPublicationTyped, ConfigStatesTyped DEF ConfigTyped, n
<1>4. PublicationStands'
  BY NoPublicationTyped DEF PublicationStands
<1>5. RuntimeStands'
  BY NoPublicationTyped DEF ConfigInv, RuntimeStands, RatesRunOnWhatIsServed, InUse
<1>6. CurrentStands'
  BY <1>1, <1>2 DEF ConfigInv, CurrentStands
<1>7. \A q \in 1..n : releases'[q].phase = "finalized" /\ releases'[q].preview = releases[q].preview
  BY <1>1 DEF n
<1>8. \A q \in 1..n : (releases[q].state = "readback_verified" /\ q # r) \/ (q = r /\ q = current) =>
         /\ q <= current
         /\ \A earlier \in 1..(q - 1) : releases[earlier].state = "readback_verified" =>
               configPreviews[releases[q].preview].base >= earlier
  BY <1>2 DEF ConfigInv, ReleasesStand, CurrentStands, n
<1>9. \A e \in 1..n : releases'[e].state = "readback_verified" =>
         releases[e].state = "readback_verified" \/ (e = r /\ r = n)
  BY <1>1, <1>2 DEF n, ConfigInv, CurrentStands
<1>10. ASSUME NEW q \in 1..n, releases'[q].state = "readback_verified"
       PROVE  /\ q <= current'
              /\ \A earlier \in 1..(q - 1) : releases'[earlier].state = "readback_verified" =>
                    configPreviews[releases'[q].preview].base >= earlier
  <2>1. \A e \in 1..(q - 1) : e \in 1..n /\ e # n
    BY <1>1
  <2>2. CASE q # r \/ q = current
    <3>1. \A e \in 1..(q - 1) : releases'[e].state = "readback_verified" =>
             releases[e].state = "readback_verified"
      BY <1>9, <2>1
    <3>2. (releases[q].state = "readback_verified" /\ q # r) \/ (q = r /\ q = current)
      BY <1>1, <1>10, <2>2
    <3>3. q <= current /\ current <= current' /\ q \in Int /\ current \in Int /\ current' \in Int
      BY <1>2, <1>8, <3>2
    <3> QED BY <1>7, <1>8, <3>1, <3>2, <3>3
  <2>3. CASE q = r /\ q # current
    <3>1. current' = r /\ r = n /\ configPreviews[releases[r].preview].base = current
      BY <1>1, <1>10, <2>3 DEF n
    <3>2. \A e \in 1..(q - 1) : releases'[e].state = "readback_verified" => e <= current
      <4>1. \A e \in 1..n : releases[e].state = "readback_verified" => e <= current
        BY DEF ConfigInv, ReleasesStand, n
      <4> QED BY <1>9, <2>1, <4>1
    <3> QED BY <1>2, <1>7, <2>3, <3>1, <3>2
  <2> QED BY <2>2, <2>3
<1>11. ReleasesStand'
  BY <1>1, <1>7, <1>10 DEF ConfigInv, ReleasesStand, n
<1> QED BY <1>3, <1>4, <1>5, <1>6, <1>11 DEF ConfigInv

LEMMA FinalizeKeeps == ASSUME ConfigInv, FinalizeApply, UNCHANGED now PROVE ConfigInv'
<1> DEFINE r == publication.release
<1>1. /\ publication.at = "finalize" /\ publication' = NoPublication
      /\ UNCHANGED <<configPreviews, running, applied, rates>>
  BY DEF FinalizeApply
<1>2. /\ running /\ ~fence /\ r = Len(releases) /\ r \in 1..Len(releases)
      /\ configPreviews[releases[r].preview].base = current
      /\ applied = IF publication.exact THEN r ELSE current
      /\ publication.exact \in BOOLEAN
      /\ \A q \in 1..Len(releases) : q # r => releases[q].phase = "finalized"
  <2>1. \A q \in 1..Len(releases) : releases[q].phase \in {"claimed", "finalized"}
    BY ConfigStatesTyped DEF AnyRelease
  <2> QED BY <1>1, <2>1, ConfigStatesTyped DEF ConfigInv, PublicationStands, RuntimeStands, ReleasesStand
<1>3. CASE fence' = TRUE /\ UNCHANGED <<releases, current>>
  <2>1. ConfigTyped'
    BY <1>1, <1>3, NoPublicationTyped DEF ConfigInv, ConfigTyped
  <2>2. ReleasesStand' /\ CurrentStands' /\ PublicationStands' /\ RuntimeStands'
    BY <1>1, <1>2, <1>3, NoPublicationTyped DEF ConfigInv, ReleasesStand, CurrentStands, PublicationStands,
       RuntimeStands, RatesRunOnWhatIsServed, InUse
  <2> QED BY <2>1, <2>2 DEF ConfigInv
<1>4. CASE Settle(r, publication.exact) /\ UNCHANGED fence
  <2> DEFINE to == [releases[r] EXCEPT !.phase = "finalized",
                        !.state = IF publication.exact THEN "readback_verified" ELSE "unavailable"]
  <2>1. releases[r] \in AnyRelease /\ current # r
    BY <1>1, <1>2, ConfigStatesTyped DEF ConfigInv, PublicationStands, ReleasesStand, CurrentStands
  <2>2. /\ to \in AnyRelease /\ to.preview = releases[r].preview /\ to.phase = "finalized"
        /\ to.state = IF publication.exact THEN "readback_verified" ELSE "unavailable"
    BY <1>2, <2>1 DEF AnyRelease
  <2>3. /\ releases' = [releases EXCEPT ![r] = to] /\ current' = IF publication.exact THEN r ELSE current
        /\ fence' = fence
    BY <1>4 DEF Settle
  <2> HIDE DEF to, r
  <2> QED BY <1>1, <1>2, <2>1, <2>2, <2>3, SettleKeeps
<1> QED BY <1>3, <1>4 DEF FinalizeApply

LEMMA ReconcileKeeps ==
    ASSUME ConfigInv, NEW r \in 1..Len(releases), Reconcile(r), UNCHANGED now PROVE ConfigInv'
<1> DEFINE to == [releases[r] EXCEPT !.state = IF applied = r THEN "readback_verified" ELSE "manual_review"]
<1>1. /\ running /\ ~fence /\ applied = current
      /\ \A q \in 1..Len(releases) : releases[q].phase = "finalized"
      /\ publication' = NoPublication
      /\ releases' = [releases EXCEPT ![r] = to]
      /\ current' = IF applied = r THEN r ELSE current
      /\ UNCHANGED <<configPreviews, running, fence, applied, rates, now>>
  BY ExclusiveIsSettled DEF Reconcile, Exclusive
<1>2. /\ to \in AnyRelease /\ to.preview = releases[r].preview /\ to.phase = "finalized"
      /\ to.state = IF applied = r THEN "readback_verified" ELSE "manual_review"
  BY <1>1, ConfigStatesTyped DEF AnyRelease
<1> HIDE DEF to
<1> QED BY <1>1, <1>2, SettleKeeps

LEMMA CrashKeeps == ASSUME ConfigInv, Crash, UNCHANGED now PROVE ConfigInv'
<1>1. /\ running' = FALSE /\ fence' = FALSE /\ publication' = NoPublication
      /\ UNCHANGED <<current, configPreviews, releases, applied>>
  BY DEF Crash
<1>2. /\ rates' \in [RateRequests -> AnyRate]
      /\ \A q \in RateRequests : rates'[q].at = "idle"
  BY DEF Crash, NoRate, AnyRate
<1>3. ConfigTyped'
  BY <1>1, <1>2, NoPublicationTyped DEF ConfigInv, ConfigTyped
<1> QED BY <1>1, <1>2, <1>3, NoPublicationTyped DEF ConfigInv, ReleasesStand, CurrentStands,
           PublicationStands, RuntimeStands, RatesRunOnWhatIsServed, InUse

\* What was open is given to an operator, and none of it was verified.
LEMMA BootKeeps == ASSUME ConfigInv, Boot, UNCHANGED now PROVE ConfigInv'
<1> DEFINE n == Len(releases)
           to(r) == IF releases[r].phase = "finalized" THEN releases[r]
                    ELSE [releases[r] EXCEPT !.phase = "finalized", !.state = "manual_review"]
<1>1. /\ running' = TRUE /\ ~running /\ applied' = current
      /\ releases' = [r \in 1..n |-> to(r)]
      /\ UNCHANGED <<current, configPreviews, publication, fence, rates>>
  BY ConfigStatesTyped DEF Boot
<1>2. \A r \in 1..n :
         /\ to(r) \in AnyRelease /\ to(r).phase = "finalized" /\ to(r).preview = releases[r].preview
         /\ to(r).state = "readback_verified" => releases[r].state = "readback_verified"
         /\ releases[r].state = "readback_verified" => to(r).state = "readback_verified"
  <2>1. ASSUME NEW r \in 1..n
        PROVE  /\ to(r) \in AnyRelease /\ to(r).phase = "finalized" /\ to(r).preview = releases[r].preview
               /\ to(r).state = "readback_verified" => releases[r].state = "readback_verified"
               /\ releases[r].state = "readback_verified" => to(r).state = "readback_verified"
    <3>1. releases[r] \in AnyRelease
      BY ConfigStatesTyped
    <3>2. releases[r].state = "readback_verified" => releases[r].phase = "finalized"
      BY <3>1 DEF ConfigInv, ReleasesStand, AnyRelease
    <3> QED BY <3>1, <3>2 DEF AnyRelease
  <2> QED BY <2>1
<1> HIDE DEF to
<1>3. /\ releases' \in Seq(AnyRelease) /\ Len(releases') = n
      /\ \A r \in 1..n : releases'[r] = to(r)
  <2>1. releases' \in [1..n -> AnyRelease] /\ n \in Nat
    BY <1>1, <1>2, ConfigStatesTyped
  <2> HIDE DEF n
  <2> QED BY <1>1, <2>1, FunctionIsSeq
<1>4. ConfigTyped'
  BY <1>1, <1>3, ConfigStatesTyped DEF ConfigInv, ConfigTyped
<1>5. publication = NoPublication
  BY <1>1, ConfigStatesTyped DEF ConfigInv, PublicationStands
<1>6. PublicationStands'
  BY <1>1, <1>5, NoPublicationTyped DEF PublicationStands
<1>7. CurrentStands'
  <2>1. current # 0 => current \in 1..n
    BY ConfigStatesTyped
  <2> QED BY <1>1, <1>2, <1>3, <2>1 DEF ConfigInv, CurrentStands
<1>8. ReleasesStand'
  <2>1. \A r \in 1..n : \A e \in 1..(r - 1) : e \in 1..n
    BY ConfigStatesTyped
  <2> HIDE DEF n
  <2>2. \A r \in 1..n : /\ releases'[r].phase = "finalized" /\ releases'[r].preview = releases[r].preview
                        /\ releases'[r].state = "readback_verified" <=> releases[r].state = "readback_verified"
    BY <1>2, <1>3
  <2>3. \A r \in 1..n :
           /\ releases[r].preview \in 1..Len(configPreviews)
           /\ releases[r].state = "readback_verified" =>
                 /\ r <= current
                 /\ \A earlier \in 1..(r - 1) : releases[earlier].state = "readback_verified" =>
                       configPreviews[releases[r].preview].base >= earlier
    BY DEF ConfigInv, ReleasesStand, n
  <2> QED BY <1>1, <1>3, <2>1, <2>2, <2>3 DEF ReleasesStand
<1>9. RuntimeStands'
  BY <1>1, <1>5, NoPublicationTyped DEF ConfigInv, RuntimeStands, RatesRunOnWhatIsServed, InUse
<1> QED BY <1>4, <1>6, <1>7, <1>8, <1>9 DEF ConfigInv

-----------------------------------------------------------------------------
LEMMA ConfigInitInv == ConfigInit /\ now = 0 => ConfigInv
<1> SUFFICES ASSUME ConfigInit, now = 0 PROVE ConfigInv
  OBVIOUS
<1>1. \A q \in RateRequests : rates[q] = NoRate
  BY DEF ConfigInit
<1>2. rates \in [RateRequests -> AnyRate] /\ \A q \in RateRequests : rates[q].at = "idle"
  BY DEF ConfigInit, NoRate, AnyRate
<1>3. Len(releases) = 0 /\ releases \in Seq(AnyRelease) /\ configPreviews \in Seq(AnyPreview)
  BY EmptySeq DEF ConfigInit
<1>4. ConfigTyped
  BY <1>2, <1>3, NoPublicationTyped DEF ConfigInit, ConfigTyped
<1> QED BY <1>2, <1>3, <1>4, NoPublicationTyped DEF ConfigInit, ConfigInv, ReleasesStand, CurrentStands,
           PublicationStands, RuntimeStands, RatesRunOnWhatIsServed, InUse

LEMMA ConfigNextInv == ConfigInv /\ [ConfigNext]_<<configVars, now>> => ConfigInv'
<1> SUFFICES ASSUME ConfigInv, [ConfigNext]_<<configVars, now>> PROVE ConfigInv'
  OBVIOUS
<1>1. CASE UNCHANGED configVars /\ now' \in Nat
  BY <1>1 DEF configVars, ConfigInv, ConfigTyped, ReleasesStand, CurrentStands, PublicationStands,
     RuntimeStands, RatesRunOnWhatIsServed, InUse
<1>2. CASE UNCHANGED <<configVars, now>>
  BY <1>1, <1>2, ConfigStatesTyped
<1>3. CASE ConfigTick
  BY <1>1, <1>3, ConfigStatesTyped DEF ConfigTick
<1>4. DOMAIN releases = 1..Len(releases) /\ DOMAIN configPreviews = 1..Len(configPreviews)
  BY ConfigStatesTyped
<1> QED BY <1>2, <1>3, <1>4, CreatePreviewKeeps, DecideKeeps, PublishKeeps, ReconcileKeeps, RatesKeep,
           ApplyKeeps, FinalizeKeeps, CrashKeeps, BootKeeps DEF ConfigNext

\* Where the store, the publication and the runtime stand, across every failure
\* and crash (plugin-config-service.ts, plugin-config-store.ts, plugin-config-runtime.ts).
THEOREM ConfigInvariant == ConfigSpec => []ConfigInv
BY ConfigInitInv, ConfigNextInv, PTL DEF ConfigSpec

\* When nothing is under way the runtime serves the verified release the store
\* calls current, no attempt is open, and no verified release undoes another that
\* came in between (publish, finalizePublish, reconcile and recovery at the start).
THEOREM RestStaysSettled == ConfigSpec => []RestIsSettled
<1>1. ASSUME ConfigInv PROVE RestIsSettled
  <2>1. ASSUME Exclusive
        PROVE  /\ applied = current
               /\ \A r \in 1..Len(releases) : releases[r].phase = "finalized"
    BY <1>1, <2>1, ExclusiveIsSettled
  <2> QED BY <1>1, <2>1, ConfigStatesTyped DEF RestIsSettled, ConfigInv, CurrentStands, ReleasesStand
<1> QED BY <1>1, ConfigInvariant, PTL

\* A request for a rate runs on the adapter that is served until it ends: an
\* apply waits for it, and new requests wait for the apply (plugin-config-runtime.ts).
THEOREM RatesKeepTheirAdapter == ConfigSpec => []RatesRunOnWhatIsServed
<1>1. ConfigInv => RatesRunOnWhatIsServed
  BY DEF ConfigInv, RuntimeStands
<1> QED BY <1>1, ConfigInvariant, PTL

=============================================================================
