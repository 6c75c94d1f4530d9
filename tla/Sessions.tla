-------------------------------- MODULE Sessions --------------------------------
(***************************************************************************)
(* The sessions of the MCP server: the registry of the process             *)
(* (platform/session-runtime.ts), the rows of session_bindings             *)
(* (platform/sqlite-production-store.ts) and the HTTP handler that keeps   *)
(* the two together (createMcpHttpHandler in server/http.ts).              *)
(*                                                                         *)
(* Requests run beside one another in one thread.  A step is what a        *)
(* request does from one await to the next; a session's runtime takes its  *)
(* time to close, and whoever waits for it lets the others run.  What is   *)
(* abstracted:                                                             *)
(*   - an identity is the fingerprint of its context, a token the time it  *)
(*     ends;                                                               *)
(*   - the checks of origin, host, body and token, which come before the   *)
(*     first step, and the audit rows of refusals;                         *)
(*   - what the transport does with a message: it answers, or it fails.    *)
(***************************************************************************)
EXTENDS ServerClock

CONSTANTS
    Identities,                 \* fingerprints of contexts
    TokenEnds,                  \* when tokens end
    Openers,                    \* requests that initialize a session, named after them
    Users,                      \* requests that name a session
    MaxSessions, IdleTtl, MaxLifetime, MaxTokenLifetime

ASSUME SessionAssumption ==
    /\ MaxSessions \in Nat \ {0} /\ IdleTtl \in Nat \ {0}
    /\ MaxLifetime \in Nat \ {0} /\ MaxTokenLifetime \in Nat \ {0}
    /\ TokenEnds \subseteq Nat /\ MaxTime \in Nat
    /\ IsFiniteSet(Openers) /\ Openers \cap Users = {}
    /\ None \notin Openers \cup Identities

Requests   == Openers \cup Users
SessionIds == Openers

VARIABLES
    entries,                    \* the registry's map
    closed,                     \* the registry's flag
    runtimes,                   \* the server and transport of each session
    bindings,                   \* the rows of session_bindings
    created,                    \* createdSessionIds of the handler
    requests,                   \* what each request is doing
    waiters                     \* registrations that waited when the handler closed

sessionVars == <<entries, closed, runtimes, bindings, created, requests, waiters>>

Kind == {"open", "use", "end"}
Place == {"idle", "enter", "purge", "register", "connect", "handle", "undo", "unbind",
          "lookup", "get", "touch", "forget", "drop", "served", "refused"}
Request == [at : Place, kind : Kind, session : SessionIds \cup {None}, who : Identities \cup {None},
            ends : Nat, aborted : BOOLEAN, next : Place,
            victims : SUBSET SessionIds, victim : SessionIds \cup {None}, failed : BOOLEAN]
Entry == [who : Identities, made : Times, touched : Times, ends : Nat]

ASSUME EntryAssumption == None \notin Entry

Finished == {"served", "refused"}
Shut     == {"closed", "failed"}

Idle == [at |-> "idle", kind |-> "use", session |-> None, who |-> None, ends |-> 0,
         aborted |-> FALSE, next |-> "idle", victims |-> {}, victim |-> None, failed |-> FALSE]

SessionInit ==
    /\ entries = [s \in SessionIds |-> None]
    /\ closed = FALSE
    /\ runtimes = [s \in SessionIds |-> "none"]
    /\ bindings = [s \in SessionIds |-> None]
    /\ created = {}
    /\ requests = [r \in Requests |-> Idle]
    /\ waiters = {}

-----------------------------------------------------------------------------
(* The registry.                                                           *)

Open     == {s \in SessionIds : entries[s] # None}
Expired(entry) ==
    \/ now >= entry.ends
    \/ now - entry.made >= MaxLifetime
    \/ now - entry.touched >= IdleTtl

Where(r, place) == requests[r].at = place
Session(r)      == requests[r].session
GoTo(r, place)  == requests' = [requests EXCEPT ![r].at = place]
\* The request is answered; what it knew is gone.
End(r, place)   == requests' = [requests EXCEPT ![r] =
                      [Idle EXCEPT !.at = place, !.kind = requests[r].kind, !.session = Session(r)]]
Refused(r)      == End(r, "refused")

\* Mutant: the session stays in the map while its runtime closes.
RemoveLate(s) ==
    /\ runtimes' = [runtimes EXCEPT ![s] = IF entries[s] = None THEN @ ELSE "closing"]
    /\ UNCHANGED entries

\* removeAndClose up to its wait.
Remove(s) ==
    IF entries[s] = None THEN UNCHANGED <<entries, runtimes>>
    ELSE /\ entries' = [entries EXCEPT ![s] = None]
         /\ runtimes' = [runtimes EXCEPT ![s] = "closing"]

\* Not registered: the request closes its server and transport itself.
Abandon(r) ==
    /\ runtimes' = [runtimes EXCEPT ![Session(r)] = "closing"]
    /\ GoTo(r, "unbind")
    /\ UNCHANGED entries

\* purge, from a wait to the next: the sessions found expired at its start
\* are removed one after another, each closed before the next; when one did
\* not close it throws in the end, whoever asked for it.
Purge(r, victims, request) ==
    IF victims # {}
    THEN \E v \in victims :
            /\ requests' = [requests EXCEPT ![r] =
                   [request EXCEPT !.at = "purge", !.victims = victims \ {v},
                                   !.victim = IF entries[v] = None THEN None ELSE v]]
            /\ Remove(v)
    ELSE IF ~request.failed
    THEN /\ requests' = [requests EXCEPT ![r] =
                [request EXCEPT !.at = request.next, !.next = "idle", !.victim = None]]
         /\ UNCHANGED <<entries, runtimes>>
    ELSE IF r \in Openers THEN Abandon(r)
    ELSE Refused(r) /\ UNCHANGED <<entries, runtimes>>

StartPurge(r, request) == Purge(r, {s \in Open : Expired(entries[s])}, request)

PurgeNext(r) ==
    LET victim == requests[r].victim
        broke  == victim # None /\ runtimes[victim] = "failed"
    IN  /\ Where(r, "purge")
        /\ victim # None => runtimes[victim] \in Shut
        /\ Purge(r, requests[r].victims, [requests[r] EXCEPT !.failed = @ \/ broke])
        /\ UNCHANGED <<closed, bindings, created, waiters, now>>

\* closeRuntime ends, or throws.
RuntimeCloses(s) ==
    /\ runtimes[s] = "closing"
    /\ \E outcome \in Shut : runtimes' = [runtimes EXCEPT ![s] = outcome]
    /\ UNCHANGED <<entries, closed, bindings, created, requests, waiters, now>>

-----------------------------------------------------------------------------
(* A new session: createSession.                                           *)


\* A request with a valid token arrives: a first one has its transport and
\* server made, another one names a session that was made.
Receive(r, kind, s, who, ends) ==
    /\ Where(r, "idle") /\ ends > now
    /\ IF r \in Openers
       THEN /\ kind = "open" /\ s = r
            /\ runtimes' = [runtimes EXCEPT ![s] = "open"]
       ELSE /\ kind # "open" /\ runtimes[s] # "none"
            /\ UNCHANGED runtimes
    /\ requests' = [requests EXCEPT ![r].at = IF kind = "open" THEN "enter" ELSE "lookup",
                                    ![r].kind = kind, ![r].session = s, ![r].who = who,
                                    ![r].ends = ends]
    /\ UNCHANGED <<entries, closed, bindings, created, waiters, now>>

\* register up to its wait.
Enter(r) ==
    /\ Where(r, "enter")
    /\ IF closed THEN Abandon(r)
                 ELSE StartPurge(r, [requests[r] EXCEPT !.next = "register"])
    /\ UNCHANGED <<closed, bindings, created, waiters, now>>

\* The rest of register, which looks at the clock and the map again, not at
\* the flag.
NewEntry(r) == [who |-> requests[r].who, made |-> now, touched |-> now,
                ends |-> Earlier(requests[r].ends, now + MaxTokenLifetime)]

Register(r) ==
    /\ Where(r, "register")
    /\ IF Cardinality(Open) >= MaxSessions \/ requests[r].ends <= now
       THEN Abandon(r)
       ELSE LET entry == NewEntry(r) IN
            /\ UNCHANGED runtimes
            /\ entries' = [entries EXCEPT ![Session(r)] = entry]
            /\ requests' = [requests EXCEPT ![r].at = "connect",
                                            ![r].ends = Earlier(entry.ends, now + MaxLifetime)]
    /\ UNCHANGED <<closed, bindings, created, waiters, now>>

\* server.connect and the row of the session, which the store may refuse; a
\* request that was given up goes no further.
Connect(r) ==
    /\ Where(r, "connect")
    /\ \/ /\ ~requests[r].aborted
          /\ bindings' = [bindings EXCEPT ![Session(r)] = requests[r].ends]
          /\ created' = created \cup {Session(r)}
          /\ GoTo(r, "handle")
       \/ GoTo(r, "undo") /\ UNCHANGED <<bindings, created>>
    /\ UNCHANGED <<entries, closed, runtimes, waiters, now>>

\* A registered session is given up: sessions.delete, which does nothing once
\* the registry is closed, ...
Undo(r) ==
    /\ Where(r, "undo")
    /\ IF closed THEN UNCHANGED <<entries, runtimes>> ELSE Remove(Session(r))
    /\ GoTo(r, "unbind")
    /\ UNCHANGED <<closed, bindings, created, waiters, now>>

\* ... and then its row, whose deletion may fail unnoticed.
Unbind(r) ==
    /\ Where(r, "unbind")
    /\ runtimes[Session(r)] # "closing"
    /\ \E kept \in {bindings[Session(r)], None} :
          bindings' = [bindings EXCEPT ![Session(r)] = kept]
    /\ created' = created \ {Session(r)}
    /\ Refused(r)
    /\ UNCHANGED <<entries, closed, runtimes, waiters, now>>

-----------------------------------------------------------------------------
(* A request that names a session: the row, the entry, the touch.          *)

\* The row is read, or deleted when its time is over; a session without one
\* is closed.
Lookup(r) ==
    LET s == Session(r)
        row == IF bindings[s] # None /\ bindings[s] <= now THEN None ELSE bindings[s]
    IN  /\ Where(r, "lookup")
        /\ bindings' = [bindings EXCEPT ![s] = row]
        /\ \/ /\ requests[r].aborted
              /\ Refused(r) /\ UNCHANGED <<entries, runtimes>>
           \/ /\ ~requests[r].aborted /\ row = None
              /\ IF closed THEN UNCHANGED <<entries, runtimes>> ELSE Remove(s)
              /\ GoTo(r, "drop")
           \/ /\ ~requests[r].aborted /\ row # None
              /\ IF closed THEN GoTo(r, "forget") /\ UNCHANGED <<entries, runtimes>>
                           ELSE StartPurge(r, [requests[r] EXCEPT !.next = "get"])
        /\ UNCHANGED <<closed, created, waiters, now>>

\* The session is closed before its request is told.
Drop(r) ==
    /\ Where(r, "drop")
    /\ runtimes[Session(r)] # "closing"
    /\ Refused(r)
    /\ UNCHANGED <<entries, closed, runtimes, bindings, created, waiters, now>>

\* get after its purge, and touch up to its own.
Get(r) ==
    LET entry == entries[Session(r)] IN
    /\ Where(r, "get")
    /\ \/ /\ entry = None
          /\ IF requests[r].aborted THEN Refused(r) ELSE GoTo(r, "forget")
          /\ UNCHANGED <<entries, runtimes>>
       \/ /\ entry # None /\ (requests[r].aborted \/ closed \/ entry.who # requests[r].who)
          /\ Refused(r) /\ UNCHANGED <<entries, runtimes>>
       \/ /\ entry # None /\ ~requests[r].aborted /\ ~closed /\ entry.who = requests[r].who
          /\ StartPurge(r, [requests[r] EXCEPT !.next = "touch"])
    /\ UNCHANGED <<closed, bindings, created, waiters, now>>

\* The registry has no such session: its row goes.
Forget(r) ==
    /\ Where(r, "forget")
    /\ bindings' = [bindings EXCEPT ![Session(r)] = None]
    /\ Refused(r)
    /\ UNCHANGED <<entries, closed, runtimes, created, waiters, now>>

\* touch after its purge: the entry is read, refreshed and written at once.
Touched(r) == [entries[Session(r)] EXCEPT !.touched = now,
                                          !.ends = Earlier(@, requests[r].ends)]

Touch(r) ==
    LET s == Session(r) IN
    /\ Where(r, "touch")
    /\ \/ /\ entries[s] = None
          /\ Refused(r) /\ UNCHANGED <<entries, runtimes>>
       \/ /\ entries[s] # None /\ Expired(Touched(r))
          /\ Remove(s) /\ GoTo(r, "drop")
       \/ /\ entries[s] # None /\ ~Expired(Touched(r))
          /\ entries' = [entries EXCEPT ![s] = Touched(r)]
          /\ GoTo(r, "handle") /\ UNCHANGED runtimes
    /\ UNCHANGED <<closed, bindings, created, waiters, now>>

-----------------------------------------------------------------------------
(* The message itself, and the end of the handler.                         *)

\* The transport's answer, or its failure: a request that may not go on takes
\* its new session back.
Answer(r) ==
    /\ Where(r, "handle") /\ requests[r].kind # "end"
    /\ \/ ~requests[r].aborted /\ End(r, "served")
       \/ r \in Openers /\ GoTo(r, "undo")
       \/ r \in Users /\ Refused(r)
    /\ UNCHANGED <<entries, closed, runtimes, bindings, created, waiters, now>>

\* DELETE: the transport calls onsessionclosed.
EndSession(r) ==
    /\ Where(r, "handle") /\ requests[r].kind = "end"
    /\ \/ /\ created' = created \ {Session(r)}
          /\ bindings' = [bindings EXCEPT ![Session(r)] = None]
          /\ IF closed THEN UNCHANGED <<entries, runtimes>> ELSE Remove(Session(r))
          /\ End(r, "served")
       \/ /\ requests[r].aborted
          /\ Refused(r) /\ UNCHANGED <<entries, runtimes, bindings, created>>
    /\ UNCHANGED <<closed, waiters, now>>

\* withTimeout gives the client its 504 and raises the signal.
GiveUp(r) ==
    /\ requests[r].at \notin Finished \cup {"idle"} /\ ~requests[r].aborted
    /\ requests' = [requests EXCEPT ![r].aborted = TRUE]
    /\ UNCHANGED <<entries, closed, runtimes, bindings, created, waiters, now>>

\* handler.close: the registry is emptied and the rows of this process go.
Close ==
    /\ ~closed
    /\ closed' = TRUE
    /\ entries' = [s \in SessionIds |-> None]
    /\ runtimes' = [s \in SessionIds |-> IF s \in Open THEN "closing" ELSE runtimes[s]]
    /\ bindings' = [s \in SessionIds |-> IF s \in created THEN None ELSE bindings[s]]
    /\ created' = {}
    /\ waiters' = {r \in Openers : requests[r].at \in {"purge", "register"}}
    /\ UNCHANGED <<requests, now>>

SessionTick ==
    /\ now < MaxTime
    /\ now' = now + 1
    /\ UNCHANGED sessionVars

RequestStep(r) ==
    \/ PurgeNext(r) \/ Enter(r) \/ Register(r) \/ Connect(r) \/ Undo(r) \/ Unbind(r)
    \/ Lookup(r) \/ Drop(r) \/ Get(r) \/ Forget(r) \/ Touch(r) \/ Answer(r) \/ EndSession(r)

SessionNext ==
    \/ \E r \in Requests :
          \/ \E kind \in Kind, s \in SessionIds, who \in Identities, ends \in TokenEnds :
                Receive(r, kind, s, who, ends)
          \/ RequestStep(r)
          \/ GiveUp(r)
    \/ \E s \in SessionIds : RuntimeCloses(s)
    \/ Close
    \/ SessionTick

SessionSpec == SessionInit /\ now = 0 /\ [][SessionNext]_<<sessionVars, now>>

-----------------------------------------------------------------------------
SessionTypeOK ==
    /\ entries \in [SessionIds -> Entry \cup {None}]
    /\ closed \in BOOLEAN
    /\ runtimes \in [SessionIds -> {"none", "open", "closing"} \cup Shut]
    /\ bindings \in [SessionIds -> Nat \cup {None}]
    /\ created \subseteq SessionIds
    /\ requests \in [Requests -> Request]
    /\ waiters \subseteq Openers
    /\ now \in Times

\* The registry never holds more sessions than its capacity, however many
\* registrations wait at once for expired sessions to close (register).
\* A session in the registry is one whose runtime is open: no request, and in
\* particular no touch that waited, puts back a session another one removed.  An
\* open runtime that is in no registry has a request that still looks after it.
\* And a session whose creation failed, at any of its waits, by a timeout or by
\* the store, leaves nothing behind, neither here nor in the list of its owner;
\* the one exception is a registration that waited while the handler closed
\* (removeAndClose, touch, the catch of createSession).
RegistryIsExact ==
    /\ Cardinality(Open) <= MaxSessions
    /\ \A s \in SessionIds :
        /\ entries[s] # None => runtimes[s] = "open"
        /\ runtimes[s] = "open" /\ entries[s] = None =>
              requests[s].at \in {"enter", "purge", "register"}
    /\ \A r \in Openers : requests[r].at = "refused" =>
        /\ r \notin created
        /\ r \in waiters \/ (entries[r] = None /\ runtimes[r] \in Shut)
==============================================================================
