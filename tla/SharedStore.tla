----------------------------- MODULE SharedStore -----------------------------
(***************************************************************************)
(* The portal's state in PostgreSQL, shared by its replicas                *)
(* (access-gateway/portal/postgres-stores.ts and postgres-worker.ts).  A   *)
(* replica's only thread blocks until its worker answers, or gives up on   *)
(* it, has it terminated and goes on with another; what the old worker has *)
(* begun ends in its own time, one way or the other.                       *)
(*                                                                         *)
(* A change reads the whole document, computes in the replica and writes   *)
(* the whole document back, with its idempotency key in the same           *)
(* transaction.  A key comes with the same request whenever it comes and   *)
(* is the change it makes; the document is how often it holds each change. *)
(* Left out: reads outside of a change and the rows of sessions (single    *)
(* statements), changes without a key (they only move a time forward),     *)
(* payloads that are too large, the making of the schema, and close.       *)
(***************************************************************************)
EXTENDS Naturals, FiniteSets

CONSTANTS
    Replicas,
    ChangeKeys,                 \* idempotency keys
    MaxWorkers                  \* bound on the workers of a replica

ASSUME SharedAssumption == MaxWorkers \in Nat \ {0} /\ ChangeKeys # {}

VARIABLES
    sharedDoc,                  \* portal_shared_state: how often a change is in the payload
    sharedKeys,                 \* portal_shared_idempotency
    storeWorkers,               \* the workers of each replica, with their transaction
    replicas,                   \* what the thread of each replica does
    promised                    \* the changes that were answered as made

sharedVars == <<sharedDoc, sharedKeys, storeWorkers, replicas, promised>>

StoreWorkers == Replicas \X (1..MaxWorkers)
AnyKey       == CHOOSE k \in ChangeKeys : TRUE
NoDoc        == [k \in ChangeKeys |-> 0]

\* command is the one that runs, open is its transaction, doc what it read.
IdleWorker  == [life |-> "up", command |-> "none", key |-> AnyKey, doc |-> NoDoc, open |-> FALSE]
IdleReplica == [at |-> "idle", worker |-> 1, failed |-> FALSE]

SharedInit ==
    /\ sharedDoc = NoDoc /\ sharedKeys = {} /\ promised = {}
    /\ storeWorkers = [w \in StoreWorkers |->
                          IF w[2] = 1 THEN IdleWorker ELSE [IdleWorker EXCEPT !.life = "none"]]
    /\ replicas = [r \in Replicas |-> IdleReplica]

-----------------------------------------------------------------------------
(* The worker, as long as it lives: its thread may outlive the wish to end *)
(* it, and PostgreSQL may still get what it sent.                          *)

Runs(w, command) == storeWorkers[w].life \in {"up", "ending"} /\ storeWorkers[w].command = command
Becomes(w, to)   == storeWorkers' = [storeWorkers EXCEPT ![w] = to]
KeepStored       == UNCHANGED <<sharedDoc, sharedKeys>>

\* The answer wakes the replica, if it still waits for this worker.
Listens(w) == replicas[w[1]].worker = w[2] /\ replicas[w[1]].at = "waiting"
Wakes(w, at) == replicas' = [replicas EXCEPT ![w[1]].at = IF Listens(w) THEN at ELSE @]
Promises(w)  == promised' = promised \cup (IF Listens(w) THEN {storeWorkers[w].key} ELSE {})

\* Mutant: the row is read without FOR UPDATE.
RowAnyway == TRUE

\* SELECT ... FOR UPDATE waits for the transaction that has the row.
RowIsFree == \A w \in StoreWorkers : ~storeWorkers[w].open

\* begin: a key that is known ends the transaction with its old result.
WorkerBegins(w) ==
    /\ Runs(w, "begin") /\ RowIsFree
    /\ \/ /\ storeWorkers[w].key \in sharedKeys
          /\ Becomes(w, [IdleWorker EXCEPT !.life = storeWorkers[w].life])
          /\ Wakes(w, "idle") /\ Promises(w)
       \/ /\ storeWorkers[w].key \notin sharedKeys
          /\ Becomes(w, [storeWorkers[w] EXCEPT !.command = "none", !.open = TRUE, !.doc = sharedDoc])
          /\ Wakes(w, "changing") /\ UNCHANGED promised
    /\ KeepStored

\* A read within the change goes through its transaction.
WorkerReads(w) ==
    /\ Runs(w, "read") /\ Becomes(w, [storeWorkers[w] EXCEPT !.command = "none"])
    /\ Wakes(w, "changing") /\ KeepStored /\ UNCHANGED promised

\* commit: PostgreSQL commits, and the worker hears of it or loses its connection.
WorkerCommits(w) ==
    /\ Runs(w, "commit") /\ storeWorkers[w].key \notin sharedKeys
    /\ sharedDoc' = storeWorkers[w].doc
    /\ sharedKeys' = sharedKeys \cup {storeWorkers[w].key}
    /\ Becomes(w, [IdleWorker EXCEPT !.life = storeWorkers[w].life])
    /\ \/ Wakes(w, "idle") /\ Promises(w)
       \/ Wakes(w, "undoing") /\ UNCHANGED promised

\* rollback, and whatever fails: the worker rolls back and says so.
WorkerRollsBack(w) ==
    /\ \E command \in {"begin", "read", "commit", "rollback"} : Runs(w, command)
    /\ Becomes(w, [IdleWorker EXCEPT !.life = storeWorkers[w].life])
    /\ Wakes(w, IF storeWorkers[w].command = "rollback" THEN "idle" ELSE "undoing")
    /\ KeepStored /\ UNCHANGED promised

\* The thread is gone, and with its connections what it had not committed.
WorkerEnds(w) ==
    /\ storeWorkers[w].life = "ending"
    /\ Becomes(w, [IdleWorker EXCEPT !.life = "gone"])
    /\ KeepStored /\ UNCHANGED <<replicas, promised>>

-----------------------------------------------------------------------------
(* The replica.                                                            *)

\* call: the command goes to the worker, and the thread waits.
Sends(r, command, worker) ==
    /\ replicas' = [replicas EXCEPT ![r].at = "waiting"]
    /\ Becomes(<<r, replicas[r].worker>>, [worker EXCEPT !.command = command])
    /\ KeepStored /\ UNCHANGED promised

Worker(r) == storeWorkers[<<r, replicas[r].worker>>]

\* mutate.
BeginChange(r, k) ==
    /\ replicas[r].at = "idle" /\ ~replicas[r].failed
    /\ Sends(r, "begin", [Worker(r) EXCEPT !.key = k])

\* The callback reads something else of the store.
ReadWithin(r) == replicas[r].at = "changing" /\ Sends(r, "read", Worker(r))

\* The callback returns, and what it made of the document is committed.
CommitChange(r) ==
    /\ replicas[r].at = "changing"
    /\ Sends(r, "commit", [Worker(r) EXCEPT !.doc[Worker(r).key] = @ + 1])

\* The callback throws, or a command has failed.
UndoChange(r) ==
    /\ replicas[r].at \in {"changing", "undoing"}
    /\ Sends(r, "rollback", Worker(r))

\* Atomics.wait times out: the worker is terminated, and the rollback finds the
\* connection failed; or the process dies, or the worker with an error.
GivesUp(r) ==
    /\ ~replicas[r].failed
    /\ replicas' = [replicas EXCEPT ![r].at = "idle", ![r].failed = TRUE]
    /\ Becomes(<<r, replicas[r].worker>>, [Worker(r) EXCEPT !.life = "ending"])
    /\ KeepStored /\ UNCHANGED promised

\* A second later another worker is started.
StartsWorker(r) ==
    /\ replicas[r].failed /\ replicas[r].worker < MaxWorkers
    /\ replicas' = [replicas EXCEPT ![r].failed = FALSE, ![r].worker = @ + 1]
    /\ Becomes(<<r, replicas[r].worker + 1>>, IdleWorker)
    /\ KeepStored /\ UNCHANGED promised

SharedNext ==
    \/ \E w \in StoreWorkers : WorkerBegins(w) \/ WorkerReads(w) \/ WorkerCommits(w)
                                  \/ WorkerRollsBack(w) \/ WorkerEnds(w)
    \/ \E r \in Replicas :
          \/ \E k \in ChangeKeys : BeginChange(r, k)
          \/ ReadWithin(r) \/ CommitChange(r) \/ UndoChange(r) \/ GivesUp(r) \/ StartsWorker(r)

SharedSpec == SharedInit /\ [][SharedNext]_sharedVars

-----------------------------------------------------------------------------
SharedTypeOK ==
    /\ sharedDoc \in [ChangeKeys -> Nat]
    /\ sharedKeys \subseteq ChangeKeys /\ promised \subseteq ChangeKeys
    /\ storeWorkers \in [StoreWorkers ->
          [life : {"none", "up", "ending", "gone"},
           command : {"none", "begin", "read", "commit", "rollback"},
           key : ChangeKeys, doc : [ChangeKeys -> Nat], open : BOOLEAN]]
    /\ replicas \in [Replicas -> [at : {"idle", "waiting", "changing", "undoing"},
                                  worker : 1..MaxWorkers, failed : BOOLEAN]]

\* Whatever is given up, repeated by another replica or finished late by a worker
\* nobody waits for: a change is in the shared state exactly once if its key is
\* known and not at all if it is not, and a change that was answered as made is in it.
EachChangeOnce ==
    /\ \A k \in ChangeKeys : sharedDoc[k] = (IF k \in sharedKeys THEN 1 ELSE 0)
    /\ promised \subseteq sharedKeys
==============================================================================
