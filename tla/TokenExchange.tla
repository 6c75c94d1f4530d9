---------------------------- MODULE TokenExchange ----------------------------
(***************************************************************************)
(* The exchange of a machine's key for a short token                       *)
(* (services/access-gateway/service.ts, exchangeToken, called by the       *)
(* portal's access bridge) and the limit of exchanges a minute             *)
(* (reserve in postgres-store.ts and production-store.ts).                 *)
(*                                                                         *)
(* An exchange reads the clock once, then talks to the store, the signer   *)
(* and the portal in turn; every wait is a step, and between two steps     *)
(* other exchanges run and administrators change the credential.  What is  *)
(* abstracted:                                                             *)
(*   - a credential with its tenant and client is its standing, which the  *)
(*     operations of module TenantAccess change;                           *)
(*   - a minute is one tick, and a window is the minute an exchange        *)
(*     started in;                                                         *)
(*   - the buckets of an exchange (its tenant, client, credential and      *)
(*     address) are numbers in the order of their hashes, and follow from  *)
(*     the credential;                                                     *)
(*   - requests that do not parse, tools, claims and keys of the signer.   *)
(***************************************************************************)
EXTENDS Integers, Sequences, FiniteSets

CONSTANTS
    Exchanges,                  \* requests, each made once
    Credentials,
    BucketsOf,                  \* the buckets each credential counts in
    Store,                      \* "postgres" or "sqlite"
    Limit,                      \* exchanges in a bucket and a minute
    Expiry,                     \* the minute in which the credentials expire
    MaxTime,                    \* bound on the clock
    None

Buckets == UNION {BucketsOf[x] : x \in Credentials}

ASSUME ExchangeAssumption ==
    /\ BucketsOf \in [Credentials -> SUBSET (Nat \ {0})]
    /\ \A x \in Credentials : IsFiniteSet(BucketsOf[x]) /\ BucketsOf[x] # {}
    /\ Store \in {"postgres", "sqlite"}
    /\ Limit \in Nat \ {0} /\ Expiry \in Nat /\ MaxTime \in Nat
    /\ IsFiniteSet(Exchanges)
    /\ None \notin Exchanges \cup Credentials

VARIABLES
    standing,                   \* of each credential
    granted,                    \* whether the portal lets it have the tools
    now,                        \* the clock
    counts,                     \* the rows of gateway_rate_windows
    locks,                      \* who holds each lock of a reservation
    calls,                      \* what each exchange is doing
    audit,                      \* the rows of gateway_audit of each exchange
    late                        \* exchanges that lost their right in time and have not got it back

vars == <<standing, granted, now, counts, locks, calls, audit, late>>

Standing == {"pending", "active", "suspended", "revoked"}
Step     == {"idle", "find", "check", "lock", "count", "store", "sign", "mark", "audit",
             "answer", "fail", "done"}
Call     == [at : Step, credential : Credentials \cup {None}, started : 0..MaxTime,
             seen : Standing, room : BOOLEAN, reserved : BOOLEAN, token : BOOLEAN]

\* PostgreSQL keeps a row for each bucket and minute, SQLite one for each bucket.
Row  == [window : 0..MaxTime, count : Nat]
Slot == IF Store = "postgres" THEN Buckets \X (0..MaxTime) ELSE Buckets

\* The advisory lock of each bucket, or the one of BEGIN IMMEDIATE.
FileLock == 0
Locks    == IF Store = "postgres" THEN Buckets ELSE {FileLock}

Init ==
    /\ standing = [x \in Credentials |-> "pending"]
    /\ granted = [x \in Credentials |-> TRUE]
    /\ now = 0
    /\ counts = [s \in Slot |-> [window |-> 0, count |-> 0]]
    /\ locks = [l \in Locks |-> None]
    /\ calls = [e \in Exchanges |->
                  [at |-> "idle", credential |-> None, started |-> 0, seen |-> "pending",
                   room |-> FALSE, reserved |-> FALSE, token |-> FALSE]]
    /\ audit = [e \in Exchanges |-> <<>>]
    /\ late = [e \in Exchanges |-> FALSE]

-----------------------------------------------------------------------------
(* Administrators and the clock.                                           *)

Unchanged == UNCHANGED <<now, counts, locks, calls, audit>>

\* The exchanges of x that have not come past the last check of their right.
Losing(x, steps) ==
    late' = [e \in Exchanges |-> late[e] \/ (calls[e].credential = x /\ calls[e].at \in steps)]

\* Those of x have their right again, but for the ones that still lack another.
Regaining(x, lacking) ==
    late' = [e \in Exchanges |-> late[e] /\ (calls[e].credential = x => e \in lacking)]

UntilMarked == {"find", "check", "lock", "count", "store", "sign", "mark"}
UntilSigned == UntilMarked \ {"mark"}

Acknowledge(x) ==
    /\ standing[x] = "pending"
    /\ standing' = [standing EXCEPT ![x] = "active"]
    /\ Unchanged /\ UNCHANGED <<granted, late>>

\* The tenant is suspended or the client disabled, and back.
Suspend(x) ==
    /\ standing[x] = "active"
    /\ standing' = [standing EXCEPT ![x] = "suspended"]
    /\ Losing(x, UntilMarked)
    /\ Unchanged /\ UNCHANGED granted

Resume(x) ==
    /\ standing[x] = "suspended"
    /\ standing' = [standing EXCEPT ![x] = "active"]
    /\ Regaining(x, {e \in Exchanges : ~granted[x] /\ calls[e].at \in UntilSigned})
    /\ Unchanged /\ UNCHANGED granted

\* Revoked, or rotated away.
Revoke(x) ==
    /\ standing[x] # "revoked"
    /\ standing' = [standing EXCEPT ![x] = "revoked"]
    /\ Losing(x, UntilMarked)
    /\ Unchanged /\ UNCHANGED granted

\* The portal takes a tool from the application, or gives it back.
Withdraw(x) ==
    /\ granted[x]
    /\ granted' = [granted EXCEPT ![x] = FALSE]
    /\ Losing(x, UntilSigned)
    /\ Unchanged /\ UNCHANGED standing

Restore(x) ==
    /\ ~granted[x]
    /\ granted' = [granted EXCEPT ![x] = TRUE]
    /\ Regaining(x, {e \in Exchanges : standing[x] \in {"suspended", "revoked"}})
    /\ Unchanged /\ UNCHANGED standing

Tick ==
    /\ now < MaxTime
    /\ now' = now + 1
    /\ UNCHANGED <<standing, granted, counts, locks, calls, audit, late>>

-----------------------------------------------------------------------------
(* An exchange.                                                            *)

At(e, step)  == calls[e].at = step
Key(e)       == calls[e].credential
GoTo(e, step) == calls' = [calls EXCEPT ![e].at = step]
Released(e)  == [l \in Locks |-> IF locks[l] = e THEN None ELSE locks[l]]
Authority    == <<standing, granted, now, late>>

Receive(e, x) ==
    /\ At(e, "idle")
    /\ calls' = [calls EXCEPT ![e].at = "find", ![e].credential = x, ![e].started = now]
    /\ UNCHANGED <<standing, granted, now, counts, locks, audit, late>>

\* findForExchange and the hash of the secret.
Find(e) ==
    /\ At(e, "find")
    /\ calls' = [calls EXCEPT ![e].at = "check", ![e].seen = standing[Key(e)]]
    /\ UNCHANGED <<Authority, counts, locks, audit>>

\* isRevoked reads again; the delivery and the expiry are those found before.
Check(e) ==
    /\ At(e, "check")
    /\ IF /\ standing[Key(e)] \notin {"suspended", "revoked"}
          /\ calls[e].seen = "active"
          /\ Expiry > calls[e].started
          /\ granted[Key(e)]
       THEN GoTo(e, "lock") ELSE GoTo(e, "fail")
    /\ UNCHANGED <<Authority, counts, locks, audit>>

LocksOf(e) == IF Store = "postgres" THEN BucketsOf[Key(e)] ELSE {FileLock}
Missing(e) == {l \in LocksOf(e) : locks[l] # e}

\* Mutant: the locks are taken in the order of the fields, whatever the hash.
LockInAnyOrder(e) ==
    /\ At(e, "lock")
    /\ \E l \in Missing(e) :
         /\ locks[l] = None
         /\ locks' = [locks EXCEPT ![l] = e]
         /\ GoTo(e, IF Missing(e) = {l} THEN "count" ELSE "lock")
    /\ UNCHANGED <<Authority, counts, audit>>

\* The lock of the next bucket, in the order of the hashes.
Lock(e) ==
    /\ At(e, "lock")
    /\ \E l \in Missing(e) :
         /\ \A m \in Missing(e) : l <= m
         /\ locks[l] = None
         /\ locks' = [locks EXCEPT ![l] = e]
         /\ GoTo(e, IF Missing(e) = {l} THEN "count" ELSE "lock")
    /\ UNCHANGED <<Authority, counts, audit>>

SlotOf(e, b) == IF Store = "postgres" THEN <<b, calls[e].started>> ELSE b

\* A row of another minute counts for nothing.
Used(e, b) ==
    LET row == counts[SlotOf(e, b)] IN
    IF row.window = calls[e].started THEN row.count ELSE 0

\* Mutant: the locks are given up before the counts are written.
CountAndUnlock(e) ==
    /\ At(e, "count")
    /\ calls' = [calls EXCEPT ![e].at = "store",
                              ![e].room = \A b \in BucketsOf[Key(e)] : Used(e, b) < Limit]
    /\ locks' = Released(e)
    /\ UNCHANGED <<Authority, counts, audit>>

Count(e) ==
    /\ At(e, "count")
    /\ calls' = [calls EXCEPT ![e].at = "store",
                              ![e].room = \A b \in BucketsOf[Key(e)] : Used(e, b) < Limit]
    /\ UNCHANGED <<Authority, counts, locks, audit>>

\* The counts of all buckets, and the end of the transaction.
Reserve(e) ==
    /\ At(e, "store")
    /\ IF calls[e].room
       THEN /\ counts' = [s \in Slot |->
                 IF \E b \in BucketsOf[Key(e)] : s = SlotOf(e, b)
                 THEN [window |-> calls[e].started,
                       count |-> 1 + (IF counts[s].window = calls[e].started
                                      THEN counts[s].count ELSE 0)]
                 ELSE counts[s]]
            /\ calls' = [calls EXCEPT ![e].at = "sign", ![e].reserved = TRUE]
       ELSE GoTo(e, "fail") /\ UNCHANGED counts
    /\ locks' = Released(e)
    /\ UNCHANGED <<Authority, audit>>

\* Mutant: the grant is not asked for again after the signature.
SignOnly(e) ==
    /\ At(e, "sign")
    /\ GoTo(e, "mark")
    /\ UNCHANGED <<Authority, counts, locks, audit>>

\* The signature is there; the portal is asked once more.
Sign(e) ==
    /\ At(e, "sign")
    /\ GoTo(e, IF granted[Key(e)] THEN "mark" ELSE "fail")
    /\ UNCHANGED <<Authority, counts, locks, audit>>

\* markUsed: one statement that looks at the credential, tenant and client.
Mark(e) ==
    /\ At(e, "mark")
    /\ GoTo(e, IF standing[Key(e)] = "active" /\ Expiry > calls[e].started
               THEN "audit" ELSE "fail")
    /\ UNCHANGED <<Authority, counts, locks, audit>>

\* An append that fails may have written its row all the same.
Append1(e, row) == audit' = [audit EXCEPT ![e] = Append(@, row)]

Audit(e) ==
    /\ At(e, "audit")
    /\ \/ Append1(e, "success") /\ GoTo(e, "answer")
       \/ Append1(e, "success") /\ GoTo(e, "fail")
       \/ UNCHANGED audit /\ GoTo(e, "fail")
    /\ UNCHANGED <<Authority, counts, locks>>

Answer(e) ==
    /\ At(e, "answer")
    /\ calls' = [calls EXCEPT ![e].at = "done", ![e].token = TRUE]
    /\ UNCHANGED <<Authority, counts, locks, audit>>

\* The row of a failure, if it can be written, and the error.
Refuse(e) ==
    /\ At(e, "fail")
    /\ Append1(e, "failure") \/ UNCHANGED audit
    /\ GoTo(e, "done")
    /\ UNCHANGED <<Authority, counts, locks>>

\* A wrong secret, or a store or signer that fails or is out of time.
Break(e) ==
    /\ calls[e].at \in UntilMarked
    /\ GoTo(e, "fail")
    /\ locks' = Released(e)
    /\ UNCHANGED <<Authority, counts, audit>>

\* The process stops; the store gives its locks up.
Die(e) ==
    /\ calls[e].at \notin {"idle", "done"}
    /\ GoTo(e, "done")
    /\ locks' = Released(e)
    /\ UNCHANGED <<Authority, counts, audit>>

Proceed(e) ==
    \/ Find(e) \/ Check(e) \/ Lock(e) \/ Count(e) \/ Reserve(e) \/ Sign(e) \/ Mark(e)
    \/ Audit(e) \/ Answer(e) \/ Refuse(e)

Next ==
    \/ \E x \in Credentials :
         \/ Acknowledge(x) \/ Suspend(x) \/ Resume(x) \/ Revoke(x)
         \/ Withdraw(x) \/ Restore(x)
    \/ Tick
    \/ \E e \in Exchanges :
         \/ \E x \in Credentials : Receive(e, x)
         \/ Proceed(e) \/ Break(e) \/ Die(e)

\* A step of an exchange that is possible is taken: PostgreSQL hands a lock that
\* is given up to those who wait for it, in turn.
Fairness == \A e \in Exchanges : WF_vars(Proceed(e)) /\ SF_vars(Lock(e))

Spec == Init /\ [][Next]_vars /\ Fairness

-----------------------------------------------------------------------------
ExchangeTypeOK ==
    /\ standing \in [Credentials -> Standing]
    /\ granted \in [Credentials -> BOOLEAN]
    /\ now \in 0..MaxTime
    /\ counts \in [Slot -> Row]
    /\ locks \in [Locks -> Exchanges \cup {None}]
    /\ calls \in [Exchanges -> Call]
    /\ audit \in [Exchanges -> Seq({"success", "failure"})]
    /\ late \in [Exchanges -> BOOLEAN]

Granted(b, w) ==
    {e \in Exchanges : /\ calls[e].reserved /\ calls[e].started = w
                       /\ b \in BucketsOf[calls[e].credential]}

\* In no minute do more exchanges go on to a signature than the limit of any of
\* their buckets, however many count at once and whichever minute they started
\* in (reserve).
WithinLimit ==
    \A b \in Buckets, w \in 0..MaxTime : Cardinality(Granted(b, w)) <= Limit

\* A token that was handed out has one row of the audit, which says so, and an
\* exchange that was refused or broken has none that was handed out
\* (docs/rfcs/2026-08-27-credential-exchange-v1.md, 4).
TokensAreAudited ==
    \A e \in Exchanges : calls[e].token => audit[e] = <<"success">>

\* A credential that is revoked, or suspended and not resumed, before an exchange
\* has marked its use, or tools that are withdrawn before its token was signed and
\* not given back, give no token: whatever the exchange has read before
\* (docs/rfcs/2026-08-27-credential-exchange-v1.md, 6).
LateGetNoToken == \A e \in Exchanges : late[e] => ~calls[e].token

\* Exchanges that wait for each other's buckets all come to an end, with no
\* timeout of a statement to help them (the locks of reserve, taken in order).
EveryExchangeEnds == \A e \in Exchanges : At(e, "find") ~> At(e, "done")

=============================================================================
