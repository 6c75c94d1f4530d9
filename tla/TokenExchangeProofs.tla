------------------------- MODULE TokenExchangeProofs -------------------------
(***************************************************************************)
(* For any requests, credentials, buckets, limit, expiry and clock: tokens *)
(* are audited, a lost right gives none, and over PostgreSQL no minute has *)
(* more exchanges than its limit.                                          *)
(***************************************************************************)
EXTENDS TokenExchange, FiniteSetTheorems, TLAPS

Early == {"idle", "find", "check", "lock", "count", "store"}

\* What an exchange has, and has written, at each of its steps.
CallShape(e) ==
    /\ calls[e].at # "idle" => calls[e].credential \in Credentials
    /\ calls[e].at \in Early => ~calls[e].reserved
    /\ calls[e].at # "done" => ~calls[e].token
    /\ calls[e].at \in Early \cup {"sign", "mark", "audit"} => audit[e] = <<>>
    /\ calls[e].at = "answer" => audit[e] = <<"success">>
    /\ calls[e].token => audit[e] = <<"success">>

\* An exchange that lost its right has a check before it that it fails.
LateShape(e) ==
    late[e] =>
      /\ calls[e].at \notin {"idle", "audit", "answer"} /\ ~calls[e].token
      /\ calls[e].at \notin {"fail", "done"} =>
           \/ standing[calls[e].credential] \in {"suspended", "revoked"}
           \/ ~granted[calls[e].credential] /\ calls[e].at # "mark"

\* The inductive invariant of both stores.
ShapeInv == ExchangeTypeOK /\ \A e \in Exchanges : CallShape(e) /\ LateShape(e)

-----------------------------------------------------------------------------
(* What a step of an exchange does to the calls.                           *)

\* Another exchange is where it was.
Others(e) == \A f \in Exchanges : f # e => calls'[f] = calls[f]

\* The exchange is at another step, for the same credential and minute.
Moved(e, step) ==
    /\ calls' \in [Exchanges -> Call] /\ Others(e)
    /\ calls'[e].at = step
    /\ calls'[e].credential = calls[e].credential
    /\ calls'[e].started = calls[e].started

LEMMA GoToMoves ==
    ASSUME calls \in [Exchanges -> Call], NEW e \in Exchanges, NEW step \in Step, GoTo(e, step)
    PROVE  /\ Moved(e, step)
           /\ calls'[e].room = calls[e].room
           /\ calls'[e].reserved = calls[e].reserved
           /\ calls'[e].token = calls[e].token
<1> DEFINE call == [calls[e] EXCEPT !.at = step]
<1>1. calls[e] \in Call
  OBVIOUS
<1>2. /\ call \in Call /\ call.at = step
      /\ call.credential = calls[e].credential /\ call.started = calls[e].started
      /\ call.room = calls[e].room /\ call.reserved = calls[e].reserved
      /\ call.token = calls[e].token
  BY <1>1 DEF Call
<1>3. calls' = [calls EXCEPT ![e] = call]
  BY DEF GoTo
<1> HIDE DEF call
<1>4. calls' \in [Exchanges -> Call] /\ calls'[e] = call /\ Others(e)
  BY <1>2, <1>3 DEF Others
<1> QED BY <1>2, <1>4 DEF Moved

LEMMA ReceiveMoves ==
    ASSUME ExchangeTypeOK, NEW e \in Exchanges, NEW x \in Credentials, Receive(e, x)
    PROVE  /\ calls' \in [Exchanges -> Call] /\ Others(e)
           /\ calls'[e].at = "find" /\ calls'[e].credential = x
           /\ calls'[e].reserved = calls[e].reserved /\ calls'[e].token = calls[e].token
<1> DEFINE call == [calls[e] EXCEPT !.at = "find", !.credential = x, !.started = now]
<1>1. calls[e] \in Call /\ calls \in [Exchanges -> Call] /\ now \in 0..MaxTime
  BY DEF ExchangeTypeOK
<1>2. /\ call \in Call /\ call.at = "find" /\ call.credential = x
      /\ call.reserved = calls[e].reserved /\ call.token = calls[e].token
  BY <1>1 DEF Call, Step
<1>3. calls' = [calls EXCEPT ![e] = call]
  BY <1>1 DEF Receive
<1> HIDE DEF call
<1> QED BY <1>1, <1>2, <1>3 DEF Others

LEMMA FindMoves ==
    ASSUME ExchangeTypeOK, NEW e \in Exchanges, calls[e].credential \in Credentials, Find(e)
    PROVE  /\ Moved(e, "check")
           /\ calls'[e].reserved = calls[e].reserved /\ calls'[e].token = calls[e].token
<1> DEFINE call == [calls[e] EXCEPT !.at = "check", !.seen = standing[Key(e)]]
<1>1. calls[e] \in Call /\ calls \in [Exchanges -> Call] /\ standing[Key(e)] \in Standing
  BY DEF ExchangeTypeOK, Key
<1>2. /\ call \in Call /\ call.at = "check" /\ call.credential = calls[e].credential
      /\ call.started = calls[e].started
      /\ call.reserved = calls[e].reserved /\ call.token = calls[e].token
  BY <1>1 DEF Call, Step
<1>3. calls' = [calls EXCEPT ![e] = call]
  BY <1>1 DEF Find
<1> HIDE DEF call
<1> QED BY <1>1, <1>2, <1>3 DEF Moved, Others

LEMMA CountMoves ==
    ASSUME ExchangeTypeOK, NEW e \in Exchanges, Count(e)
    PROVE  /\ Moved(e, "store")
           /\ calls'[e].room = (\A b \in BucketsOf[Key(e)] : Used(e, b) < Limit)
           /\ calls'[e].reserved = calls[e].reserved /\ calls'[e].token = calls[e].token
<1> DEFINE room == \A b \in BucketsOf[Key(e)] : Used(e, b) < Limit
           call == [calls[e] EXCEPT !.at = "store", !.room = room]
<1>1. calls[e] \in Call /\ calls \in [Exchanges -> Call]
  BY DEF ExchangeTypeOK
<1>2. calls' = [calls EXCEPT ![e] = call]
  BY <1>1 DEF Count
<1>3. room \in BOOLEAN
  OBVIOUS
<1> HIDE DEF room
<1>4. /\ call \in Call /\ call.at = "store" /\ call.credential = calls[e].credential
      /\ call.started = calls[e].started /\ call.room = room
      /\ call.reserved = calls[e].reserved /\ call.token = calls[e].token
  BY <1>1, <1>3 DEF Call, Step
<1> HIDE DEF call
<1>5. /\ Moved(e, "store") /\ calls'[e].room = room
      /\ calls'[e].reserved = calls[e].reserved /\ calls'[e].token = calls[e].token
  BY <1>1, <1>2, <1>4 DEF Moved, Others
<1> QED BY <1>5 DEF room

LEMMA ReserveMoves ==
    ASSUME ExchangeTypeOK, NEW e \in Exchanges, Reserve(e)
    PROVE  /\ calls[e].room => Moved(e, "sign") /\ calls'[e].reserved
           /\ ~calls[e].room => Moved(e, "fail") /\ calls'[e].reserved = calls[e].reserved
           /\ calls'[e].token = calls[e].token
<1> DEFINE call == [calls[e] EXCEPT !.at = "sign", !.reserved = TRUE]
<1>1. calls[e] \in Call /\ calls \in [Exchanges -> Call]
  BY DEF ExchangeTypeOK
<1>2. CASE calls[e].room
  <2>1. /\ call \in Call /\ call.at = "sign" /\ call.credential = calls[e].credential
        /\ call.started = calls[e].started /\ call.reserved /\ call.token = calls[e].token
    BY <1>1 DEF Call, Step
  <2>2. calls' = [calls EXCEPT ![e] = call]
    BY <1>1, <1>2 DEF Reserve
  <2> HIDE DEF call
  <2> QED BY <1>1, <1>2, <2>1, <2>2 DEF Moved, Others
<1>3. CASE ~calls[e].room
  BY <1>1, <1>3, GoToMoves DEF Reserve, Step
<1> QED BY <1>2, <1>3

LEMMA AnswerMoves ==
    ASSUME ExchangeTypeOK, NEW e \in Exchanges, Answer(e)
    PROVE  Moved(e, "done") /\ calls'[e].reserved = calls[e].reserved
<1> DEFINE call == [calls[e] EXCEPT !.at = "done", !.token = TRUE]
<1>1. calls[e] \in Call /\ calls \in [Exchanges -> Call]
  BY DEF ExchangeTypeOK
<1>2. /\ call \in Call /\ call.at = "done" /\ call.credential = calls[e].credential
      /\ call.started = calls[e].started /\ call.reserved = calls[e].reserved
  BY <1>1 DEF Call, Step
<1>3. calls' = [calls EXCEPT ![e] = call]
  BY <1>1 DEF Answer
<1> HIDE DEF call
<1> QED BY <1>1, <1>2, <1>3 DEF Moved, Others

-----------------------------------------------------------------------------
(* The shape of exchanges, over either store.                              *)

LEMMA ShapeInit == Init => ShapeInv
<1> SUFFICES ASSUME Init PROVE ShapeInv
  OBVIOUS
<1>1. ExchangeTypeOK
  <2>1. [s \in Slot |-> [window |-> 0, count |-> 0]] \in [Slot -> Row]
    BY ExchangeAssumption DEF Row
  <2>2. [e \in Exchanges |->
           [at |-> "idle", credential |-> None, started |-> 0, seen |-> "pending",
            room |-> FALSE, reserved |-> FALSE, token |-> FALSE]] \in [Exchanges -> Call]
    BY ExchangeAssumption DEF Call, Step, Standing
  <2>3. now \in 0..MaxTime
    BY ExchangeAssumption DEF Init
  <2>4. locks \in [Locks -> Exchanges \cup {None}] /\ late \in [Exchanges -> BOOLEAN]
        /\ audit \in [Exchanges -> Seq({"success", "failure"})]
    BY DEF Init
  <2> QED BY <2>1, <2>2, <2>3, <2>4 DEF Init, ExchangeTypeOK, Standing
<1>2. \A e \in Exchanges : CallShape(e) /\ LateShape(e)
  BY DEF Init, CallShape, LateShape, Early
<1> QED BY <1>1, <1>2 DEF ShapeInv

\* Administrators and the clock leave the exchanges alone.
LEMMA AdministratorsKeepShape ==
    ASSUME ShapeInv,
           \/ \E x \in Credentials :
                \/ Acknowledge(x) \/ Suspend(x) \/ Resume(x) \/ Revoke(x)
                \/ Withdraw(x) \/ Restore(x)
           \/ Tick
    PROVE  ShapeInv'
<1> USE DEF ShapeInv
<1>1. calls' = calls /\ audit' = audit /\ counts' = counts /\ locks' = locks
  BY DEF Acknowledge, Suspend, Resume, Revoke, Withdraw, Restore, Tick, Unchanged
<1>2. now' \in 0..MaxTime
  <2>1. now \in 0..MaxTime /\ MaxTime \in Nat
    BY ExchangeAssumption DEF ExchangeTypeOK
  <2>2. CASE Tick
    BY <2>1, <2>2 DEF Tick
  <2>3. CASE ~Tick
    BY <2>1, <2>3 DEF Acknowledge, Suspend, Resume, Revoke, Withdraw, Restore, Unchanged
  <2> QED BY <2>2, <2>3
<1>3. standing' \in [Credentials -> Standing] /\ granted' \in [Credentials -> BOOLEAN]
  BY DEF Acknowledge, Suspend, Resume, Revoke, Withdraw, Restore, Tick, ExchangeTypeOK, Standing
<1>4. late' \in [Exchanges -> BOOLEAN]
  BY DEF Acknowledge, Suspend, Resume, Revoke, Withdraw, Restore, Tick, Losing, Regaining,
         ExchangeTypeOK
<1>5. ExchangeTypeOK'
  BY <1>1, <1>2, <1>3, <1>4 DEF ExchangeTypeOK
<1>6. ASSUME NEW e \in Exchanges PROVE CallShape(e)'
  BY <1>1 DEF CallShape
<1>7. ASSUME NEW e \in Exchanges PROVE LateShape(e)'
  <2>1. CallShape(e) /\ LateShape(e) /\ calls[e] \in Call
    BY DEF ExchangeTypeOK
  <2>2. CASE (\E x \in Credentials : Acknowledge(x)) \/ Tick
    BY <1>1, <2>1, <2>2 DEF Acknowledge, Tick, LateShape, CallShape, ExchangeTypeOK
  <2>3. CASE \E x \in Credentials : Revoke(x) \/ Suspend(x)
    BY <1>1, <2>1, <2>3
       DEF Revoke, Suspend, Losing, UntilMarked, LateShape, CallShape, ExchangeTypeOK
  <2>4. CASE \E x \in Credentials : Withdraw(x)
    BY <1>1, <2>1, <2>4
       DEF Withdraw, Losing, UntilSigned, UntilMarked, LateShape, CallShape, ExchangeTypeOK
  <2>5. CASE \E x \in Credentials : Restore(x)
    BY <1>1, <2>1, <2>5 DEF Restore, Regaining, LateShape, CallShape, ExchangeTypeOK
  <2>6. CASE \E x \in Credentials : Resume(x)
    <3>1. PICK x \in Credentials : Resume(x)
      BY <2>6
    <3>2. late'[e] => late[e] /\ (calls[e].credential = x => ~granted[x] /\ calls[e].at # "mark")
      BY <3>1, <2>1 DEF Resume, Regaining, UntilSigned, UntilMarked, ExchangeTypeOK
    <3>3. granted' = granted /\ \A y \in Credentials : y # x => standing'[y] = standing[y]
      BY <3>1 DEF Resume, ExchangeTypeOK
    <3> QED BY <1>1, <2>1, <3>2, <3>3 DEF LateShape, CallShape
  <2> QED BY <2>2, <2>3, <2>4, <2>5, <2>6
<1> QED BY <1>5, <1>6, <1>7

LEMMA ReleasedTyped ==
    ASSUME locks \in [Locks -> Exchanges \cup {None}], NEW e \in Exchanges
    PROVE  Released(e) \in [Locks -> Exchanges \cup {None}]
BY DEF Released

\* It is enough to look at the exchange that moves.
LEMMA OneMoves ==
    ASSUME ShapeInv, NEW e \in Exchanges,
           UNCHANGED Authority,
           calls' \in [Exchanges -> Call], Others(e),
           counts' \in [Slot -> Row],
           locks' \in [Locks -> Exchanges \cup {None}],
           audit' \in [Exchanges -> Seq({"success", "failure"})],
           \A f \in Exchanges : f # e => audit'[f] = audit[f],
           CallShape(e)', LateShape(e)'
    PROVE  ShapeInv'
<1>1. ExchangeTypeOK'
  BY DEF ShapeInv, ExchangeTypeOK, Authority
<1>2. ASSUME NEW f \in Exchanges, f # e PROVE CallShape(f)' /\ LateShape(f)'
  BY <1>2 DEF ShapeInv, CallShape, LateShape, Others, Authority
<1> QED BY <1>1, <1>2 DEF ShapeInv

LEMMA ReceiveKeepsShape ==
    ASSUME ShapeInv, NEW e \in Exchanges, NEW x \in Credentials, Receive(e, x)
    PROVE  ShapeInv'
<1>1. ExchangeTypeOK /\ CallShape(e) /\ LateShape(e)
  BY DEF ShapeInv
<1>2. calls' \in [Exchanges -> Call] /\ Others(e) /\ calls'[e].at = "find"
      /\ calls'[e].credential = x
      /\ calls'[e].reserved = calls[e].reserved /\ calls'[e].token = calls[e].token
  BY <1>1, ReceiveMoves
<1>3. UNCHANGED <<Authority, counts, locks, audit>> /\ calls[e].at = "idle"
  BY DEF Receive, Authority, At
<1>4. CallShape(e)' /\ LateShape(e)'
  BY <1>1, <1>2, <1>3 DEF CallShape, LateShape, Early, Authority
<1> QED BY <1>1, <1>2, <1>3, <1>4, OneMoves DEF ExchangeTypeOK

\* The steps that end before anything is written.
LEMMA WaitingKeepsShape ==
    ASSUME ShapeInv, NEW e \in Exchanges, Find(e) \/ Check(e) \/ Lock(e) \/ Count(e)
    PROVE  ShapeInv'
<1>1. ExchangeTypeOK /\ CallShape(e) /\ LateShape(e)
  BY DEF ShapeInv
<1>2. calls \in [Exchanges -> Call] /\ calls[e].credential \in Credentials
      /\ calls[e].at \in {"find", "check", "lock", "count"}
  BY <1>1 DEF ExchangeTypeOK, CallShape, Find, Check, Lock, Count, At
<1>3. \E step \in {"check", "lock", "count", "store", "fail"} :
         /\ Moved(e, step)
         /\ calls'[e].reserved = calls[e].reserved /\ calls'[e].token = calls[e].token
  <2>1. CASE Find(e)
    BY <1>1, <1>2, <2>1, FindMoves
  <2>2. CASE Check(e)
    BY <1>2, <2>2, GoToMoves DEF Check, Step
  <2>3. CASE Lock(e)
    BY <1>2, <2>3, GoToMoves DEF Lock, Step
  <2>4. CASE Count(e)
    BY <1>1, <2>4, CountMoves
  <2> QED BY <2>1, <2>2, <2>3, <2>4
<1>4. UNCHANGED <<Authority, counts, audit>>
  BY DEF Find, Check, Lock, Count
<1>5. locks' \in [Locks -> Exchanges \cup {None}]
  BY <1>1 DEF ExchangeTypeOK, Find, Check, Lock, Count
<1>6. CallShape(e)' /\ LateShape(e)'
  BY <1>1, <1>2, <1>3, <1>4 DEF CallShape, LateShape, Early, Moved, Authority
<1> QED BY <1>1, <1>3, <1>4, <1>5, <1>6, OneMoves DEF ExchangeTypeOK, Moved

LEMMA CountsTyped ==
    ASSUME ExchangeTypeOK, NEW e \in Exchanges, Reserve(e)
    PROVE  counts' \in [Slot -> Row]
<1>1. calls[e] \in Call /\ counts \in [Slot -> Row]
  BY DEF ExchangeTypeOK
<1>2. calls[e].started \in 0..MaxTime
  BY <1>1 DEF Call
<1>3. CASE calls[e].room
  <2> DEFINE more(s) == [window |-> calls[e].started,
                         count |-> 1 + (IF counts[s].window = calls[e].started
                                        THEN counts[s].count ELSE 0)]
  <2>1. ASSUME NEW s \in Slot PROVE more(s) \in Row
    <3>1. counts[s] \in Row /\ counts[s].count \in Nat
      BY <1>1 DEF Row
    <3> QED BY <1>2, <3>1 DEF Row
  <2>2. counts' = [s \in Slot |-> IF \E b \in BucketsOf[Key(e)] : s = SlotOf(e, b)
                                  THEN more(s) ELSE counts[s]]
    BY <1>3 DEF Reserve
  <2> HIDE DEF more
  <2> QED BY <1>1, <2>1, <2>2
<1>4. CASE ~calls[e].room
  BY <1>1, <1>4 DEF Reserve
<1> QED BY <1>3, <1>4

LEMMA ReserveKeepsShape ==
    ASSUME ShapeInv, NEW e \in Exchanges, Reserve(e)
    PROVE  ShapeInv'
<1>1. ExchangeTypeOK /\ CallShape(e) /\ LateShape(e)
  BY DEF ShapeInv
<1>2. \E step \in {"sign", "fail"} :
         Moved(e, step) /\ calls'[e].token = calls[e].token
  BY <1>1, ReserveMoves
<1>3. UNCHANGED <<Authority, audit>> /\ locks' = Released(e) /\ calls[e].at = "store"
  BY DEF Reserve, At
<1>4. counts' \in [Slot -> Row]
  BY <1>1, CountsTyped
<1>5. CallShape(e)' /\ LateShape(e)'
  BY <1>1, <1>2, <1>3 DEF CallShape, LateShape, Early, Moved, Authority
<1> QED BY <1>1, <1>2, <1>3, <1>4, <1>5, OneMoves, ReleasedTyped DEF ExchangeTypeOK, Moved

\* The two checks that a lost right fails.
LEMMA ChecksKeepShape ==
    ASSUME ShapeInv, NEW e \in Exchanges, Sign(e) \/ Mark(e)
    PROVE  ShapeInv'
<1>1. ExchangeTypeOK /\ CallShape(e) /\ LateShape(e)
  BY DEF ShapeInv
<1>2. UNCHANGED <<Authority, counts, locks, audit>>
  BY DEF Sign, Mark
<1>3. calls \in [Exchanges -> Call]
  BY <1>1 DEF ExchangeTypeOK
<1>4. CASE Sign(e)
  <2>1. calls[e].at = "sign" /\ calls'[e].token = calls[e].token
        /\ Moved(e, IF granted[Key(e)] THEN "mark" ELSE "fail")
    BY <1>3, <1>4, GoToMoves DEF Sign, At, Step
  <2>2. CallShape(e)' /\ LateShape(e)'
    BY <1>1, <1>2, <2>1 DEF CallShape, LateShape, Early, Moved, Authority, Key
  <2> QED BY <1>1, <1>2, <2>1, <2>2, OneMoves DEF ExchangeTypeOK, Moved
<1>5. CASE Mark(e)
  <2>1. calls[e].at = "mark" /\ calls'[e].token = calls[e].token
        /\ Moved(e, IF standing[Key(e)] = "active" /\ Expiry > calls[e].started
                    THEN "audit" ELSE "fail")
    BY <1>3, <1>5, GoToMoves DEF Mark, At, Step
  <2>2. CallShape(e)' /\ LateShape(e)'
    BY <1>1, <1>2, <2>1 DEF CallShape, LateShape, Early, Moved, Authority, Key
  <2> QED BY <1>1, <1>2, <2>1, <2>2, OneMoves DEF ExchangeTypeOK, Moved
<1> QED BY <1>4, <1>5

LEMMA AppendedTyped ==
    ASSUME ExchangeTypeOK, NEW e \in Exchanges, NEW row \in {"success", "failure"},
           Append1(e, row)
    PROVE  /\ audit' \in [Exchanges -> Seq({"success", "failure"})]
           /\ \A f \in Exchanges : f # e => audit'[f] = audit[f]
           /\ audit'[e] = Append(audit[e], row)
BY DEF ExchangeTypeOK, Append1

LEMMA WritersKeepShape ==
    ASSUME ShapeInv, NEW e \in Exchanges, Audit(e) \/ Refuse(e)
    PROVE  ShapeInv'
<1>1. ExchangeTypeOK /\ CallShape(e) /\ LateShape(e)
  BY DEF ShapeInv
<1>2. UNCHANGED <<Authority, counts, locks>>
  BY DEF Audit, Refuse
<1>3. calls \in [Exchanges -> Call] /\ audit \in [Exchanges -> Seq({"success", "failure"})]
  BY <1>1 DEF ExchangeTypeOK
<1>4. CASE Audit(e)
  <2>1. calls[e].at = "audit" /\ audit[e] = <<>> /\ ~late[e] /\ ~calls[e].token
    BY <1>1, <1>4 DEF Audit, At, CallShape, LateShape, ExchangeTypeOK
  <2>2. CASE Append1(e, "success") /\ GoTo(e, "answer")
    <3>1. Moved(e, "answer") /\ calls'[e].token = calls[e].token
      BY <1>3, <2>2, GoToMoves DEF Step
    <3>2. /\ audit' \in [Exchanges -> Seq({"success", "failure"})]
          /\ \A f \in Exchanges : f # e => audit'[f] = audit[f]
          /\ audit'[e] = <<"success">>
      BY <1>1, <2>1, <2>2, AppendedTyped
    <3>3. CallShape(e)' /\ LateShape(e)'
      BY <1>1, <1>2, <2>1, <3>1, <3>2 DEF CallShape, LateShape, Early, Moved, Authority
    <3> QED BY <1>1, <1>2, <3>1, <3>2, <3>3, OneMoves DEF ExchangeTypeOK, Moved
  <2>3. CASE (Append1(e, "success") \/ UNCHANGED audit) /\ GoTo(e, "fail")
    <3>1. Moved(e, "fail") /\ calls'[e].token = calls[e].token
      BY <1>3, <2>3, GoToMoves DEF Step
    <3>2. /\ audit' \in [Exchanges -> Seq({"success", "failure"})]
          /\ \A f \in Exchanges : f # e => audit'[f] = audit[f]
      BY <1>1, <1>3, <2>3, AppendedTyped
    <3>3. CallShape(e)' /\ LateShape(e)'
      BY <1>1, <1>2, <2>1, <3>1 DEF CallShape, LateShape, Early, Moved, Authority
    <3> QED BY <1>1, <1>2, <3>1, <3>2, <3>3, OneMoves DEF ExchangeTypeOK, Moved
  <2> QED BY <1>4, <2>2, <2>3 DEF Audit
<1>5. CASE Refuse(e)
  <2>1. calls[e].at = "fail" /\ ~calls[e].token
    BY <1>1, <1>5 DEF Refuse, At, CallShape
  <2>2. Moved(e, "done") /\ calls'[e].token = calls[e].token
    BY <1>3, <1>5, GoToMoves DEF Refuse, Step
  <2>3. /\ audit' \in [Exchanges -> Seq({"success", "failure"})]
        /\ \A f \in Exchanges : f # e => audit'[f] = audit[f]
    BY <1>1, <1>3, <1>5, AppendedTyped DEF Refuse
  <2>4. CallShape(e)' /\ LateShape(e)'
    BY <1>1, <1>2, <2>1, <2>2 DEF CallShape, LateShape, Early, Moved, Authority
  <2> QED BY <1>1, <1>2, <2>2, <2>3, <2>4, OneMoves DEF ExchangeTypeOK, Moved
<1> QED BY <1>4, <1>5

LEMMA EndsKeepShape ==
    ASSUME ShapeInv, NEW e \in Exchanges, Answer(e) \/ Break(e) \/ Die(e)
    PROVE  ShapeInv'
<1>1. ExchangeTypeOK /\ CallShape(e) /\ LateShape(e)
  BY DEF ShapeInv
<1>2. UNCHANGED <<Authority, counts, audit>>
  BY DEF Answer, Break, Die
<1>3. calls \in [Exchanges -> Call] /\ locks' \in [Locks -> Exchanges \cup {None}]
  BY <1>1, ReleasedTyped DEF ExchangeTypeOK, Answer, Break, Die
<1>4. CASE Answer(e)
  <2>1. calls[e].at = "answer" /\ audit[e] = <<"success">> /\ ~late[e]
    BY <1>1, <1>4 DEF Answer, At, CallShape, LateShape, ExchangeTypeOK
  <2>2. Moved(e, "done")
    BY <1>1, <1>4, AnswerMoves
  <2>3. CallShape(e)' /\ LateShape(e)'
    BY <1>1, <1>2, <2>1, <2>2 DEF CallShape, LateShape, Early, Moved, Authority
  <2> QED BY <1>1, <1>2, <1>3, <2>2, <2>3, OneMoves DEF ExchangeTypeOK, Moved
<1>5. CASE Break(e) \/ Die(e)
  <2>1. calls[e].at \notin {"idle", "done"} /\ ~calls[e].token
    BY <1>1, <1>5 DEF Break, UntilMarked, Die, CallShape
  <2>2. \E step \in {"fail", "done"} : Moved(e, step) /\ calls'[e].token = calls[e].token
    BY <1>3, <1>5, GoToMoves DEF Break, UntilMarked, Die, Step
  <2>3. CallShape(e)' /\ LateShape(e)'
    BY <1>1, <1>2, <2>1, <2>2 DEF CallShape, LateShape, Early, Moved, Authority
  <2> QED BY <1>1, <1>2, <1>3, <2>2, <2>3, OneMoves DEF ExchangeTypeOK, Moved
<1> QED BY <1>4, <1>5

LEMMA ShapeNext == ShapeInv /\ [Next]_vars => ShapeInv'
<1> SUFFICES ASSUME ShapeInv, [Next]_vars PROVE ShapeInv'
  OBVIOUS
<1>1. CASE UNCHANGED vars
  BY <1>1 DEF vars, ShapeInv, ExchangeTypeOK, CallShape, LateShape
<1>2. CASE \/ \E x \in Credentials :
                \/ Acknowledge(x) \/ Suspend(x) \/ Resume(x) \/ Revoke(x)
                \/ Withdraw(x) \/ Restore(x)
           \/ Tick
  BY <1>2, AdministratorsKeepShape
<1>3. ASSUME NEW e \in Exchanges, NEW x \in Credentials, Receive(e, x) PROVE ShapeInv'
  BY <1>3, ReceiveKeepsShape
<1>4. ASSUME NEW e \in Exchanges, Proceed(e) \/ Break(e) \/ Die(e) PROVE ShapeInv'
  BY <1>4, WaitingKeepsShape, ReserveKeepsShape, ChecksKeepShape, WritersKeepShape, EndsKeepShape
     DEF Proceed
<1> QED BY <1>1, <1>2, <1>3, <1>4 DEF Next

THEOREM ShapeInvariance == Spec => []ShapeInv
BY ShapeInit, ShapeNext, PTL DEF Spec

\* Every variable of the exchanges keeps its type.
THEOREM ExchangeTypeCorrect == Spec => []ExchangeTypeOK
<1>1. ShapeInv => ExchangeTypeOK
  BY DEF ShapeInv
<1> QED BY <1>1, ShapeInvariance, PTL

\* No token leaves without its one row in the audit (exchangeToken).
THEOREM NoTokenWithoutAudit == Spec => []TokensAreAudited
<1>1. ShapeInv => TokensAreAudited
  BY DEF ShapeInv, CallShape, TokensAreAudited
<1> QED BY <1>1, ShapeInvariance, PTL

\* A right that is lost before its last check gives no token (exchangeToken).
THEOREM NoTokenAfterLoss == Spec => []LateGetNoToken
<1>1. ShapeInv => LateGetNoToken
  BY DEF ShapeInv, LateShape, LateGetNoToken
<1> QED BY <1>1, ShapeInvariance, PTL

-----------------------------------------------------------------------------
(* The limit, over PostgreSQL.                                             *)

\* What the row of a bucket and a minute counts.
Rows(b, w) == IF counts[<<b, w>>].window = w THEN counts[<<b, w>>].count ELSE 0

\* The locks of all its buckets are with an exchange that counts, so that the
\* room it found is still there when it writes.
HoldsLocks(e) ==
    calls[e].at \in {"count", "store"} => \A b \in BucketsOf[calls[e].credential] : locks[b] = e
RoomIsThere(e) ==
    calls[e].at = "store" /\ calls[e].room =>
      \A b \in BucketsOf[calls[e].credential] : Rows(b, calls[e].started) < Limit

RowsCount ==
    \A b \in Buckets, w \in 0..MaxTime :
       Rows(b, w) = Cardinality(Granted(b, w)) /\ Rows(b, w) <= Limit

\* The inductive invariant of the limit.
LimitInv == RowsCount /\ \A e \in Exchanges : HoldsLocks(e) /\ RoomIsThere(e)

LEMMA GrantedFinite ==
    ASSUME NEW b, NEW w
    PROVE  IsFiniteSet(Granted(b, w)) /\ Cardinality(Granted(b, w)) \in Nat
BY ExchangeAssumption, FS_Subset, FS_CardinalityType DEF Granted

LEMMA LimitInit == ASSUME Store = "postgres" PROVE Init => LimitInv
<1> SUFFICES ASSUME Init PROVE LimitInv
  OBVIOUS
<1>1. ASSUME NEW b \in Buckets, NEW w \in 0..MaxTime
      PROVE  Rows(b, w) = Cardinality(Granted(b, w)) /\ Rows(b, w) <= Limit
  <2>1. <<b, w>> \in Slot
    BY DEF Slot
  <2>2. Rows(b, w) = 0
    BY <2>1 DEF Init, Rows
  <2>3. Granted(b, w) = {}
    BY DEF Init, Granted
  <2> QED BY <2>2, <2>3, FS_EmptySet, ExchangeAssumption
<1>2. \A e \in Exchanges : HoldsLocks(e) /\ RoomIsThere(e)
  BY DEF Init, HoldsLocks, RoomIsThere
<1> QED BY <1>1, <1>2 DEF LimitInv, RowsCount

\* Steps that write no counts: an exchange that is granted stays so, and the
\* locks of the others stay with them.
LEMMA QuietKeepsLimit ==
    ASSUME LimitInv, NEW e \in Exchanges, Others(e), counts' = counts,
           calls'[e].reserved = calls[e].reserved,
           calls[e].reserved => /\ calls'[e].credential = calls[e].credential
                                /\ calls'[e].started = calls[e].started,
           \A f \in Exchanges, l \in Locks : f # e /\ locks[l] = f => locks'[l] = f,
           Store = "postgres", ShapeInv,
           HoldsLocks(e)', RoomIsThere(e)'
    PROVE  LimitInv'
<1>1. \A b, w : Granted(b, w)' = Granted(b, w) /\ Rows(b, w)' = Rows(b, w)
  BY DEF Others, Granted, Rows
<1>2. RowsCount'
  BY <1>1 DEF LimitInv, RowsCount
<1>3. ASSUME NEW f \in Exchanges, f # e PROVE HoldsLocks(f)' /\ RoomIsThere(f)'
  <2>1. calls'[f] = calls[f] /\ HoldsLocks(f) /\ RoomIsThere(f) /\ CallShape(f)
    BY <1>3 DEF Others, LimitInv, ShapeInv
  <2>2. calls[f].at \in {"count", "store"} => BucketsOf[calls[f].credential] \subseteq Locks
    BY <2>1 DEF CallShape, Locks, Buckets
  <2> QED BY <1>1, <1>3, <2>1, <2>2 DEF HoldsLocks, RoomIsThere
<1> QED BY <1>2, <1>3 DEF LimitInv

\* Steps that end where no lock is needed.
LEMMA LeavingKeepsLimit ==
    ASSUME LimitInv, ShapeInv, NEW e \in Exchanges, NEW step \in Step \ {"count", "store"},
           Moved(e, step), calls'[e].reserved = calls[e].reserved,
           counts' = counts, locks' = locks \/ locks' = Released(e), Store = "postgres"
    PROVE  LimitInv'
<1>1. HoldsLocks(e)' /\ RoomIsThere(e)'
  BY DEF HoldsLocks, RoomIsThere, Moved
<1>2. \A f \in Exchanges, l \in Locks : f # e /\ locks[l] = f => locks'[l] = f
  BY DEF Released
<1> QED BY <1>1, <1>2, QuietKeepsLimit DEF Moved

LEMMA ReceiveKeepsLimit ==
    ASSUME LimitInv, ShapeInv, NEW e \in Exchanges, NEW x \in Credentials, Receive(e, x),
           Store = "postgres"
    PROVE  LimitInv'
<1>1. ExchangeTypeOK /\ CallShape(e)
  BY DEF ShapeInv
<1>2. Others(e) /\ calls'[e].at = "find" /\ calls'[e].reserved = calls[e].reserved
  BY <1>1, ReceiveMoves
<1>3. ~calls[e].reserved /\ counts' = counts /\ locks' = locks
  BY <1>1 DEF Receive, At, CallShape, Early
<1>4. HoldsLocks(e)' /\ RoomIsThere(e)'
  BY <1>2 DEF HoldsLocks, RoomIsThere
<1> QED BY <1>2, <1>3, <1>4, QuietKeepsLimit

LEMMA LockKeepsLimit ==
    ASSUME LimitInv, ShapeInv, NEW e \in Exchanges, Lock(e), Store = "postgres"
    PROVE  LimitInv'
<1>1. /\ calls \in [Exchanges -> Call] /\ locks \in [Locks -> Exchanges \cup {None}]
      /\ calls[e].at = "lock" /\ calls[e].credential \in Credentials
  BY DEF ShapeInv, ExchangeTypeOK, CallShape, Lock, At
<1>2. LocksOf(e) = BucketsOf[calls[e].credential] /\ LocksOf(e) \subseteq Locks
  BY <1>1 DEF LocksOf, Locks, Buckets, Key
<1>3. PICK l \in Missing(e) : /\ locks[l] = None /\ locks' = [locks EXCEPT ![l] = e]
                              /\ GoTo(e, IF Missing(e) = {l} THEN "count" ELSE "lock")
  BY DEF Lock
<1>4. /\ Moved(e, IF Missing(e) = {l} THEN "count" ELSE "lock")
      /\ calls'[e].reserved = calls[e].reserved
  BY <1>1, <1>3, GoToMoves DEF Step
<1>5. HoldsLocks(e)'
  <2>1. ASSUME Missing(e) = {l}, NEW m \in LocksOf(e) PROVE locks'[m] = e
    BY <1>1, <1>2, <1>3, <2>1 DEF Missing
  <2> QED BY <1>2, <1>4, <2>1 DEF HoldsLocks, Moved
<1>6. RoomIsThere(e)'
  BY <1>4 DEF RoomIsThere, Moved
<1>7. \A f \in Exchanges, m \in Locks : f # e /\ locks[m] = f => locks'[m] = f
  BY <1>1, <1>3, ExchangeAssumption
<1> QED BY <1>4, <1>5, <1>6, <1>7, QuietKeepsLimit DEF Moved, Lock

LEMMA CountKeepsLimit ==
    ASSUME LimitInv, ShapeInv, NEW e \in Exchanges, Count(e), Store = "postgres"
    PROVE  LimitInv'
<1>1. ExchangeTypeOK /\ HoldsLocks(e) /\ calls[e].at = "count"
  BY DEF ShapeInv, LimitInv, Count, At
<1>2. /\ Moved(e, "store") /\ calls'[e].reserved = calls[e].reserved
      /\ calls'[e].room = (\A b \in BucketsOf[Key(e)] : Used(e, b) < Limit)
  BY <1>1, CountMoves
<1>3. counts' = counts /\ locks' = locks
  BY DEF Count
<1>4. HoldsLocks(e)'
  BY <1>1, <1>2, <1>3 DEF HoldsLocks, Moved
<1>5. RoomIsThere(e)'
  <2>1. \A b : Used(e, b) = Rows(b, calls[e].started)
    BY DEF Used, SlotOf, Rows
  <2>2. \A b : Rows(b, calls[e].started)' = Rows(b, calls[e].started)
    BY <1>2, <1>3 DEF Rows, Moved
  <2> QED BY <1>2, <2>1, <2>2 DEF RoomIsThere, Moved, Key
<1> QED BY <1>2, <1>3, <1>4, <1>5, QuietKeepsLimit DEF Moved

\* What a reservation does to the rows of its buckets and to those of others.
LEMMA ReserveCounts ==
    ASSUME ShapeInv, NEW e \in Exchanges, Reserve(e), calls[e].room, Store = "postgres",
           NEW b \in Buckets, NEW w \in 0..MaxTime
    PROVE  Rows(b, w)' = IF b \in BucketsOf[Key(e)] /\ w = calls[e].started
                         THEN Rows(b, w) + 1 ELSE Rows(b, w)
<1> DEFINE s == <<b, w>>
           counted == \E a \in BucketsOf[Key(e)] : s = SlotOf(e, a)
           more == [window |-> calls[e].started,
                    count |-> 1 + (IF counts[s].window = calls[e].started
                                   THEN counts[s].count ELSE 0)]
<1>1. s \in Slot
  BY DEF Slot
<1>2. counts'[s] = IF counted THEN more ELSE counts[s]
  BY <1>1 DEF Reserve
<1>3. counted <=> b \in BucketsOf[Key(e)] /\ w = calls[e].started
  BY DEF SlotOf
<1>4. counts[s].count \in Nat
  BY <1>1 DEF ShapeInv, ExchangeTypeOK, Row
<1>5. more.window = calls[e].started
      /\ more.count = 1 + (IF counts[s].window = calls[e].started THEN counts[s].count ELSE 0)
  OBVIOUS
<1>6. CASE counted
  <2>1. w = calls[e].started /\ b \in BucketsOf[Key(e)] /\ counts'[s] = more
    BY <1>2, <1>3, <1>6
  <2> HIDE DEF more
  <2> QED BY <1>4, <1>5, <2>1 DEF Rows
<1>7. CASE ~counted
  <2>1. counts'[s] = counts[s] /\ ~(b \in BucketsOf[Key(e)] /\ w = calls[e].started)
    BY <1>2, <1>3, <1>7
  <2> QED BY <2>1 DEF Rows
<1> QED BY <1>6, <1>7

LEMMA ReserveKeepsLimit ==
    ASSUME LimitInv, ShapeInv, NEW e \in Exchanges, Reserve(e), Store = "postgres"
    PROVE  LimitInv'
<1>1. /\ ExchangeTypeOK /\ calls[e].at = "store" /\ CallShape(e) /\ ~calls[e].reserved
      /\ calls[e] \in Call /\ calls[e].credential \in Credentials
      /\ HoldsLocks(e) /\ RoomIsThere(e) /\ locks' = Released(e)
  BY DEF ShapeInv, LimitInv, ExchangeTypeOK, CallShape, Early, Reserve, At
<1>2. CASE ~calls[e].room
  <2>1. Moved(e, "fail") /\ calls'[e].reserved = calls[e].reserved /\ counts' = counts
    BY <1>1, <1>2, ReserveMoves DEF Reserve
  <2> QED BY <1>1, <2>1, LeavingKeepsLimit DEF Step
<1>3. CASE calls[e].room
  <2> DEFINE B == BucketsOf[Key(e)]
             m == calls[e].started
  <2>1. Moved(e, "sign") /\ calls'[e].reserved
    BY <1>1, <1>3, ReserveMoves
  <2>2. RowsCount'
    <3> SUFFICES ASSUME NEW b \in Buckets, NEW w \in 0..MaxTime
                 PROVE  /\ Rows(b, w)' = Cardinality(Granted(b, w)')
                        /\ Rows(b, w)' <= Limit
      BY DEF RowsCount
    <3>1. Rows(b, w) = Cardinality(Granted(b, w)) /\ Rows(b, w) <= Limit
      BY DEF LimitInv, RowsCount
    <3>2. IsFiniteSet(Granted(b, w)) /\ Cardinality(Granted(b, w)) \in Nat
      BY GrantedFinite
    <3>3. CASE b \in B /\ w = m
      <4>1. Granted(b, w)' = Granted(b, w) \cup {e} /\ e \notin Granted(b, w)
        BY <1>1, <2>1, <3>3 DEF Granted, Moved, Others, Key
      <4>2. Cardinality(Granted(b, w)') = Cardinality(Granted(b, w)) + 1
        BY <3>2, <4>1, FS_AddElement
      <4>3. Rows(b, w)' = Rows(b, w) + 1
        BY <1>3, <3>3, ReserveCounts
      <4>4. Rows(b, w) < Limit
        BY <1>1, <1>3, <3>3 DEF RoomIsThere, Key
      <4> QED BY <3>1, <3>2, <4>2, <4>3, <4>4, ExchangeAssumption
    <3>4. CASE ~(b \in B /\ w = m)
      <4>1. Granted(b, w)' = Granted(b, w)
        BY <1>1, <2>1, <3>4 DEF Granted, Moved, Others, Key
      <4>2. Rows(b, w)' = Rows(b, w)
        BY <1>3, <3>4, ReserveCounts
      <4> QED BY <3>1, <4>1, <4>2
    <3> QED BY <3>3, <3>4
  <2>3. HoldsLocks(e)' /\ RoomIsThere(e)'
    BY <2>1 DEF HoldsLocks, RoomIsThere, Moved
  <2>4. ASSUME NEW f \in Exchanges, f # e PROVE HoldsLocks(f)' /\ RoomIsThere(f)'
    <3>1. calls'[f] = calls[f] /\ HoldsLocks(f) /\ RoomIsThere(f)
      BY <2>1, <2>4 DEF Moved, Others, LimitInv
    <3>2. calls[f] \in Call /\ CallShape(f)
      BY DEF ShapeInv, ExchangeTypeOK
    <3>3. calls[f].at \in {"count", "store"} =>
            BucketsOf[calls[f].credential] \subseteq Locks
            /\ BucketsOf[calls[f].credential] \subseteq Buckets
      BY <3>2 DEF CallShape, Locks, Buckets
    <3>4. HoldsLocks(f)'
      BY <1>1, <2>4, <3>1, <3>3 DEF HoldsLocks, Released
    <3>5. RoomIsThere(f)'
      <4> SUFFICES ASSUME calls[f].at = "store", calls[f].room,
                          NEW b \in BucketsOf[calls[f].credential]
                   PROVE  Rows(b, calls[f].started)' < Limit
        BY <3>1 DEF RoomIsThere, Rows
      <4>1. locks[b] = f /\ Rows(b, calls[f].started) < Limit /\ b \in Buckets
        BY <3>1, <3>3 DEF HoldsLocks, RoomIsThere
      <4>2. b \notin B
        BY <1>1, <2>4, <4>1 DEF HoldsLocks, Key
      <4>3. calls[f].started \in 0..MaxTime
        BY <3>2 DEF Call
      <4>4. Rows(b, calls[f].started)' = Rows(b, calls[f].started)
        <5>1. \A w \in 0..MaxTime : Rows(b, w)' = Rows(b, w)
          BY <1>3, <4>1, <4>2, ReserveCounts
        <5> QED BY <3>1, <4>3, <5>1 DEF Rows
      <4> QED BY <4>1, <4>4
    <3> QED BY <3>4, <3>5
  <2> QED BY <2>2, <2>3, <2>4 DEF LimitInv
<1> QED BY <1>2, <1>3

LEMMA LimitNext ==
    ASSUME Store = "postgres"
    PROVE  LimitInv /\ ShapeInv /\ [Next]_vars => LimitInv'
<1> SUFFICES ASSUME LimitInv, ShapeInv, [Next]_vars PROVE LimitInv'
  OBVIOUS
<1>1. ASSUME calls' = calls, counts' = counts, locks' = locks PROVE LimitInv'
  BY <1>1 DEF LimitInv, RowsCount, HoldsLocks, RoomIsThere, Rows, Granted
<1>2. CASE UNCHANGED vars
  BY <1>1, <1>2 DEF vars
<1>3. CASE \/ \E x \in Credentials :
                \/ Acknowledge(x) \/ Suspend(x) \/ Resume(x) \/ Revoke(x)
                \/ Withdraw(x) \/ Restore(x)
           \/ Tick
  BY <1>1, <1>3 DEF Acknowledge, Suspend, Resume, Revoke, Withdraw, Restore, Tick, Unchanged
<1>4. ASSUME NEW e \in Exchanges, NEW x \in Credentials, Receive(e, x) PROVE LimitInv'
  BY <1>4, ReceiveKeepsLimit
<1>5. ASSUME NEW e \in Exchanges, Proceed(e) \/ Break(e) \/ Die(e) PROVE LimitInv'
  <2>1. calls \in [Exchanges -> Call] /\ ExchangeTypeOK /\ CallShape(e)
    BY DEF ShapeInv, ExchangeTypeOK
  <2>2. CASE Find(e)
    <3>1. Moved(e, "check") /\ calls'[e].reserved = calls[e].reserved
      BY <2>1, <2>2, FindMoves DEF Find, At, CallShape
    <3> QED BY <2>2, <3>1, LeavingKeepsLimit DEF Find, Step
  <2>3. CASE Lock(e)
    BY <2>3, LockKeepsLimit
  <2>4. CASE Count(e)
    BY <2>4, CountKeepsLimit
  <2>5. CASE Reserve(e)
    BY <2>5, ReserveKeepsLimit
  <2>6. CASE Answer(e)
    <3>1. Moved(e, "done") /\ calls'[e].reserved = calls[e].reserved
      BY <2>1, <2>6, AnswerMoves
    <3> QED BY <2>6, <3>1, LeavingKeepsLimit DEF Answer, Step
  <2>7. CASE \/ Check(e) \/ Sign(e) \/ Mark(e) \/ Audit(e) \/ Refuse(e) \/ Break(e) \/ Die(e)
    <3>1. PICK step \in {"lock", "fail", "mark", "audit", "answer", "done"} : GoTo(e, step)
      <4>1. CASE Check(e) BY <4>1 DEF Check
      <4>2. CASE Sign(e) BY <4>2 DEF Sign
      <4>3. CASE Mark(e) BY <4>3 DEF Mark
      <4>4. CASE Audit(e) BY <4>4 DEF Audit
      <4>5. CASE Refuse(e) \/ Break(e) \/ Die(e) BY <4>5 DEF Refuse, Break, Die
      <4> QED BY <2>7, <4>1, <4>2, <4>3, <4>4, <4>5
    <3>2. Moved(e, step) /\ calls'[e].reserved = calls[e].reserved
      BY <2>1, <3>1, GoToMoves DEF Step
    <3>3. counts' = counts /\ (locks' = locks \/ locks' = Released(e))
      BY <2>7 DEF Check, Sign, Mark, Audit, Refuse, Break, Die
    <3> QED BY <3>1, <3>2, <3>3, LeavingKeepsLimit DEF Step
  <2> QED BY <1>5, <2>2, <2>3, <2>4, <2>5, <2>6, <2>7 DEF Proceed
<1> QED BY <1>2, <1>3, <1>4, <1>5 DEF Next

\* Over PostgreSQL no minute has more exchanges than the limit of any of their
\* buckets (reserve in postgres-store.ts).
THEOREM LimitIsKept == ASSUME Store = "postgres" PROVE Spec => []WithinLimit
<1>1. LimitInv => WithinLimit
  BY DEF LimitInv, RowsCount, WithinLimit
<1>2. Init => LimitInv
  BY LimitInit
<1>3. LimitInv /\ ShapeInv /\ [Next]_vars => LimitInv'
  BY LimitNext
<1> QED BY <1>1, <1>2, <1>3, ShapeInvariance, PTL DEF Spec
=============================================================================
