---------------------- MODULE MutationCoordinatorProofs ----------------------
(***************************************************************************)
(* Safety of the runtime mutation coordinator for any finite set of calls: *)
(* its type, the exclusion of writers, the queue, no lost wake-up, no      *)
(* overtaking, the fatal fence, and that it implements ReadWriteLock.      *)
(***************************************************************************)
EXTENDS MutationCoordinator, FiniteSetTheorems, SequenceTheorems, TLAPS

\* The inductive invariant.  Exclusion alone is not inductive: a grant counts
\* the waiters, so the queue must hold distinct waiting calls, and it may
\* only be granted when the lock is free, which is what NoLostWakeup says.
IInv == TypeOK /\ Exclusion /\ QueueOK /\ NoLostWakeup

\* Every part of the state is a subset of Calls and hence finite.
LEMMA CallSetsFinite ==
    ASSUME NEW S, S \subseteq Calls
    PROVE  IsFiniteSet(S) /\ Cardinality(S) \in Nat /\ (Cardinality(S) = 0 <=> S = {})
BY CallsAssumption, FS_Subset, FS_CardinalityType, FS_EmptySet

\* Disjoint sets of calls add up.
LEMMA DisjointCount ==
    ASSUME NEW S, S \subseteq Calls, NEW T, T \subseteq Calls, S \cap T = {}
    PROVE  Cardinality(S \cup T) = Cardinality(S) + Cardinality(T)
<1>1. IsFiniteSet(S) /\ IsFiniteSet(T) /\ Cardinality(S) \in Nat /\ Cardinality(T) \in Nat
  BY CallSetsFinite
<1>2. Cardinality(S \cap T) = 0
  BY FS_EmptySet
<1>3. Cardinality(S \cup T) = Cardinality(S) + Cardinality(T) - Cardinality(S \cap T)
  BY <1>1, FS_Union
<1> QED BY <1>1, <1>2, <1>3

\* An idle coordinator satisfies the invariant.
LEMMA InitInv == Init => IInv
<1> SUFFICES ASSUME Init PROVE IInv
  OBVIOUS
<1>1. TypeOK
  <2>1. <<>> \in Seq(Calls)
    OBVIOUS
  <2> QED BY <2>1 DEF Init, TypeOK, Phases, Modes, Outcomes
<1>2. Readers = {} /\ Writers = {}
  BY DEF Init, Readers, Writers, Holding
<1>3. Exclusion
  BY <1>2, FS_EmptySet DEF Exclusion, Init
<1> QED BY <1>1, <1>3 DEF IInv, Init, QueueOK, NoLostWakeup

\* A step that leaves the lock and the queue alone and moves only calls that
\* keep holding, or keep standing aside, keeps the invariant.
LEMMA QuietStep ==
    ASSUME IInv, TypeOK',
           UNCHANGED <<activeReaders, activeWriter, waiters, mode>>,
           fatal' = fatal,
           \A c \in Calls : Holding(c)' = Holding(c)
                            /\ (phase'[c] = "waiting") = (phase[c] = "waiting")
    PROVE  IInv'
<1>1. Readers' = Readers /\ Writers' = Writers
  BY DEF Readers, Writers
<1>2. Exclusion'
  BY <1>1 DEF IInv, Exclusion
<1>3. QueueOK'
  BY DEF IInv, QueueOK
<1>4. NoLostWakeup'
  BY DEF IInv, NoLostWakeup
<1> QED BY <1>2, <1>3, <1>4 DEF IInv

\* A call that acquires at once was alone or joins readers only, and nobody
\* was waiting (acquire).
LEMMA ImmediateStep ==
    ASSUME IInv, NEW c \in Calls, NEW m \in Modes, CallImmediate(c, m)
    PROVE  IInv'
<1> USE DEF IInv
<1>1. TypeOK'
  BY DEF TypeOK, CallImmediate, Phases, Modes, Outcomes
<1>2. ~Holding(c) /\ Holding(c)' /\ mode'[c] = m
  BY DEF TypeOK, CallImmediate, Fresh, Holding
<1>3. \A d \in Calls \ {c} : Holding(d)' = Holding(d) /\ mode'[d] = mode[d]
  BY DEF TypeOK, CallImmediate, Holding
<1>4. Writers = {}
  BY DEF Exclusion, CallImmediate, CanAcquireImmediately
<1>5. Exclusion'
  <2>1. CASE m = "reader"
    <3>1. Readers' = Readers \cup {c} /\ Writers' = {} /\ c \notin Readers
      BY <1>2, <1>3, <1>4, <2>1 DEF Readers, Writers
    <3>2. Readers \subseteq Calls
      BY DEF Readers
    <3>3. Cardinality(Readers') = Cardinality(Readers) + 1
      BY <3>1, <3>2, CallSetsFinite, FS_AddElement
    <3> QED BY <2>1, <3>1, <3>3, <1>4 DEF Exclusion, CallImmediate, CanAcquireImmediately
  <2>2. CASE m = "writer"
    <3>1. Readers = {}
      <4>1. Cardinality(Readers) = 0
        BY <2>2 DEF Exclusion, CallImmediate, CanAcquireImmediately
      <4> QED BY <4>1, CallSetsFinite DEF Readers
    <3>2. Readers' = {} /\ Writers' = {c}
      BY <1>2, <1>3, <1>4, <2>2, <3>1 DEF Readers, Writers
    <3>3. \A d \in Calls : Holding(d)' => d = c
      BY <3>2, <1>1 DEF Readers, Writers, TypeOK, Modes
    <3>4. Cardinality(Readers') = 0
      BY <3>2, FS_EmptySet
    <3>5. activeReaders' = 0 /\ activeWriter'
      BY <2>2 DEF CallImmediate, CanAcquireImmediately
    <3> QED BY <3>2, <3>3, <3>4, <3>5 DEF Exclusion
  <2> QED BY <2>1, <2>2 DEF Modes
<1>6. QueueOK'
  BY DEF QueueOK, CallImmediate, CanAcquireImmediately, Fresh, TypeOK
<1>7. NoLostWakeup'
  BY DEF NoLostWakeup, CallImmediate, CanAcquireImmediately
<1> QED BY <1>1, <1>5, <1>6, <1>7

\* A call that has to wait is appended to the queue (acquire).
LEMMA QueuedStep ==
    ASSUME IInv, NEW c \in Calls, NEW m \in Modes, CallQueued(c, m)
    PROVE  IInv'
<1> USE DEF IInv
<1>1. TypeOK'
  BY AppendProperties DEF TypeOK, CallQueued, Phases, Modes, Outcomes
<1>2. ~Holding(c) /\ ~Holding(c)' /\ phase[c] = "idle" /\ phase'[c] = "waiting" /\ mode'[c] = m
  BY DEF TypeOK, CallQueued, Fresh, Holding
<1>3. \A d \in Calls \ {c} : Holding(d)' = Holding(d) /\ mode'[d] = mode[d]
                             /\ phase'[d] = phase[d]
  BY DEF TypeOK, CallQueued, Holding
<1>4. Readers' = Readers /\ Writers' = Writers
  BY <1>2, <1>3 DEF Readers, Writers
<1>5. Exclusion'
  BY <1>2, <1>3, <1>4 DEF Exclusion, CallQueued, Writers
<1>6. /\ waiters \in Seq(Calls)
      /\ Len(waiters') = Len(waiters) + 1
      /\ \A i \in 1..Len(waiters) : waiters'[i] = waiters[i]
      /\ waiters'[Len(waiters) + 1] = c
  BY AppendProperties DEF TypeOK, CallQueued
<1>7. \A i \in 1..Len(waiters) : waiters[i] # c /\ waiters[i] \in Calls
  BY <1>2, <1>6 DEF QueueOK
<1>8. QueueOK'
  <2>1. \A i, j \in 1..Len(waiters') : waiters'[i] = waiters'[j] => i = j
    BY <1>6, <1>7 DEF QueueOK
  <2>2. \A d \in Calls :
          phase'[d] = "waiting" <=> \E i \in 1..Len(waiters') : waiters'[i] = d
    BY <1>2, <1>3, <1>6, <1>7 DEF QueueOK
  <2> QED BY <2>1, <2>2 DEF QueueOK
<1>9. NoLostWakeup'
  <2>1. CASE waiters = <<>>
    <3>1. Head(waiters') = c
      BY <2>1, <1>6 DEF TypeOK, CallQueued
    <3> QED BY <1>2, <2>1, <3>1 DEF NoLostWakeup, CallQueued, CanAcquireImmediately,
                                   TypeOK, Modes
  <2>2. CASE waiters # <<>>
    <3>1. Head(waiters') = Head(waiters) /\ Head(waiters) = waiters[1] /\ 1 \in 1..Len(waiters)
      BY <2>2, <1>6 DEF CallQueued
    <3>2. mode'[Head(waiters)] = mode[Head(waiters)]
      BY <3>1, <1>7, <1>3
    <3> QED BY <2>2, <3>1, <3>2 DEF NoLostWakeup, CallQueued
  <2> QED BY <2>1, <2>2
<1> QED BY <1>1, <1>5, <1>8, <1>9

\* The waiters granted by a release are waiting calls, not holders.
LEMMA GrantedWait ==
    ASSUME IInv, NEW k \in 0..Len(waiters)
    PROVE  /\ FirstWaiters(k) \subseteq Calls
           /\ \A d \in FirstWaiters(k) : phase[d] = "waiting" /\ ~Holding(d)
BY DEF IInv, TypeOK, QueueOK, FirstWaiters, Holding

\* Whoever leaves grants the head writer or the leading readers, once the
\* counters allow it (releaseLock, drain).
LEMMA ReleaseStep ==
    ASSUME IInv, NEW c \in Calls, phase[c] \in {"granted", "running"},
           NEW r \in Outcomes, Release(c, r)
    PROVE  IInv'
<1> USE DEF IInv
<1> DEFINE readersLeft == IF mode[c] = "reader" THEN activeReaders - 1 ELSE activeReaders
           writerLeft  == activeWriter /\ mode[c] # "writer"
<1>1. Holding(c)
  BY DEF Holding
<1>2. PICK k \in 0..Len(waiters) :
        /\ IF fatal THEN k = 0 ELSE GrantRun(k, readersLeft, writerLeft, waiters)
        /\ activeReaders' = readersLeft
             + Cardinality({d \in FirstWaiters(k) : mode[d] = "reader"})
        /\ activeWriter' = (writerLeft \/ \E d \in FirstWaiters(k) : mode[d] = "writer")
        /\ waiters' = SubSeq(waiters, k + 1, Len(waiters))
        /\ phase' = [d \in Calls |-> IF d = c THEN "idle"
                                     ELSE IF d \in FirstWaiters(k) THEN "granted"
                                     ELSE phase[d]]
        /\ outcome' = [outcome EXCEPT ![c] = r]
        /\ UNCHANGED <<fatal, mode, parent>>
  BY DEF Release
<1> DEFINE newReaders == {d \in FirstWaiters(k) : mode[d] = "reader"}
           newWriters == {d \in FirstWaiters(k) : mode[d] = "writer"}
<1>3. /\ FirstWaiters(k) \subseteq Calls
      /\ \A d \in FirstWaiters(k) : phase[d] = "waiting" /\ ~Holding(d)
      /\ c \notin FirstWaiters(k)
  BY <1>1, GrantedWait
<1>4. /\ newReaders \subseteq Calls /\ newWriters \subseteq Calls
      /\ Cardinality(newReaders) \in Nat /\ (Cardinality(newReaders) = 0 <=> newReaders = {})
  BY <1>3, CallSetsFinite
<1>5. Readers \subseteq Calls /\ Cardinality(Readers) \in Nat
  BY CallSetsFinite DEF Readers
<1>6. waiters \in Seq(Calls) /\ Len(waiters) \in Nat
  BY DEF TypeOK
\* Who is left once c is out.
<1>7. readersLeft = Cardinality(Readers \ {c}) /\ readersLeft \in Nat
  <2>1. IsFiniteSet(Readers)
    BY <1>5, CallSetsFinite
  <2>2. Cardinality(Readers \ {c}) = IF c \in Readers THEN Cardinality(Readers) - 1
                                     ELSE Cardinality(Readers)
    BY <2>1, FS_RemoveElement
  <2>3. c \in Readers <=> mode[c] = "reader"
    BY <1>1 DEF Readers
  <2>4. Cardinality(Readers \ {c}) \in Nat
    BY <1>5, CallSetsFinite, Readers \ {c} \subseteq Calls
  <2> QED BY <2>2, <2>3, <2>4 DEF Exclusion
<1>8. ~writerLeft /\ Writers \ {c} = {}
  BY <1>1 DEF Exclusion, Writers
<1>9. /\ \A d \in Calls : Holding(d)' <=> (d # c /\ (Holding(d) \/ d \in FirstWaiters(k)))
      /\ Readers' = (Readers \ {c}) \cup newReaders
      /\ Writers' = newWriters
  <2>1. \A d \in Calls : Holding(d)' <=> (d # c /\ (Holding(d) \/ d \in FirstWaiters(k)))
    BY <1>2, <1>3 DEF Holding
  <2> QED BY <2>1, <1>2, <1>3, <1>8 DEF Readers, Writers
\* What drain grants fits the lock.
<1>10. \/ newWriters = {}
       \/ \E d \in Calls : newWriters = {d} /\ newReaders = {} /\ readersLeft = 0
  <2>1. CASE fatal
    <3>1. FirstWaiters(k) = {}
      BY <1>2, <2>1 DEF FirstWaiters
    <3> QED BY <3>1
  <2>2. CASE ~fatal
    <3>1. GrantRun(k, readersLeft, writerLeft, waiters)
      BY <1>2, <2>2
    <3>2. CASE waiters = <<>>
      <4>1. k = 0
        BY <3>1, <3>2 DEF GrantRun
      <4> QED BY <4>1 DEF FirstWaiters
    <3>3. CASE waiters # <<>> /\ readersLeft = 0 /\ mode[Head(waiters)] = "writer"
      <4>1. k = 1 /\ Head(waiters) = waiters[1] /\ waiters[1] \in Calls
        BY <1>6, <1>8, <3>1, <3>3 DEF GrantRun
      <4>2. FirstWaiters(k) = {waiters[1]}
        BY <4>1 DEF FirstWaiters
      <4>3. newWriters = {waiters[1]} /\ newReaders = {}
        BY <4>1, <4>2, <3>3
      <4> QED BY <4>1, <4>3, <3>3
    <3>4. CASE waiters # <<>> /\ ~(readersLeft = 0 /\ mode[Head(waiters)] = "writer")
      <4>1. \A i \in 1..k : mode[waiters[i]] = "reader"
        BY <1>8, <3>1, <3>4 DEF GrantRun
      <4> QED BY <4>1 DEF FirstWaiters
    <3> QED BY <3>2, <3>3, <3>4
  <2> QED BY <2>1, <2>2
<1>11. TypeOK'
  <2>1. activeReaders' \in Nat
    BY <1>2, <1>4, <1>7
  <2>2. waiters' \in Seq(Calls)
    BY <1>2, <1>6, SubSeqProperties
  <2>3. phase' \in [Calls -> Phases]
    BY <1>2 DEF TypeOK, Phases
  <2> QED BY <1>2, <1>8, <2>1, <2>2, <2>3 DEF TypeOK
<1>12. Exclusion'
  <2>1. (Readers \ {c}) \cap newReaders = {}
    BY <1>3 DEF Readers
  <2>2. Cardinality(Readers') = Cardinality(Readers \ {c}) + Cardinality(newReaders)
    BY <2>1, <1>4, <1>5, <1>9, DisjointCount
  <2>3. activeReaders' = Cardinality(Readers')
    BY <2>2, <1>2, <1>7
  <2>4. activeWriter' <=> Writers' # {}
    BY <1>2, <1>8, <1>9
  <2>5. \A e \in Writers', d \in Calls : Holding(d)' => e = d
    <3>1. CASE newWriters = {}
      BY <3>1, <1>9
    <3>2. CASE \E d \in Calls : newWriters = {d} /\ newReaders = {} /\ readersLeft = 0
      <4>1. Readers \ {c} = {}
        BY <1>5, <1>7, <3>2, CallSetsFinite, Readers \ {c} \subseteq Calls
      <4>2. Readers' = {} /\ \E d \in Calls : Writers' = {d}
        BY <4>1, <1>9, <3>2
      <4>3. \A d \in Calls : Holding(d)' => d \in Readers' \cup Writers'
        BY <1>11 DEF Readers, Writers, TypeOK, Modes
      <4> QED BY <4>2, <4>3
    <3> QED BY <3>1, <3>2, <1>10
  <2> QED BY <2>3, <2>4, <2>5 DEF Exclusion
\* The rest of the queue is the old queue from position k + 1 on.
<1>13. /\ Len(waiters') = Len(waiters) - k
       /\ \A i \in 1..Len(waiters') : waiters'[i] = waiters[i + k]
  BY <1>2, <1>6, SubSeqProperties
<1>14. QueueOK'
  <2>1. \A i, j \in 1..Len(waiters') : waiters'[i] = waiters'[j] => i = j
    <3> SUFFICES ASSUME NEW i \in 1..Len(waiters'), NEW j \in 1..Len(waiters'),
                        waiters'[i] = waiters'[j]
                 PROVE  i = j
      OBVIOUS
    <3>1. waiters[i + k] = waiters[j + k] /\ i + k \in 1..Len(waiters) /\ j + k \in 1..Len(waiters)
      BY <1>6, <1>13
    <3>2. i + k = j + k
      BY <3>1 DEF QueueOK
    <3> QED BY <3>2
  <2>2. ASSUME NEW d \in Calls
        PROVE  phase'[d] = "waiting" <=> \E i \in 1..Len(waiters') : waiters'[i] = d
    <3>1. ASSUME phase'[d] = "waiting"
          PROVE  \E i \in 1..Len(waiters') : waiters'[i] = d
      <4>1. phase[d] = "waiting" /\ d \notin FirstWaiters(k)
        BY <3>1, <1>2
      <4>2. PICK j \in 1..Len(waiters) : waiters[j] = d
        BY <4>1 DEF QueueOK
      <4>3. j > k
        BY <4>1, <4>2, <1>6 DEF FirstWaiters
      <4>4. j - k \in 1..Len(waiters') /\ waiters'[j - k] = d
        BY <4>2, <4>3, <1>6, <1>13
      <4> QED BY <4>4
    <3>2. ASSUME NEW i \in 1..Len(waiters'), waiters'[i] = d
          PROVE  phase'[d] = "waiting"
      <4>1. waiters[i + k] = d /\ i + k \in 1..Len(waiters) /\ i + k > k
        BY <3>2, <1>6, <1>13
      <4>2. phase[d] = "waiting" /\ d # c
        BY <4>1, <1>1 DEF QueueOK, Holding
      <4>3. d \notin FirstWaiters(k)
        <5> SUFFICES ASSUME NEW j \in 1..k, waiters[j] = d PROVE FALSE
          BY DEF FirstWaiters
        <5>1. j = i + k
          BY <4>1, <1>6 DEF QueueOK
        <5> QED BY <5>1, <4>1
      <4> QED BY <4>2, <4>3, <1>2
    <3> QED BY <3>1, <3>2
  <2> QED BY <2>1, <2>2 DEF QueueOK
<1>15. NoLostWakeup'
  <2> SUFFICES ASSUME waiters' # <<>>
               PROVE  /\ ~fatal'
                      /\ activeWriter' \/ activeReaders' > 0
                      /\ ~activeWriter' => mode'[Head(waiters')] = "writer"
    BY DEF NoLostWakeup
  <2>1. /\ k < Len(waiters) /\ waiters # <<>>
        /\ Head(waiters') = waiters[k + 1]
    <3>1. waiters' \in Seq(Calls) /\ Len(waiters') > 0
      BY <1>11 DEF TypeOK
    <3> QED BY <3>1, <1>6, <1>13
  <2>2. ~fatal
    BY <2>1 DEF NoLostWakeup
  <2>3. GrantRun(k, readersLeft, writerLeft, waiters)
    BY <1>2, <2>2
  <2>4. CASE readersLeft = 0 /\ mode[Head(waiters)] = "writer"
    <3>1. k = 1 /\ Head(waiters) = waiters[1]
      BY <1>6, <1>8, <2>1, <2>3, <2>4 DEF GrantRun
    <3>2. Head(waiters) \in FirstWaiters(k)
      BY <3>1 DEF FirstWaiters
    <3>3. activeWriter'
      BY <3>2, <1>2, <2>4
    <3> QED BY <3>3, <2>2, <1>2
  <2>5. CASE ~(readersLeft = 0 /\ mode[Head(waiters)] = "writer")
    <3>1. mode[waiters[k + 1]] = "writer"
      BY <1>8, <2>1, <2>3, <2>5 DEF GrantRun
    <3>2. activeReaders' > 0
      <4>1. CASE readersLeft > 0
        BY <4>1, <1>2, <1>4, <1>7
      <4>2. CASE readersLeft = 0
        <5>1. k > 0 /\ mode[waiters[1]] = "reader"
          BY <4>2, <3>1, <2>5, <2>1, <1>6, <1>8, <2>3 DEF GrantRun
        <5>2. waiters[1] \in newReaders
          BY <5>1 DEF FirstWaiters
        <5> QED BY <5>2, <4>2, <1>2, <1>4
      <4>3. readersLeft = 0 \/ readersLeft > 0
        <5> HIDE DEF readersLeft
        <5> QED BY <1>7
      <4> QED BY <4>1, <4>2, <4>3
    <3> QED BY <3>1, <3>2, <2>1, <2>2, <1>2
  <2> QED BY <2>4, <2>5
<1> QED BY <1>11, <1>12, <1>14, <1>15

\* The fatal error empties the queue and keeps the holders (tripFatal).
LEMMA TripFatalStep ==
    ASSUME IInv, NEW c \in Calls, TripFatal(c)
    PROVE  IInv'
<1> USE DEF IInv
<1>1. TypeOK'
  <2>1. <<>> \in Seq(Calls)
    OBVIOUS
  <2> QED BY <2>1 DEF TypeOK, TripFatal, Phases, Outcomes
<1>2. Readers' = Readers /\ Writers' = Writers /\ \A d \in Calls : Holding(d)' = Holding(d)
  BY DEF Readers, Writers, Holding, TripFatal
<1>3. Exclusion'
  BY <1>2 DEF Exclusion, TripFatal
<1>4. QueueOK'
  BY DEF QueueOK, TripFatal
<1>5. NoLostWakeup'
  BY DEF NoLostWakeup, TripFatal
<1> QED BY <1>1, <1>3, <1>4, <1>5

\* The invariant is inductive: one case per action.
LEMMA NextInv == IInv /\ [Next]_vars => IInv'
<1> SUFFICES ASSUME IInv, [Next]_vars PROVE IInv'
  OBVIOUS
<1>0. TypeOK
  BY DEF IInv
<1>1. CASE UNCHANGED vars
  BY <1>1 DEF vars, IInv, TypeOK, Exclusion, QueueOK, NoLostWakeup, Readers, Writers, Holding
<1>2. ASSUME NEW c \in Calls, CallRejectedFatal(c) PROVE IInv'
  <2>1. TypeOK'
    BY <1>0, <1>2 DEF TypeOK, CallRejectedFatal, Outcomes
  <2> QED BY <2>1, <1>2, QuietStep DEF CallRejectedFatal, Holding
<1>3. ASSUME NEW c \in Calls, NEW p \in Calls, CallNested(p, c) PROVE IInv'
  <2>1. TypeOK'
    BY <1>0, <1>3 DEF TypeOK, CallNested, Outcomes, Phases
  <2> QED BY <2>1, <1>0, <1>3, QuietStep DEF CallNested, Holding, TypeOK
<1>4. ASSUME NEW c \in Calls, NEW p \in Calls, ResumeNested(p, c) PROVE IInv'
  <2>1. TypeOK'
    BY <1>0, <1>4 DEF TypeOK, ResumeNested, Phases
  <2> QED BY <2>1, <1>0, <1>4, QuietStep DEF ResumeNested, Holding, TypeOK
<1>5. ASSUME NEW c \in Calls, StartOperation(c) PROVE IInv'
  <2>1. TypeOK'
    BY <1>0, <1>5 DEF TypeOK, StartOperation, Phases
  <2> QED BY <2>1, <1>0, <1>5, QuietStep DEF StartOperation, Holding, TypeOK
<1>6. ASSUME NEW c \in Calls, AbandonGrant(c) PROVE IInv'
  <2>1. phase[c] \in {"granted", "running"} /\ Release(c, "fatal") /\ "fatal" \in Outcomes
    BY <1>6 DEF AbandonGrant, Outcomes
  <2> QED BY <2>1, ReleaseStep
<1>7. ASSUME NEW c \in Calls, Finish(c) PROVE IInv'
  <2>1. PICK r \in {"ok", "error"} : Release(c, IF fatal THEN "fatal" ELSE r)
    BY <1>7 DEF Finish
  <2>2. (IF fatal THEN "fatal" ELSE r) \in Outcomes /\ phase[c] \in {"granted", "running"}
    BY <1>7 DEF Finish, Outcomes
  <2> QED BY <2>1, <2>2, ReleaseStep
<1>8. ASSUME NEW c \in Calls, TripFatal(c) PROVE IInv'
  BY <1>8, TripFatalStep
<1>9. ASSUME NEW c \in Calls, NEW m \in Modes, CallImmediate(c, m) \/ CallQueued(c, m)
      PROVE  IInv'
  BY <1>9, ImmediateStep, QueuedStep
<1> QED BY <1>1, <1>2, <1>3, <1>4, <1>5, <1>6, <1>7, <1>8, <1>9 DEF Next

\* The strengthened invariant holds in every reachable state of acquire,
\* releaseLock, drain and tripFatal.
THEOREM Invariance == Spec => []IInv
<1> QED BY InitInv, NextInv, PTL DEF Spec

\* The coordinator's state always has its type.
THEOREM TypeCorrect == Spec => []TypeOK
<1>1. IInv => TypeOK
  BY DEF IInv
<1> QED BY <1>1, Invariance, PTL

\* withMutation runs alone, and the counters agree with the holders
\* (acquire, grantReader, releaseLock, drain).
THEOREM WriterExcludesAll == Spec => []Exclusion
<1>1. IInv => Exclusion
  BY DEF IInv
<1> QED BY <1>1, Invariance, PTL

\* A waiter is in the queue exactly once, and the queue is never left behind
\* when the lock could be granted (drain).
THEOREM WaitersAreWoken == Spec => [](QueueOK /\ NoLostWakeup)
<1>1. IInv => QueueOK /\ NoLostWakeup
  BY DEF IInv
<1> QED BY <1>1, Invariance, PTL

-----------------------------------------------------------------------------
\* A release starts no operation, settles only its own call, and grants a
\* prefix of the queue.
LEMMA ReleaseOrder ==
    ASSUME IInv, NEW c \in Calls, phase[c] \in {"granted", "running"},
           NEW r \in Outcomes, Release(c, r)
    PROVE  /\ fatal' = fatal
           /\ \A d \in Calls : phase'[d] = "running" => phase[d] = "running"
           /\ outcome' = [outcome EXCEPT ![c] = r]
           /\ \A d \in Calls : phase[d] = "idle" => phase'[d] = "idle"
           /\ \A i, j \in 1..Len(waiters) :
                (i < j /\ phase'[waiters[j]] = "granted") => phase'[waiters[i]] = "granted"
<1> USE DEF IInv
<1>1. PICK k \in 0..Len(waiters) :
        /\ phase' = [d \in Calls |-> IF d = c THEN "idle"
                                     ELSE IF d \in FirstWaiters(k) THEN "granted"
                                     ELSE phase[d]]
        /\ outcome' = [outcome EXCEPT ![c] = r]
        /\ UNCHANGED <<fatal, mode, parent>>
  BY DEF Release
<1>2. /\ \A d \in FirstWaiters(k) : phase[d] = "waiting"
      /\ FirstWaiters(k) \subseteq Calls
  BY GrantedWait
<1>3. \A i \in 1..Len(waiters) : waiters[i] \in Calls /\ phase[waiters[i]] = "waiting"
                                 /\ waiters[i] # c
  BY DEF TypeOK, QueueOK
<1>4. ASSUME NEW i \in 1..Len(waiters), NEW j \in 1..Len(waiters),
             i < j, phase'[waiters[j]] = "granted"
      PROVE  phase'[waiters[i]] = "granted"
  <2>1. waiters[j] \in FirstWaiters(k)
    BY <1>1, <1>3, <1>4
  <2>2. PICK l \in 1..k : waiters[l] = waiters[j]
    BY <2>1 DEF FirstWaiters
  <2>3. l = j
    BY <2>2 DEF QueueOK, TypeOK
  <2>4. waiters[i] \in FirstWaiters(k)
    BY <2>3, <1>4 DEF FirstWaiters
  <2> QED BY <2>4, <1>1, <1>3
<1> QED BY <1>1, <1>2, <1>4

\* Nobody overtakes the queue (canAcquireImmediately, drain).
THEOREM QueueOrder == Spec => NoOvertaking
<1> DEFINE Fair(w, p, q) ==
      /\ \A i, j \in 1..Len(w) : (i < j /\ q[w[j]] = "granted") => q[w[i]] = "granted"
      /\ \A c \in Calls : (p[c] = "idle" /\ q[c] = "granted") => w = <<>>
<1>1. IInv /\ [Next]_vars => [Fair(waiters, phase, phase')]_vars
  <2> SUFFICES ASSUME IInv, Next PROVE Fair(waiters, phase, phase')
    OBVIOUS
  <2>0. /\ TypeOK /\ \A i \in 1..Len(waiters) : waiters[i] \in Calls
                                               /\ phase[waiters[i]] = "waiting"
    BY DEF IInv, TypeOK, QueueOK
  <2>1. ASSUME NEW c \in Calls, NEW r \in Outcomes, phase[c] \in {"granted", "running"},
               Release(c, r)
        PROVE  Fair(waiters, phase, phase')
    BY <2>1, ReleaseOrder
  <2>2. ASSUME NEW c \in Calls, NEW m \in Modes, CallImmediate(c, m)
        PROVE  Fair(waiters, phase, phase')
    BY <2>0, <2>2 DEF CallImmediate, CanAcquireImmediately
  <2>3. ASSUME NEW c \in Calls, NEW m \in Modes, CallQueued(c, m)
        PROVE  Fair(waiters, phase, phase')
    BY <2>0, <2>3 DEF CallQueued, TypeOK, Fresh
  <2>4. ASSUME NEW c \in Calls, CallRejectedFatal(c) \/ StartOperation(c) \/ TripFatal(c)
        PROVE  Fair(waiters, phase, phase')
    BY <2>0, <2>4 DEF CallRejectedFatal, StartOperation, TripFatal, TypeOK
  <2>5. ASSUME NEW c \in Calls, NEW p \in Calls, CallNested(p, c) \/ ResumeNested(p, c)
        PROVE  Fair(waiters, phase, phase')
    BY <2>0, <2>5 DEF CallNested, ResumeNested, TypeOK
  <2>6. ASSUME NEW c \in Calls, AbandonGrant(c) \/ Finish(c)
        PROVE  Fair(waiters, phase, phase')
    BY <2>1, <2>6 DEF AbandonGrant, Finish, Outcomes
  <2> QED BY <2>2, <2>3, <2>4, <2>5, <2>6 DEF Next
<1>2. []IInv /\ [][Next]_vars => NoOvertaking
  BY <1>1, PTL DEF NoOvertaking
<1> QED BY <1>2, Invariance, PTL DEF Spec

\* No operation starts and no call succeeds once the fatal error is latched
\* (withLock, tripFatal).
THEOREM FatalIsFinal == Spec => FatalFence
<1> DEFINE Fence ==
      fatal => /\ fatal'
               /\ \A c \in Calls :
                    /\ phase'[c] = "running" => phase[c] \in {"running", "awaiting"}
                    /\ outcome'[c] = "ok" => outcome[c] = "ok"
<1>1. IInv /\ [Next]_vars => [Fence]_vars
  <2> SUFFICES ASSUME IInv, Next, fatal PROVE Fence
    OBVIOUS
  <2>0. TypeOK
    BY DEF IInv
  <2>1. ASSUME NEW c \in Calls, phase[c] \in {"granted", "running"}, Release(c, "fatal")
        PROVE  Fence
    BY <2>0, <2>1, ReleaseOrder DEF Outcomes, TypeOK
  <2>2. ASSUME NEW c \in Calls, CallRejectedFatal(c) \/ StartOperation(c) \/ TripFatal(c)
        PROVE  Fence
    BY <2>0, <2>2 DEF CallRejectedFatal, StartOperation, TripFatal, TypeOK
  <2>3. ASSUME NEW c \in Calls, NEW p \in Calls, CallNested(p, c) \/ ResumeNested(p, c)
        PROVE  Fence
    BY <2>0, <2>3 DEF CallNested, ResumeNested, TypeOK
  <2>4. ASSUME NEW c \in Calls, AbandonGrant(c) \/ Finish(c)
        PROVE  Fence
    BY <2>1, <2>4 DEF AbandonGrant, Finish
  <2>5. \A c \in Calls, m \in Modes : ~CallImmediate(c, m) /\ ~CallQueued(c, m)
    BY DEF CallImmediate, CallQueued
  <2> QED BY <2>2, <2>3, <2>4, <2>5 DEF Next
<1>2. []IInv /\ [][Next]_vars => FatalFence
  BY <1>1, PTL DEF FatalFence
<1> QED BY <1>2, Invariance, PTL DEF Spec

-----------------------------------------------------------------------------
\* A step that keeps every call where it is in the lock is a stutter there.
LEMMA StutterStep ==
    ASSUME IInv, fatal' = fatal,
           \A c \in Calls : Holding(c)' = Holding(c) /\ (Holding(c) => mode'[c] = mode[c])
    PROVE  UNCHANGED Lock!lockVars
BY DEF Lock!lockVars, insideMap

\* The holders are compatible in the sense of the abstract lock.
LEMMA HoldersCompatible == IInv => Lock!Compatible(insideMap)
BY DEF IInv, Exclusion, Writers, insideMap, Lock!Compatible

\* A release is the leaving of the abstract lock.
LEMMA LeaveStep ==
    ASSUME IInv, NEW c \in Calls, phase[c] \in {"granted", "running"},
           NEW r \in Outcomes, Release(c, r)
    PROVE  Lock!Leave(c)
<1>1. IInv' /\ TypeOK /\ TypeOK'
  BY ReleaseStep DEF IInv
<1>2. PICK k \in 0..Len(waiters) :
        /\ fatal => k = 0
        /\ phase' = [d \in Calls |-> IF d = c THEN "idle"
                                     ELSE IF d \in FirstWaiters(k) THEN "granted"
                                     ELSE phase[d]]
        /\ UNCHANGED <<fatal, mode, parent>>
  BY DEF Release
<1>3. \A d \in FirstWaiters(k) : ~Holding(d) /\ ~fatal
  BY <1>2, GrantedWait DEF FirstWaiters
<1>4. Holding(c) /\ ~Holding(c)'
  BY <1>2 DEF Holding
<1>5. \A d \in Calls \ {c} : Holding(d)' <=> (Holding(d) \/ d \in FirstWaiters(k))
  BY <1>2 DEF Holding
<1>6. \A d \in Calls \ {c} :
        insideMap'[d] # insideMap[d] => insideMap[d] = "out" /\ ~fatal
  BY <1>2, <1>3, <1>5 DEF insideMap
<1>7. insideMap' \in [Calls -> {"out", "reader", "writer"}]
  BY <1>1 DEF insideMap, TypeOK, Modes
<1>8. insideMap[c] # "out" /\ insideMap'[c] = "out"
  BY <1>1, <1>4 DEF insideMap, TypeOK, Modes
<1>9. Lock!Compatible(insideMap')
  BY <1>1 DEF IInv, Exclusion, Writers, insideMap, Lock!Compatible
<1> QED BY <1>2, <1>6, <1>7, <1>8, <1>9 DEF Lock!Leave

\* Every behaviour of the coordinator is one of the abstract lock.
THEOREM CoordinatorImplementsLock == Spec => ImplementsLock
<1>1. Init => Lock!Init
  BY DEF Init, Lock!Init, insideMap, Holding
<1>2. IInv /\ [Next]_vars => [Lock!Next]_(Lock!lockVars)
  <2> SUFFICES ASSUME IInv, [Next]_vars
               PROVE  Lock!Next \/ UNCHANGED Lock!lockVars
    OBVIOUS
  <2>0. TypeOK
    BY DEF IInv
  <2>1. CASE UNCHANGED vars
    BY <2>1 DEF vars, Lock!lockVars, insideMap, Holding
  <2>2. ASSUME NEW c \in Calls,
               \/ CallRejectedFatal(c)
               \/ StartOperation(c)
               \/ \E m \in Modes : CallQueued(c, m)
               \/ \E p \in Calls : CallNested(p, c) \/ ResumeNested(p, c)
        PROVE  UNCHANGED Lock!lockVars
    <3>1. fatal' = fatal
      BY <2>2 DEF CallRejectedFatal, StartOperation, CallQueued, CallNested, ResumeNested
    <3>2. ASSUME NEW d \in Calls
          PROVE  Holding(d)' = Holding(d) /\ (Holding(d) => mode'[d] = mode[d])
      <4>1. CASE CallRejectedFatal(c) \/ StartOperation(c)
        BY <2>0, <4>1 DEF CallRejectedFatal, StartOperation, Holding, TypeOK
      <4>2. CASE \E m \in Modes : CallQueued(c, m)
        BY <2>0, <4>2 DEF CallQueued, Fresh, Holding, TypeOK
      <4>3. CASE \E p \in Calls : CallNested(p, c) \/ ResumeNested(p, c)
        BY <2>0, <4>3 DEF CallNested, ResumeNested, Holding, TypeOK
      <4> QED BY <2>2, <4>1, <4>2, <4>3
    <3> QED BY <3>1, <3>2, StutterStep
  <2>3. ASSUME NEW c \in Calls, NEW m \in Modes, CallImmediate(c, m)
        PROVE  Lock!Enter(c)
    <3>1. IInv'
      BY <2>3, ImmediateStep
    <3>2. insideMap' = [insideMap EXCEPT ![c] = m] /\ insideMap[c] = "out"
      BY <2>0, <2>3 DEF CallImmediate, Fresh, insideMap, Holding, TypeOK
    <3>3. Lock!Compatible(insideMap')
      BY <3>1 DEF IInv, Exclusion, Writers, insideMap, Lock!Compatible
    <3> QED BY <2>3, <3>2, <3>3 DEF Lock!Enter, CallImmediate, Modes
  <2>4. ASSUME NEW c \in Calls, AbandonGrant(c) \/ Finish(c)
        PROVE  Lock!Leave(c)
    BY <2>4, LeaveStep DEF AbandonGrant, Finish, Outcomes
  <2>5. ASSUME NEW c \in Calls, TripFatal(c)
        PROVE  Lock!Close
    BY <2>0, <2>5 DEF TripFatal, Lock!Close, insideMap, Holding, TypeOK
  <2> QED BY <2>1, <2>2, <2>3, <2>4, <2>5 DEF Next, Lock!Next
<1> QED BY <1>1, <1>2, Invariance, PTL DEF Spec, ImplementsLock, Lock!Spec
=============================================================================
