------------------------ MODULE ThreadDispatcherProofs ------------------------
(***************************************************************************)
(* Theorems about ThreadDispatcher, for every number of runs, workers and  *)
(* dispatches and every capacity of the histories.                         *)
(***************************************************************************)
EXTENDS ThreadDispatcher, SequenceTheorems, FiniteSetTheorems, TLAPS

-----------------------------------------------------------------------------
(* Sequences.                                                              *)

(* No member occurs twice.                                                 *)
Distinct(s) == \A i, j \in 1..Len(s) : s[i] = s[j] => i = j

LEMMA AppendMembers ==
  ASSUME NEW S, NEW s \in Seq(S), NEW e \in S
  PROVE  /\ Append(s, e) \in Seq(S) /\ Len(Append(s, e)) = Len(s) + 1
         /\ \A x : Contains(Append(s, e), x) <=> Contains(s, x) \/ x = e
         /\ Distinct(s) /\ ~Contains(s, e) => Distinct(Append(s, e))
<1>1. Append(s, e) \in Seq(S) /\ Len(Append(s, e)) = Len(s) + 1
  BY AppendProperties
<1>2. /\ \A i \in 1..Len(s) : Append(s, e)[i] = s[i]
      /\ Append(s, e)[Len(s) + 1] = e
      /\ Len(s) \in Nat
  BY AppendProperties, LenProperties
<1>3. \A x : Contains(Append(s, e), x) <=> Contains(s, x) \/ x = e
  BY <1>1, <1>2 DEF Contains
<1>4. Distinct(s) /\ ~Contains(s, e) => Distinct(Append(s, e))
  BY <1>1, <1>2 DEF Contains, Distinct
<1> QED
  BY <1>1, <1>3, <1>4

LEMMA TailMembers ==
  ASSUME NEW S, NEW s \in Seq(S), s # <<>>
  PROVE  /\ Head(s) \in S /\ Contains(s, Head(s))
         /\ Tail(s) \in Seq(S) /\ Len(Tail(s)) = Len(s) - 1
         /\ \A x : Contains(s, x) <=> Contains(Tail(s), x) \/ x = Head(s)
         /\ Distinct(s) => Distinct(Tail(s)) /\ ~Contains(Tail(s), Head(s))
<1>1. /\ Head(s) \in S
      /\ Tail(s) \in Seq(S) /\ Len(Tail(s)) = Len(s) - 1
      /\ \A i \in 1..Len(Tail(s)) : Tail(s)[i] = s[i + 1]
  BY HeadTailProperties
<1>2. Len(s) \in Nat \ {0} /\ Head(s) = s[1]
  BY EmptySeq
<1>3. \A x : Contains(s, x) <=> Contains(Tail(s), x) \/ x = Head(s)
  <2> TAKE x
  <2>1. ASSUME Contains(s, x) PROVE Contains(Tail(s), x) \/ x = Head(s)
    <3>1. PICK i \in 1..Len(s) : s[i] = x
      BY <2>1 DEF Contains
    <3>2. CASE i = 1
      BY <3>1, <3>2, <1>2
    <3>3. CASE i # 1
      <4>1. i - 1 \in 1..Len(Tail(s)) /\ Tail(s)[i - 1] = x
        BY <3>1, <3>3, <1>1, <1>2
      <4> QED
        BY <4>1 DEF Contains
    <3> QED
      BY <3>2, <3>3
  <2>2. ASSUME Contains(Tail(s), x) PROVE Contains(s, x)
    <3>1. PICK i \in 1..Len(Tail(s)) : Tail(s)[i] = x
      BY <2>2 DEF Contains
    <3>2. i + 1 \in 1..Len(s) /\ s[i + 1] = x
      BY <3>1, <1>1, <1>2
    <3> QED
      BY <3>2 DEF Contains
  <2>3. Contains(s, Head(s))
    BY <1>2 DEF Contains
  <2> QED
    BY <2>1, <2>2, <2>3
<1>4. Distinct(s) => Distinct(Tail(s)) /\ ~Contains(Tail(s), Head(s))
  <2>1. \A i \in 1..Len(Tail(s)) : i + 1 \in 1..Len(s) /\ i + 1 # 1
    BY <1>1, <1>2
  <2> QED
    BY <2>1, <1>1, <1>2 DEF Contains, Distinct
<1> QED
  BY <1>1, <1>3, <1>4

(* A member that is taken out of a history leaves the others in place.     *)
LEMMA WithoutMembers ==
  ASSUME NEW S, NEW s \in Seq(S), NEW e
  PROVE  /\ Without(s, e) \in Seq(S)
         /\ Len(Without(s, e)) <= Len(s)
         /\ Distinct(s) =>
              /\ Distinct(Without(s, e))
              /\ \A x : Contains(Without(s, e), x) <=> Contains(s, x) /\ x # e
<1>1. CASE ~Contains(s, e)
  BY <1>1, LenProperties DEF Without
<1>2. CASE Contains(s, e)
  <2> DEFINE i == CHOOSE j \in 1..Len(s) : s[j] = e
             front == SubSeq(s, 1, i - 1)
             back == SubSeq(s, i + 1, Len(s))
  <2>1. i \in 1..Len(s) /\ s[i] = e /\ Len(s) \in Nat
    BY <1>2, LenProperties DEF Contains
  <2>2. Without(s, e) = front \o back
    BY <1>2 DEF Without
  <2>3. \A k \in 1..Len(s) : s[k] \in S
    BY ElementOfSeq
  <2> HIDE DEF i
  <2>4. /\ front \in Seq(S) /\ Len(front) = i - 1
        /\ \A k \in 1..(i - 1) : front[k] = s[k]
    <3>1. \A k \in 1..(i - 1) : s[k] \in S
      BY <2>1, <2>3
    <3>2. /\ front \in Seq(S) /\ Len(front) = IF 1 <= i - 1 THEN i - 1 - 1 + 1 ELSE 0
          /\ \A k \in 1..(i - 1 - 1 + 1) : front[k] = s[1 + k - 1]
      BY <2>1, <3>1, SubSeqProperties
    <3> QED
      BY <2>1, <3>2
  <2>5. /\ back \in Seq(S) /\ Len(back) = Len(s) - i
        /\ \A k \in 1..(Len(s) - i) : back[k] = s[i + k]
    <3>1. \A k \in (i + 1)..Len(s) : s[k] \in S
      BY <2>1, <2>3
    <3>2. /\ back \in Seq(S)
          /\ Len(back) = IF i + 1 <= Len(s) THEN Len(s) - (i + 1) + 1 ELSE 0
          /\ \A k \in 1..(Len(s) - (i + 1) + 1) : back[k] = s[(i + 1) + k - 1]
      BY <2>1, <3>1, SubSeqProperties
    <3> QED
      BY <2>1, <3>2
  <2> DEFINE rest == front \o back
  <2> HIDE DEF front, back
  <2>6. /\ rest \in Seq(S) /\ Len(rest) = Len(s) - 1
        /\ \A k \in 1..(Len(s) - 1) : rest[k] = IF k < i THEN s[k] ELSE s[k + 1]
    <3>1. /\ rest \in Seq(S) /\ Len(rest) = Len(front) + Len(back)
          /\ \A k \in 1..(Len(front) + Len(back)) :
               rest[k] = IF k <= Len(front) THEN front[k] ELSE back[k - Len(front)]
      BY <2>4, <2>5, ConcatProperties
    <3>2. Len(rest) = Len(s) - 1
      BY <3>1, <2>1, <2>4, <2>5
    <3>3. ASSUME NEW k \in 1..(Len(s) - 1)
          PROVE  rest[k] = IF k < i THEN s[k] ELSE s[k + 1]
      <4>1. CASE k < i
        BY <3>1, <4>1, <2>1, <2>4, <2>5
      <4>2. CASE ~(k < i)
        <5>1. rest[k] = back[k - (i - 1)] /\ k - (i - 1) \in 1..(Len(s) - i)
          BY <3>1, <4>2, <2>1, <2>4, <2>5
        <5>2. back[k - (i - 1)] = s[i + (k - (i - 1))] /\ i + (k - (i - 1)) = k + 1
          BY <5>1, <2>1, <2>5
        <5> QED
          BY <5>1, <5>2, <4>2
      <4> QED
        BY <4>1, <4>2
    <3> QED
      BY <3>1, <3>2, <3>3
  <2> HIDE DEF rest
  <2>7. ASSUME Distinct(s)
        PROVE  /\ Distinct(rest)
               /\ \A x : Contains(rest, x) <=> Contains(s, x) /\ x # e
    <3>1. Distinct(rest)
      <4> SUFFICES ASSUME NEW j \in 1..(Len(s) - 1), NEW k \in 1..(Len(s) - 1),
                          rest[j] = rest[k]
                   PROVE  j = k
        BY <2>6 DEF Distinct
      <4> QED
        BY <2>1, <2>6, <2>7 DEF Distinct
    <3>2. ASSUME NEW x, Contains(rest, x) PROVE Contains(s, x) /\ x # e
      <4>1. PICK k \in 1..(Len(s) - 1) : rest[k] = x
        BY <2>6, <3>2 DEF Contains
      <4> QED
        BY <4>1, <2>1, <2>6, <2>7 DEF Contains, Distinct
    <3>3. ASSUME NEW x, Contains(s, x), x # e PROVE Contains(rest, x)
      <4>1. PICK k \in 1..Len(s) : s[k] = x
        BY <3>3 DEF Contains
      <4>2. CASE k < i
        BY <4>1, <4>2, <2>1, <2>6 DEF Contains
      <4>3. CASE ~(k < i)
        <5>1. k - 1 \in 1..(Len(s) - 1) /\ rest[k - 1] = x
          BY <4>1, <4>3, <3>3, <2>1, <2>6
        <5> QED
          BY <5>1, <2>6 DEF Contains
      <4> QED
        BY <4>2, <4>3
    <3> QED
      BY <3>1, <3>2, <3>3
  <2>8. Without(s, e) = rest
    BY <2>2 DEF rest
  <2> QED
    BY <2>1, <2>6, <2>7, <2>8
<1> QED
  BY <1>1, <1>2

(* A history gains one member, and loses one at most.                      *)
LEMMA RememberMembers ==
  ASSUME NEW S, NEW s \in Seq(S), NEW e \in S,
         MaxRemembered \in Nat, Len(s) <= MaxRemembered
  PROVE  /\ Remember(s, e) \in Seq(S)
         /\ Len(Remember(s, e)) <= MaxRemembered
         /\ Distinct(s) =>
              /\ Distinct(Remember(s, e))
              /\ \A x : Contains(Remember(s, e), x) => Contains(s, x) \/ x = e
              /\ \A x, y : /\ Contains(s, x) /\ ~Contains(Remember(s, e), x) /\ x # e
                           /\ Contains(s, y) /\ ~Contains(Remember(s, e), y) /\ y # e
                           => x = y
<1> DEFINE rest == Without(s, e)
           all == Append(rest, e)
<1>1. /\ rest \in Seq(S) /\ Len(rest) <= Len(s) /\ Len(rest) \in Nat /\ Len(s) \in Nat
      /\ Distinct(s) => /\ Distinct(rest)
                        /\ \A x : Contains(rest, x) <=> Contains(s, x) /\ x # e
  BY WithoutMembers, LenProperties
<1>2. /\ all \in Seq(S) /\ Len(all) = Len(rest) + 1 /\ all # <<>>
      /\ \A x : Contains(all, x) <=> Contains(rest, x) \/ x = e
      /\ Distinct(rest) /\ ~Contains(rest, e) => Distinct(all)
  BY <1>1, AppendMembers, AppendProperties
<1>3. /\ Tail(all) \in Seq(S) /\ Len(Tail(all)) = Len(all) - 1
      /\ \A x : Contains(all, x) <=> Contains(Tail(all), x) \/ x = Head(all)
      /\ Distinct(all) => Distinct(Tail(all))
  BY <1>2, TailMembers
<1>4. Remember(s, e) = IF Len(all) > MaxRemembered THEN Tail(all) ELSE all
  BY DEF Remember
<1> HIDE DEF rest, all
<1>5. Remember(s, e) \in Seq(S) /\ Len(Remember(s, e)) <= MaxRemembered
  BY <1>1, <1>2, <1>3, <1>4
<1>6. ASSUME Distinct(s)
      PROVE  /\ Distinct(Remember(s, e))
             /\ \A x : Contains(Remember(s, e), x) => Contains(s, x) \/ x = e
             /\ \A x : Contains(s, x) /\ ~Contains(Remember(s, e), x) /\ x # e
                         => x = Head(all)
  BY <1>1, <1>2, <1>3, <1>4, <1>6
<1> QED
  BY <1>5, <1>6

-----------------------------------------------------------------------------
(* Types.                                                                  *)

(* A worker has a request in its hands between the queue and the release.  *)
HandOK ==
  \A w \in Workers : holding[w] = Nothing <=> worker[w] \in {"waiting", "exited"}

LEMMA PoolSize == Cardinality(Workers) \in Nat /\ Cardinality(Workers) > 0
  BY DispatcherAssumption, FS_CardinalityType, FS_EmptySet

LEMMA TypeInit == Init => TypeOK
<1> SUFFICES ASSUME Init PROVE TypeOK
  OBVIOUS
<1>1. /\ <<>> \in Seq(Runs) /\ <<>> \in Seq(Runs \cup {Sentinel})
      /\ Len(<<>>) = 0
  BY EmptySeq
<1>2. Len(completed) <= MaxRemembered /\ Len(failed) <= MaxRemembered
  BY <1>1, DispatcherAssumption DEF Init
<1>3. signals \in 0..Cardinality(Workers) /\ dispatches \in 0..MaxDispatches
  BY DispatcherAssumption, PoolSize DEF Init
<1>4. worker \in [Workers -> WorkerState] /\ holding \in [Workers -> Runs \cup {Nothing}]
  BY DEF Init, WorkerState
<1> QED
  BY <1>1, <1>2, <1>3, <1>4 DEF Init, TypeOK, Phase

LEMMA TypeStep == TypeOK /\ HandOK /\ [Next]_vars => TypeOK'
<1> SUFFICES ASSUME TypeOK, HandOK, [Next]_vars PROVE TypeOK'
  OBVIOUS
<1> USE DEF bookVars, workerVars, shutdownVars
<1>1. ASSUME NEW r \in Runs, Admit(r) PROVE TypeOK'
  <2>1. /\ completed' \in Seq(Runs) /\ Len(completed') <= Len(completed)
        /\ failed' \in Seq(Runs) /\ Len(failed') <= Len(failed)
    BY <1>1, WithoutMembers DEF TypeOK, Admit, AtAdmission
  <2>2. Len(completed') <= MaxRemembered /\ Len(failed') <= MaxRemembered
    BY <2>1, DispatcherAssumption, LenProperties DEF TypeOK
  <2>3. dispatches' \in 0..MaxDispatches
    BY <1>1, DispatcherAssumption DEF TypeOK, Admit
  <2> QED
    BY <1>1, <2>1, <2>2, <2>3 DEF TypeOK, Admit
<1>2. ASSUME NEW r \in Runs, Put(r) PROVE TypeOK'
  <2>1. queue' \in Seq(Runs \cup {Sentinel})
    BY <1>2, AppendMembers DEF TypeOK, Put
  <2> QED
    BY <1>2, <2>1 DEF TypeOK, Put
<1>3. ASSUME NEW w \in Workers, Get(w) PROVE TypeOK'
  <2>1. queue' \in Seq(Runs \cup {Sentinel}) /\ Head(queue) \in Runs \cup {Sentinel}
    BY <1>3, TailMembers DEF TypeOK, Get
  <2>2. worker' \in [Workers -> WorkerState] /\ holding' \in [Workers -> Runs \cup {Nothing}]
    BY <1>3, <2>1 DEF TypeOK, Get, Step, WorkerState
  <2> QED
    BY <1>3, <2>1, <2>2 DEF TypeOK, Get
<1>4. ASSUME NEW w \in Workers, Begin(w) PROVE TypeOK'
  <2>1. worker' \in [Workers -> WorkerState]
    BY <1>4 DEF TypeOK, Begin, Step, WorkerState
  <2>2. holding[w] \in Runs
    BY <1>4 DEF TypeOK, HandOK, Begin, Step
  <2> QED
    BY <1>4, <2>1, <2>2 DEF TypeOK, Begin
<1>5. ASSUME NEW w \in Workers, Discard(w) \/ Release(w) PROVE TypeOK'
  BY <1>5 DEF TypeOK, Discard, Release, Step, WorkerState
<1>6. ASSUME NEW w \in Workers, Execute(w) PROVE TypeOK'
  BY <1>6 DEF TypeOK, Execute, Step, WorkerState
<1>7. ASSUME NEW w \in Workers, Note(w) PROVE TypeOK'
  <2>1. holding[w] \in Runs
    BY <1>7 DEF TypeOK, HandOK, Note, Step
  <2>2. /\ completed' \in Seq(Runs) /\ Len(completed') <= MaxRemembered
        /\ failed' \in Seq(Runs) /\ Len(failed') <= MaxRemembered
    <3>1. /\ Remember(completed, holding[w]) \in Seq(Runs)
          /\ Len(Remember(completed, holding[w])) <= MaxRemembered
          /\ Remember(failed, holding[w]) \in Seq(Runs)
          /\ Len(Remember(failed, holding[w])) <= MaxRemembered
      BY <2>1, RememberMembers, DispatcherAssumption DEF TypeOK
    <3> QED
      BY <1>7, <3>1 DEF TypeOK, Note
  <2>3. worker' \in [Workers -> WorkerState]
    BY <1>7 DEF TypeOK, Note, Step, WorkerState
  <2> QED
    BY <1>7, <2>2, <2>3 DEF TypeOK, Note
<1>8. ASSUME Close PROVE TypeOK'
  BY <1>8 DEF TypeOK, Close, Phase
<1>9. ASSUME NEW r \in Runs, AskToStop(r) PROVE TypeOK'
  BY <1>9 DEF TypeOK, AskToStop
<1>10. ASSUME Signal PROVE TypeOK'
  <2>1. queue' \in Seq(Runs \cup {Sentinel})
    BY <1>10, AppendMembers DEF TypeOK, Signal
  <2>2. signals' \in 0..Cardinality(Workers)
    BY <1>10, PoolSize DEF TypeOK, Signal, SentinelsNeeded
  <2> QED
    BY <1>10, <2>1, <2>2 DEF TypeOK, Signal
<1>11. ASSUME NEW w \in Workers, Join(w) PROVE TypeOK'
  BY <1>11 DEF TypeOK, Join
<1>12. ASSUME AllAsked \/ AllSignalled PROVE TypeOK'
  BY <1>12 DEF TypeOK, AllAsked, AllSignalled, Phase
<1>13. ASSUME Report PROVE TypeOK'
  BY <1>13 DEF TypeOK, Report, StillActive, Phase
<1>14. ASSUME UNCHANGED vars PROVE TypeOK'
  BY <1>14 DEF TypeOK, vars
<1> QED
  BY <1>1, <1>2, <1>3, <1>4, <1>5, <1>6, <1>7, <1>8, <1>9, <1>10, <1>11, <1>12,
     <1>13, <1>14 DEF Next, Work, ShutDown

LEMMA HandInit == Init => HandOK
  BY DEF Init, HandOK

LEMMA HandStep == TypeOK /\ HandOK /\ [Next]_vars => HandOK'
<1> SUFFICES ASSUME TypeOK, HandOK, [Next]_vars PROVE HandOK'
  OBVIOUS
<1> USE DEF bookVars, workerVars, shutdownVars
<1>1. ASSUME NEW w \in Workers, Get(w) PROVE HandOK'
  <2>1. Head(queue) \in Runs \cup {Sentinel}
    BY <1>1, TailMembers DEF TypeOK, Get
  <2>2. Head(queue) # Nothing
    BY <2>1, DispatcherAssumption
  <2> QED
    BY <1>1, <2>2 DEF TypeOK, HandOK, Get, Step
<1>2. ASSUME NEW w \in Workers, Begin(w) \/ Execute(w) \/ Note(w) PROVE HandOK'
  BY <1>2 DEF TypeOK, HandOK, Begin, Execute, Note, Step
<1>3. ASSUME NEW w \in Workers, Discard(w) \/ Release(w) PROVE HandOK'
  BY <1>3 DEF TypeOK, HandOK, Discard, Release, Step
<1>4. ASSUME \E r \in Runs : Admit(r) \/ Put(r) PROVE HandOK'
  BY <1>4 DEF HandOK, Admit, Put
<1>5. ASSUME Close \/ ShutDown PROVE HandOK'
  BY <1>5 DEF HandOK, Close, ShutDown, AskToStop, AllAsked, Signal, AllSignalled, Join, Report
<1>6. ASSUME UNCHANGED vars PROVE HandOK'
  BY <1>6 DEF HandOK, vars
<1> QED
  BY <1>1, <1>2, <1>3, <1>4, <1>5, <1>6 DEF Next, Work

LEMMA TypesStay == Spec => [](TypeOK /\ HandOK)
<1>1. Init => TypeOK /\ HandOK
  BY TypeInit, HandInit
<1>2. (TypeOK /\ HandOK) /\ [Next]_vars => (TypeOK /\ HandOK)'
  BY TypeStep, HandStep
<1> QED
  BY <1>1, <1>2, PTL DEF Spec

(* Every variable of the dispatcher keeps its type, and no history outgrows *)
(* its capacity.                                                           *)
THEOREM TypeCorrect == Spec => []TypeOK
  BY TypesStay, PTL

-----------------------------------------------------------------------------
(* Each run in one place.                                                  *)

(* Only sentinels are in the queue more than once.                         *)
RunsOnce(s) == \A i, j \in 1..Len(s) : i # j /\ s[i] = s[j] => s[i] = Sentinel

LEMMA AppendOnce ==
  ASSUME NEW S, NEW s \in Seq(S), NEW e \in S, RunsOnce(s), e = Sentinel \/ ~Contains(s, e)
  PROVE  RunsOnce(Append(s, e))
<1>1. /\ Len(Append(s, e)) = Len(s) + 1 /\ Len(s) \in Nat
      /\ \A i \in 1..Len(s) : Append(s, e)[i] = s[i]
      /\ Append(s, e)[Len(s) + 1] = e
  BY AppendProperties, LenProperties
<1> QED
  BY <1>1 DEF RunsOnce, Contains

LEMMA TailOnce ==
  ASSUME NEW S, NEW s \in Seq(S), s # <<>>, RunsOnce(s)
  PROVE  RunsOnce(Tail(s)) /\ (Head(s) # Sentinel => ~Contains(Tail(s), Head(s)))
<1>1. Len(Tail(s)) = Len(s) - 1 /\ \A i \in 1..Len(Tail(s)) : Tail(s)[i] = s[i + 1]
  BY HeadTailProperties
<1>2. Len(s) \in Nat \ {0} /\ Head(s) = s[1]
  BY EmptySeq
<1>3. \A i \in 1..Len(Tail(s)) : i + 1 \in 1..Len(s) /\ i + 1 # 1
  BY <1>1, <1>2
<1> QED
  BY <1>1, <1>2, <1>3 DEF RunsOnce, Contains

(* The parts of EachRunInOnePlace.                                         *)
AdmittedIsSomewhere ==
  \A r \in Runs :
    r \in queuedOrActive
      <=> r \in admitting \/ Contains(queue, r) \/ \E w \in Workers : holding[w] = r
AdmittingIsNotQueued == \A r \in admitting : ~Contains(queue, r)
HeldIsNowhereElse ==
  \A w \in Workers : holding[w] \in Runs =>
    holding[w] \notin admitting /\ ~Contains(queue, holding[w])
HeldOnce == \A v, w \in Workers : v # w /\ holding[v] = holding[w] => holding[v] = Nothing

LEMMA PlaceParts ==
  EachRunInOnePlace <=>
    /\ AdmittedIsSomewhere /\ AdmittingIsNotQueued /\ HeldIsNowhereElse /\ HeldOnce
    /\ RunsOnce(queue)
  BY DEF EachRunInOnePlace, AdmittedIsSomewhere, AdmittingIsNotQueued,
         HeldIsNowhereElse, HeldOnce, RunsOnce

LEMMA PlaceInit == Init => EachRunInOnePlace
<1> SUFFICES ASSUME Init PROVE EachRunInOnePlace
  OBVIOUS
<1>1. Len(queue) = 0
  BY EmptySeq DEF Init
<1> QED
  BY <1>1, DispatcherAssumption DEF Init, EachRunInOnePlace, Contains

LEMMA PlaceStep ==
  TypeOK /\ HandOK /\ EachRunInOnePlace /\ [Next]_vars => EachRunInOnePlace'
<1> SUFFICES ASSUME TypeOK, HandOK, EachRunInOnePlace, [Next]_vars
             PROVE  EachRunInOnePlace'
  OBVIOUS
<1> DEFINE Places == /\ AdmittedIsSomewhere /\ AdmittingIsNotQueued
                     /\ HeldIsNowhereElse /\ HeldOnce /\ RunsOnce(queue)
<1> USE DEF bookVars, workerVars, shutdownVars
<1>0. /\ AdmittedIsSomewhere /\ AdmittingIsNotQueued /\ HeldIsNowhereElse /\ HeldOnce
      /\ RunsOnce(queue)
  BY PlaceParts
<1>1. ASSUME NEW r \in Runs, Admit(r) PROVE Places'
  <2>1. /\ r \notin queuedOrActive /\ queuedOrActive' = queuedOrActive \cup {r}
        /\ admitting' = admitting \cup {r}
        /\ queue' = queue /\ holding' = holding
    BY <1>1 DEF Admit, MayAdmit
  <2>2. ~Contains(queue, r) /\ ~\E w \in Workers : holding[w] = r
    BY <2>1, <1>0 DEF AdmittedIsSomewhere
  <2> QED
    BY <2>1, <2>2, <1>0 DEF AdmittedIsSomewhere, AdmittingIsNotQueued,
       HeldIsNowhereElse, HeldOnce
<1>2. ASSUME NEW r \in Runs, Put(r) PROVE Places'
  <2>1. /\ r \in admitting /\ admitting' = admitting \ {r}
        /\ queue' = Append(queue, r)
        /\ queuedOrActive' = queuedOrActive /\ holding' = holding
    BY <1>2 DEF Put
  <2>2. \A x : Contains(queue', x) <=> Contains(queue, x) \/ x = r
    BY <2>1, AppendMembers DEF TypeOK
  <2>3. RunsOnce(queue')
    BY <2>1, <1>0, AppendOnce DEF TypeOK, AdmittingIsNotQueued
  <2> QED
    BY <2>1, <2>2, <2>3, <1>0 DEF TypeOK, AdmittedIsSomewhere, AdmittingIsNotQueued,
       HeldIsNowhereElse, HeldOnce
<1>3. ASSUME NEW w \in Workers, Get(w) PROVE Places'
  <2>1. /\ queue # <<>> /\ queue' = Tail(queue) /\ worker[w] = "waiting"
        /\ admitting' = admitting /\ queuedOrActive' = queuedOrActive
    BY <1>3 DEF Get, Step
  <2>2. /\ Head(queue) \in Runs \cup {Sentinel}
        /\ \A x : Contains(queue, x) <=> Contains(queue', x) \/ x = Head(queue)
        /\ RunsOnce(queue')
        /\ Head(queue) # Sentinel => ~Contains(queue', Head(queue))
    BY <2>1, <1>0, TailMembers, TailOnce DEF TypeOK
  <2>3. holding[w] = Nothing /\ Nothing \notin Runs /\ Sentinel \notin Runs
    BY <2>1, DispatcherAssumption DEF HandOK
  <2>4. CASE Head(queue) = Sentinel
    <3>1. holding' = holding
      BY <1>3, <2>4 DEF Get
    <3> QED
      BY <2>1, <2>2, <2>3, <2>4, <3>1, <1>0 DEF TypeOK, AdmittedIsSomewhere,
         AdmittingIsNotQueued, HeldIsNowhereElse, HeldOnce
  <2>5. CASE Head(queue) # Sentinel
    <3> DEFINE h == Head(queue)
    <3>1. h \in Runs /\ holding' = [holding EXCEPT ![w] = h]
      BY <1>3, <2>2, <2>5 DEF Get
    <3>2. /\ holding'[w] = h
          /\ \A v \in Workers : v # w => holding'[v] = holding[v]
      BY <3>1 DEF TypeOK
    <3>3. h \notin admitting /\ \A v \in Workers : holding[v] # h
      BY <3>1, <2>2, <1>0 DEF AdmittingIsNotQueued, HeldIsNowhereElse
    <3> HIDE DEF h
    <3>4. \A x : Contains(queue, x) <=> Contains(queue', x) \/ x = h
      BY <2>2 DEF h
    <3>5. ~Contains(queue', h)
      BY <2>2, <2>5 DEF h
    <3>6. AdmittedIsSomewhere'
      BY <2>1, <2>3, <3>1, <3>2, <3>4, <1>0 DEF AdmittedIsSomewhere
    <3>7. AdmittingIsNotQueued' /\ HeldIsNowhereElse'
      BY <2>1, <3>2, <3>3, <3>4, <3>5, <1>0 DEF AdmittingIsNotQueued, HeldIsNowhereElse
    <3>8. HeldOnce'
      BY <3>2, <3>3, <1>0 DEF HeldOnce
    <3> QED
      BY <3>6, <3>7, <3>8, <2>2
  <2> QED
    BY <2>4, <2>5
<1>4. ASSUME NEW w \in Workers, Discard(w) \/ Release(w) PROVE Places'
  <2>1. /\ worker[w] \in {"got", "noted"}
        /\ queue' = queue /\ admitting' = admitting
        /\ queuedOrActive' = queuedOrActive \ {holding[w]}
        /\ holding' = [holding EXCEPT ![w] = Nothing]
    BY <1>4 DEF Discard, Release, Step
  <2>2. /\ holding[w] \in Runs /\ holding'[w] = Nothing /\ Nothing \notin Runs
        /\ \A v \in Workers : v # w => holding'[v] = holding[v]
    BY <2>1, DispatcherAssumption DEF TypeOK, HandOK
  <2>3. \A v \in Workers : v # w => holding[v] # holding[w]
    BY <2>2, <1>0 DEF HeldOnce
  <2>4. AdmittedIsSomewhere'
    BY <2>1, <2>2, <2>3, <1>0 DEF AdmittedIsSomewhere, HeldIsNowhereElse
  <2>5. AdmittingIsNotQueued' /\ HeldIsNowhereElse'
    BY <2>1, <2>2, <1>0 DEF AdmittingIsNotQueued, HeldIsNowhereElse
  <2>6. HeldOnce'
    BY <2>2, <1>0 DEF HeldOnce
  <2> QED
    BY <2>1, <2>4, <2>5, <2>6, <1>0
<1>5. ASSUME Signal PROVE Places'
  <2>1. /\ queue' = Append(queue, Sentinel) /\ Sentinel \notin Runs
        /\ UNCHANGED <<admitting, queuedOrActive, holding>>
    BY <1>5, DispatcherAssumption DEF Signal
  <2>2. \A x : Contains(queue', x) <=> Contains(queue, x) \/ x = Sentinel
    BY <2>1, AppendMembers DEF TypeOK
  <2>3. RunsOnce(queue')
    BY <2>1, <1>0, AppendOnce DEF TypeOK
  <2> QED
    BY <2>1, <2>2, <2>3, <1>0 DEF TypeOK, AdmittedIsSomewhere, AdmittingIsNotQueued,
       HeldIsNowhereElse, HeldOnce
<1>6. ASSUME UNCHANGED <<admitting, queue, queuedOrActive, holding>> PROVE Places'
  BY <1>6, <1>0 DEF AdmittedIsSomewhere, AdmittingIsNotQueued, HeldIsNowhereElse,
     HeldOnce
<1>7. \/ UNCHANGED <<admitting, queue, queuedOrActive, holding>>
      \/ Signal
      \/ \E r \in Runs : Admit(r) \/ Put(r)
      \/ \E w \in Workers : Get(w) \/ Discard(w) \/ Release(w)
  BY DEF Next, Work, ShutDown, Begin, Execute, Note, Close, AskToStop, AllAsked,
         AllSignalled, Join, Report, vars
<1>8. Places'
  BY <1>1, <1>2, <1>3, <1>4, <1>5, <1>6, <1>7
<1>9. EachRunInOnePlace' <=> Places'
  BY DEF EachRunInOnePlace, AdmittedIsSomewhere, AdmittingIsNotQueued,
         HeldIsNowhereElse, HeldOnce, RunsOnce
<1> QED
  BY <1>8, <1>9

LEMMA PlacesStay == Spec => [](TypeOK /\ HandOK /\ EachRunInOnePlace)
<1>1. Init => TypeOK /\ HandOK /\ EachRunInOnePlace
  BY TypeInit, HandInit, PlaceInit
<1>2. (TypeOK /\ HandOK /\ EachRunInOnePlace) /\ [Next]_vars
        => (TypeOK /\ HandOK /\ EachRunInOnePlace)'
  BY TypeStep, HandStep, PlaceStep
<1> QED
  BY <1>1, <1>2, PTL DEF Spec

(* A run that is admitted is on its way to the queue, in it or in the hands *)
(* of one worker, and nowhere else, until it is released or discarded.     *)
THEOREM RunsStayInOnePlace == Spec => []EachRunInOnePlace
  BY PlacesStay, PTL

-----------------------------------------------------------------------------
(* What executes while the dispatcher shuts down.                          *)

(* _active is the set of the runs in execution.                            *)
ActiveOK ==
  \A r \in Runs : r \in active <=> \E w \in Workers : Executes(w) /\ holding[w] = r

(* The cancellation of the runs that execute is done or still to be done.  *)
CancelOK ==
  phase = "cancelling" =>
    \A w \in Workers : Executes(w) => holding[w] \in toCancel \cup asked

ShutdownOK == ActiveOK /\ CancelOK /\ RunningIsAsked /\ DrainIsReported

(* A run that executes is in the hands of its worker.                      *)
LEMMA ExecutesRun ==
  ASSUME TypeOK, HandOK, NEW w \in Workers, Executes(w)
  PROVE  holding[w] \in Runs
  BY DEF TypeOK, HandOK, Executes

LEMMA ShutdownInit == Init => ShutdownOK
  BY DEF Init, ShutdownOK, ActiveOK, CancelOK, RunningIsAsked, DrainIsReported, Executes

LEMMA ActiveStep ==
  TypeOK /\ HandOK /\ EachRunInOnePlace /\ ActiveOK /\ [Next]_vars => ActiveOK'
<1> SUFFICES ASSUME TypeOK, HandOK, EachRunInOnePlace, ActiveOK, [Next]_vars
             PROVE  ActiveOK'
  OBVIOUS
<1> USE DEF bookVars, workerVars, shutdownVars
<1>1. ASSUME NEW w \in Workers, Get(w) PROVE ActiveOK'
  <2>1. /\ worker[w] = "waiting" /\ active' = active
        /\ \A v \in Workers : v # w => worker'[v] = worker[v] /\ holding'[v] = holding[v]
        /\ worker'[w] \in {"got", "exited"}
    BY <1>1 DEF Get, Step, TypeOK
  <2> QED
    BY <2>1 DEF ActiveOK, Executes
<1>2. ASSUME NEW w \in Workers, Begin(w) PROVE ActiveOK'
  <2>1. /\ worker[w] = "got" /\ active' = active \cup {holding[w]} /\ holding' = holding
        /\ \A v \in Workers : v # w => worker'[v] = worker[v]
        /\ worker'[w] = "executing"
    BY <1>2 DEF Begin, Step, TypeOK
  <2> QED
    BY <2>1 DEF ActiveOK, Executes
<1>3. ASSUME NEW w \in Workers, Discard(w) PROVE ActiveOK'
  <2>1. /\ worker[w] = "got" /\ active' = active
        /\ \A v \in Workers : v # w => worker'[v] = worker[v] /\ holding'[v] = holding[v]
        /\ worker'[w] = "waiting"
    BY <1>3 DEF Discard, Step, TypeOK
  <2> QED
    BY <2>1 DEF ActiveOK, Executes
<1>4. ASSUME NEW w \in Workers, Execute(w) \/ Note(w) PROVE ActiveOK'
  <2>1. /\ Executes(w) /\ Executes(w)' /\ active' = active /\ holding' = holding
        /\ \A v \in Workers : v # w => worker'[v] = worker[v]
    BY <1>4 DEF Execute, Note, Step, TypeOK, Executes
  <2>2. \A v \in Workers : Executes(v)' <=> Executes(v)
    BY <2>1 DEF Executes
  <2> QED
    BY <2>1, <2>2 DEF ActiveOK
<1>5. ASSUME NEW w \in Workers, Release(w) PROVE ActiveOK'
  <2>1. /\ Executes(w) /\ active' = active \ {holding[w]}
        /\ \A v \in Workers : v # w => worker'[v] = worker[v] /\ holding'[v] = holding[v]
        /\ worker'[w] = "waiting"
    BY <1>5 DEF Release, Step, TypeOK, Executes
  <2>2. holding[w] \in Runs /\ holding[w] # Nothing
    BY <2>1, ExecutesRun, DispatcherAssumption
  <2>3. \A v \in Workers : v # w => holding[v] # holding[w]
    BY <2>2 DEF EachRunInOnePlace
  <2> QED
    BY <2>1, <2>2, <2>3 DEF ActiveOK, Executes
<1>6. ASSUME UNCHANGED <<active, worker, holding>> PROVE ActiveOK'
  BY <1>6 DEF ActiveOK, Executes
<1>7. \/ UNCHANGED <<active, worker, holding>>
      \/ \E w \in Workers : Work(w)
  BY DEF Next, ShutDown, Admit, Put, Close, AskToStop, AllAsked, Signal, AllSignalled,
         Join, Report, vars
<1> QED
  BY <1>1, <1>2, <1>3, <1>4, <1>5, <1>6, <1>7 DEF Work

(* Once the dispatcher is shut down, no execution begins: what executes    *)
(* after a step executed before it, the same run.                          *)
LEMMA NoneBegins ==
  ASSUME TypeOK, [Next]_vars, phase # "open"
  PROVE  \A w \in Workers : Executes(w)' => Executes(w) /\ holding'[w] = holding[w]
<1> USE DEF bookVars, workerVars, shutdownVars
<1>1. ASSUME NEW v \in Workers, Get(v) \/ Discard(v) \/ Release(v)
      PROVE  \A w \in Workers : Executes(w)' => Executes(w) /\ holding'[w] = holding[w]
  <2>1. /\ \A w \in Workers : w # v => worker'[w] = worker[w] /\ holding'[w] = holding[w]
        /\ worker'[v] \in {"waiting", "got", "exited"}
    BY <1>1 DEF Get, Discard, Release, Step, TypeOK
  <2> QED
    BY <2>1 DEF Executes
<1>2. ASSUME NEW v \in Workers, Execute(v) \/ Note(v)
      PROVE  \A w \in Workers : Executes(w)' => Executes(w) /\ holding'[w] = holding[w]
  <2>1. /\ \A w \in Workers : w # v => worker'[w] = worker[w]
        /\ Executes(v) /\ holding' = holding
    BY <1>2 DEF Execute, Note, Step, TypeOK, Executes
  <2> QED
    BY <2>1 DEF Executes
<1>3. ASSUME NEW v \in Workers, Begin(v) PROVE FALSE
  BY <1>3 DEF Begin, MayBegin
<1>4. \/ UNCHANGED <<worker, holding>>
      \/ \E v \in Workers : Work(v)
  BY DEF Next, ShutDown, Admit, Put, Close, AskToStop, AllAsked, Signal, AllSignalled,
         Join, Report, vars
<1> QED
  BY <1>1, <1>2, <1>3, <1>4 DEF Work, Executes

LEMMA ShutdownStep ==
  TypeOK /\ HandOK /\ EachRunInOnePlace /\ ShutdownOK /\ [Next]_vars => ShutdownOK'
<1> SUFFICES ASSUME TypeOK, HandOK, EachRunInOnePlace, ShutdownOK, [Next]_vars
             PROVE  ShutdownOK'
  OBVIOUS
<1> USE DEF bookVars, workerVars, shutdownVars
<1>1. ActiveOK'
  BY ActiveStep DEF ShutdownOK
<1>2. ASSUME Close PROVE CancelOK' /\ RunningIsAsked' /\ DrainIsReported'
  <2>1. phase' = "cancelling" /\ toCancel' = active
        /\ worker' = worker /\ holding' = holding
    BY <1>2 DEF Close
  <2>2. \A w \in Workers : Executes(w)' => holding'[w] \in toCancel'
    BY <2>1, ExecutesRun DEF ShutdownOK, ActiveOK, Executes
  <2> QED
    BY <2>1, <2>2 DEF CancelOK, RunningIsAsked, DrainIsReported
<1>3. ASSUME NEW r \in Runs, AskToStop(r)
      PROVE  CancelOK' /\ RunningIsAsked' /\ DrainIsReported'
  BY <1>3 DEF AskToStop, ShutdownOK, CancelOK, RunningIsAsked, DrainIsReported, Executes
<1>4. ASSUME AllAsked PROVE CancelOK' /\ RunningIsAsked' /\ DrainIsReported'
  BY <1>4 DEF AllAsked, ShutdownOK, CancelOK, RunningIsAsked, DrainIsReported, Executes
<1>5. ASSUME AllSignalled PROVE CancelOK' /\ RunningIsAsked' /\ DrainIsReported'
  BY <1>5 DEF AllSignalled, ShutdownOK, CancelOK, RunningIsAsked, DrainIsReported, Executes
<1>6. ASSUME Report PROVE CancelOK' /\ RunningIsAsked' /\ DrainIsReported'
  <2>1. /\ phase = "joining" /\ phase' = "done" /\ (drainFailed' <=> active # {})
        /\ worker' = worker /\ holding' = holding /\ asked' = asked
    BY <1>6, Zenon DEF Report, StillActive
  <2>2. \A w \in Workers : Executes(w)' => active # {}
    BY <2>1, ExecutesRun DEF ShutdownOK, ActiveOK, Executes
  <2>3. DrainIsReported'
    BY <2>1, <2>2 DEF DrainIsReported
  <2>4. CancelOK' /\ RunningIsAsked'
    BY <2>1 DEF ShutdownOK, CancelOK, RunningIsAsked, Executes
  <2> QED
    BY <2>3, <2>4
<1>7. ASSUME UNCHANGED <<phase, toCancel, asked, drainFailed>>
      PROVE  CancelOK' /\ RunningIsAsked' /\ DrainIsReported'
  <2>1. CASE phase = "open"
    BY <1>7, <2>1 DEF CancelOK, RunningIsAsked, DrainIsReported
  <2>2. CASE phase # "open"
    <3>1. \A w \in Workers : Executes(w)' => Executes(w) /\ holding'[w] = holding[w]
      BY <2>2, NoneBegins
    <3>2. CancelOK' /\ RunningIsAsked'
      BY <1>7, <3>1 DEF ShutdownOK, CancelOK, RunningIsAsked
    <3>3. DrainIsReported'
      BY <1>7, <3>1 DEF ShutdownOK, DrainIsReported
    <3> QED
      BY <3>2, <3>3
  <2> QED
    BY <2>1, <2>2
<1>8. \/ UNCHANGED <<phase, toCancel, asked, drainFailed>>
      \/ Close \/ AllAsked \/ AllSignalled \/ Report
      \/ \E r \in Runs : AskToStop(r)
  BY DEF Next, ShutDown, Work, Admit, Put, Get, Begin, Discard, Execute, Note, Release,
         Signal, Join, vars
<1>9. CancelOK' /\ RunningIsAsked' /\ DrainIsReported'
  BY <1>2, <1>3, <1>4, <1>5, <1>6, <1>7, <1>8
<1> QED
  BY <1>1, <1>9 DEF ShutdownOK

LEMMA ShutdownStays == Spec => [](TypeOK /\ HandOK /\ EachRunInOnePlace /\ ShutdownOK)
<1>1. Init => TypeOK /\ HandOK /\ EachRunInOnePlace /\ ShutdownOK
  BY TypeInit, HandInit, PlaceInit, ShutdownInit
<1>2. (TypeOK /\ HandOK /\ EachRunInOnePlace /\ ShutdownOK) /\ [Next]_vars
        => (TypeOK /\ HandOK /\ EachRunInOnePlace /\ ShutdownOK)'
  BY TypeStep, HandStep, PlaceStep, ShutdownStep
<1> QED
  BY <1>1, <1>2, PTL DEF Spec

(* Once shutdown has gone through the active runs, every run that still    *)
(* executes was asked to stop.                                             *)
THEOREM EveryRunIsAsked == Spec => []RunningIsAsked
<1>1. ShutdownOK => RunningIsAsked
  BY DEF ShutdownOK
<1> QED
  BY <1>1, ShutdownStays, PTL

(* A drain that is not reported as failed has left no run executing.       *)
THEOREM DrainStaysReported == Spec => []DrainIsReported
<1>1. ShutdownOK => DrainIsReported
  BY DEF ShutdownOK
<1> QED
  BY <1>1, ShutdownStays, PTL

-----------------------------------------------------------------------------
(* The histories.                                                          *)

(* A run is in one history at most, once, and while it is queued or active *)
(* only from the moment its worker has noted the result.                   *)
HistoryOK ==
  /\ Distinct(completed) /\ Distinct(failed)
  /\ \A r \in Runs : ~(Contains(completed, r) /\ Contains(failed, r))
  /\ \A r \in queuedOrActive : Contains(completed, r) \/ Contains(failed, r) =>
       \E w \in Workers : worker[w] = "noted" /\ holding[w] = r

(* Before its result is noted, the run in a worker's hands is in neither.  *)
LEMMA NotYetNoted ==
  ASSUME EachRunInOnePlace, HistoryOK, NEW w \in Workers,
         holding[w] \in Runs, worker[w] # "noted"
  PROVE  ~Contains(completed, holding[w]) /\ ~Contains(failed, holding[w])
<1>1. holding[w] \in queuedOrActive /\ holding[w] # Nothing
  BY DispatcherAssumption DEF EachRunInOnePlace
<1>2. \A v \in Workers : holding[v] = holding[w] => v = w
  BY <1>1 DEF EachRunInOnePlace
<1> QED
  BY <1>1, <1>2 DEF HistoryOK

LEMMA HistoryInit == Init => HistoryOK
<1> SUFFICES ASSUME Init PROVE HistoryOK
  OBVIOUS
<1>1. Len(completed) = 0 /\ Len(failed) = 0 /\ queuedOrActive = {}
  BY EmptySeq DEF Init
<1> QED
  BY <1>1 DEF HistoryOK, Distinct, Contains

LEMMA HistoryStep ==
  TypeOK /\ HandOK /\ EachRunInOnePlace /\ HistoryOK /\ [Next]_vars => HistoryOK'
<1> SUFFICES ASSUME TypeOK, HandOK, EachRunInOnePlace, HistoryOK, [Next]_vars
             PROVE  HistoryOK'
  OBVIOUS
<1> USE DEF bookVars, workerVars, shutdownVars
<1>1. ASSUME NEW r \in Runs, Admit(r) PROVE HistoryOK'
  <2>1. /\ completed' = Without(completed, r) /\ failed' = Without(failed, r)
        /\ queuedOrActive' = queuedOrActive \cup {r}
        /\ worker' = worker /\ holding' = holding
    BY <1>1 DEF Admit, AtAdmission
  <2>2. /\ Distinct(completed') /\ Distinct(failed')
        /\ \A x : Contains(completed', x) <=> Contains(completed, x) /\ x # r
        /\ \A x : Contains(failed', x) <=> Contains(failed, x) /\ x # r
    BY <2>1, WithoutMembers DEF TypeOK, HistoryOK
  <2> QED
    BY <2>1, <2>2 DEF HistoryOK
<1>2. ASSUME NEW w \in Workers, Note(w) PROVE HistoryOK'
  <2>1. /\ worker[w] \in {"succeeded", "raised"} /\ worker'[w] = "noted"
        /\ \A v \in Workers : v # w => worker'[v] = worker[v]
        /\ queuedOrActive' = queuedOrActive /\ holding' = holding
        /\ \/ completed' = Remember(completed, holding[w]) /\ failed' = failed
           \/ failed' = Remember(failed, holding[w]) /\ completed' = completed
    BY <1>2 DEF Note, Step, TypeOK
  <2>2. holding[w] \in Runs
    BY <2>1 DEF TypeOK, HandOK
  <2>3. ~Contains(completed, holding[w]) /\ ~Contains(failed, holding[w])
    BY <2>1, <2>2, NotYetNoted
  <2>4. /\ Distinct(Remember(completed, holding[w]))
        /\ \A x : Contains(Remember(completed, holding[w]), x)
                  => Contains(completed, x) \/ x = holding[w]
    BY <2>2, RememberMembers, DispatcherAssumption DEF TypeOK, HistoryOK
  <2>5. /\ Distinct(Remember(failed, holding[w]))
        /\ \A x : Contains(Remember(failed, holding[w]), x)
                  => Contains(failed, x) \/ x = holding[w]
    BY <2>2, RememberMembers, DispatcherAssumption DEF TypeOK, HistoryOK
  <2>6. CASE completed' = Remember(completed, holding[w]) /\ failed' = failed
    BY <2>1, <2>3, <2>4, <2>6 DEF HistoryOK
  <2>7. CASE failed' = Remember(failed, holding[w]) /\ completed' = completed
    BY <2>1, <2>3, <2>5, <2>7 DEF HistoryOK
  <2> QED
    BY <2>1, <2>6, <2>7
<1>3. ASSUME NEW w \in Workers, Discard(w) \/ Release(w) PROVE HistoryOK'
  <2>1. /\ queuedOrActive' = queuedOrActive \ {holding[w]}
        /\ completed' = completed /\ failed' = failed
        /\ \A v \in Workers : v # w => worker'[v] = worker[v] /\ holding'[v] = holding[v]
    BY <1>3 DEF Discard, Release, Step, TypeOK
  <2> QED
    BY <2>1 DEF HistoryOK
<1>4. ASSUME NEW w \in Workers, Get(w) \/ Begin(w) \/ Execute(w) PROVE HistoryOK'
  <2>1. /\ queuedOrActive' = queuedOrActive
        /\ completed' = completed /\ failed' = failed
        /\ \A v \in Workers : v # w => worker'[v] = worker[v] /\ holding'[v] = holding[v]
        /\ worker[w] # "noted"
    BY <1>4 DEF Get, Begin, Execute, Step, TypeOK
  <2> QED
    BY <2>1 DEF HistoryOK
<1>5. ASSUME UNCHANGED <<completed, failed, queuedOrActive, worker, holding>>
      PROVE  HistoryOK'
  BY <1>5 DEF HistoryOK
<1>6. \/ UNCHANGED <<completed, failed, queuedOrActive, worker, holding>>
      \/ \E r \in Runs : Admit(r)
      \/ \E w \in Workers : Work(w)
  BY DEF Next, ShutDown, Put, Close, AskToStop, AllAsked, Signal, AllSignalled, Join,
         Report, vars
<1> QED
  BY <1>1, <1>2, <1>3, <1>4, <1>5, <1>6 DEF Work

-----------------------------------------------------------------------------
(* The contract.                                                           *)

BookOK == TypeOK /\ HandOK /\ EachRunInOnePlace /\ ActiveOK /\ HistoryOK

(* What one run answers changes, and no other.                             *)
LEMMA OneAnswer ==
  ASSUME NEW r \in Runs, \A x \in Runs : x # r => Status(x)' = Status(x)
  PROVE  Contract!Becomes(r, Status(r)')
  BY DEF Contract!Becomes

LEMMA SameAnswers ==
  ASSUME \A x \in Runs : Status(x)' = Status(x), UNCHANGED phase
  PROVE  UNCHANGED Contract!vars
  BY DEF Contract!vars

(* A worker that does not execute leaves room for one more run.            *)
LEMMA RoomForOne ==
  ASSUME TypeOK, ActiveOK, NEW w \in Workers, ~Executes(w)
  PROVE  Cardinality(active) < Cardinality(Workers)
<1> DEFINE others == Workers \ {w}
           f == [r \in active |-> CHOOSE v \in Workers : Executes(v) /\ holding[v] = r]
<1>1. IsFiniteSet(others) /\ Cardinality(others) = Cardinality(Workers) - 1
  BY DispatcherAssumption, FS_RemoveElement
<1>2. \A r \in active : f[r] \in Workers /\ Executes(f[r]) /\ holding[f[r]] = r
  BY DEF TypeOK, ActiveOK
<1> HIDE DEF f
<1>3. \A r \in active : f[r] \in others
  BY <1>2
<1>4. f \in [active -> others]
  BY <1>3 DEF f
<1>5. \A r, x \in active : f[r] = f[x] => r = x
  BY <1>2
<1>6. f \in Injection(active, others)
  BY <1>4, <1>5 DEF Injection, IsInjective
<1>7. IsFiniteSet(active) /\ Cardinality(active) <= Cardinality(others)
  BY <1>1, <1>6, FS_Injection
<1>8. Cardinality(active) \in Nat
  BY <1>7, FS_CardinalityType
<1> QED
  BY <1>1, <1>7, <1>8, PoolSize

LEMMA ContractInit == Init => Contract!Init
<1> SUFFICES ASSUME Init PROVE Contract!Init
  OBVIOUS
<1>1. Len(completed) = 0 /\ Len(failed) = 0
  BY EmptySeq DEF Init
<1>2. \A r \in Runs : Status(r) = "unknown"
  BY <1>1 DEF Init, Status, Contains
<1>3. (phase = "open") = TRUE
  BY DEF Init
<1> QED
  BY <1>2, <1>3 DEF Contract!Init

LEMMA AdmitIsAdmit ==
  ASSUME BookOK, NEW r \in Runs, Admit(r)
  PROVE  Contract!Admit(r)
<1> USE DEF bookVars, workerVars, shutdownVars
<1>1. /\ phase = "open" /\ r \notin queuedOrActive
      /\ completed' = Without(completed, r) /\ failed' = Without(failed, r)
      /\ queuedOrActive' = queuedOrActive \cup {r} /\ active' = active /\ phase' = phase
  BY DEF Admit, MayAdmit, AtAdmission
<1>2. r \notin active
  BY <1>1 DEF BookOK, ActiveOK, EachRunInOnePlace
<1>3. /\ \A x : Contains(completed', x) <=> Contains(completed, x) /\ x # r
      /\ \A x : Contains(failed', x) <=> Contains(failed, x) /\ x # r
  BY <1>1, WithoutMembers DEF BookOK, TypeOK, HistoryOK
<1>4. Status(r) \in {"completed", "failed", "unknown"}
  BY <1>1, <1>2 DEF Status
<1>5. Status(r)' = "queued"
  BY <1>1, <1>2, <1>3 DEF Status
<1>6. \A x \in Runs : x # r => Status(x)' = Status(x)
  BY <1>1, <1>3 DEF Status
<1>7. Contract!Becomes(r, "queued")
  BY <1>5, <1>6, OneAnswer
<1> QED
  BY <1>1, <1>4, <1>7 DEF Contract!Admit, Contract!Finished

LEMMA BeginIsBegin ==
  ASSUME BookOK, NEW w \in Workers, Begin(w)
  PROVE  \E r \in Runs : Contract!Begin(r)
<1> USE DEF bookVars, workerVars, shutdownVars
<1>0. PICK r : r = holding[w]
  OBVIOUS
<1>1. /\ phase = "open" /\ worker[w] = "got"
      /\ active' = active \cup {r} /\ phase' = phase
      /\ completed' = completed /\ failed' = failed /\ queuedOrActive' = queuedOrActive
  BY <1>0 DEF Begin, MayBegin, Step
<1>2. r \in Runs /\ r # Nothing
  BY <1>0, <1>1, DispatcherAssumption DEF BookOK, TypeOK, HandOK
<1>3. r \in queuedOrActive /\ \A v \in Workers : holding[v] = r => v = w
  BY <1>0, <1>2 DEF BookOK, EachRunInOnePlace
<1>4. r \notin active /\ ~Executes(w)
  BY <1>1, <1>2, <1>3 DEF BookOK, ActiveOK, Executes
<1>5. ~Contains(completed, r) /\ ~Contains(failed, r)
  BY <1>0, <1>1, <1>2, NotYetNoted DEF BookOK
<1>6. Status(r) = "queued" /\ Status(r)' = "running"
  BY <1>1, <1>3, <1>4, <1>5 DEF Status
<1>7. \A x \in Runs : x # r => Status(x)' = Status(x)
  BY <1>1 DEF Status
<1>8. Contract!Becomes(r, "running")
  BY <1>2, <1>6, <1>7, OneAnswer
<1>9. Contract!Running = active
  BY DEF Contract!Running, Status, BookOK, TypeOK
<1>10. Cardinality(Contract!Running) < Cardinality(Workers)
  BY <1>0, <1>4, <1>9, RoomForOne DEF BookOK
(* The instance has a copy of the operator.                                *)
<1>11. Contract!Cardinality(Contract!Running) = Cardinality(Contract!Running)
  BY DEF Contract!Cardinality, Cardinality
<1> QED
  BY <1>1, <1>2, <1>6, <1>8, <1>10, <1>11 DEF Contract!Begin

(* Noting a result may push another run out of a history.                  *)
LEMMA NoteForgets ==
  ASSUME BookOK, NEW w \in Workers, Note(w)
  PROVE  UNCHANGED Contract!vars \/ \E x \in Runs : Contract!Forget(x)
<1> USE DEF bookVars, workerVars, shutdownVars
<1>0. PICK r : r = holding[w]
  OBVIOUS
<1>1. /\ worker[w] \in {"succeeded", "raised"}
      /\ active' = active /\ phase' = phase /\ queuedOrActive' = queuedOrActive
      /\ \/ completed' = Remember(completed, r) /\ failed' = failed
         \/ failed' = Remember(failed, r) /\ completed' = completed
  BY <1>0 DEF Note, Step
<1>2. r \in Runs /\ Executes(w)
  BY <1>0, <1>1, ExecutesRun DEF BookOK, Executes
<1>3. r \in active
  BY <1>0, <1>2 DEF BookOK, ActiveOK
<1>4. \A x \in Runs : Contains(completed, x) \/ Contains(failed, x) =>
        x \in active \/ x \notin queuedOrActive
  BY DEF BookOK, HistoryOK, ActiveOK, Executes
<1>5. /\ \A x : Contains(Remember(completed, r), x) => Contains(completed, x) \/ x = r
      /\ \A x, y : /\ Contains(completed, x) /\ ~Contains(Remember(completed, r), x) /\ x # r
                   /\ Contains(completed, y) /\ ~Contains(Remember(completed, r), y) /\ y # r
                   => x = y
  BY <1>0, <1>2, RememberMembers, DispatcherAssumption DEF BookOK, TypeOK, HistoryOK
<1>6. /\ \A x : Contains(Remember(failed, r), x) => Contains(failed, x) \/ x = r
      /\ \A x, y : /\ Contains(failed, x) /\ ~Contains(Remember(failed, r), x) /\ x # r
                   /\ Contains(failed, y) /\ ~Contains(Remember(failed, r), y) /\ y # r
                   => x = y
  BY <1>2, RememberMembers, DispatcherAssumption DEF BookOK, TypeOK, HistoryOK
<1>7. \A x \in Runs : ~(Contains(completed, x) /\ Contains(failed, x))
  BY DEF BookOK, HistoryOK
<1>8. CASE \A x \in Runs : Status(x)' = Status(x)
  BY <1>1, <1>8, SameAnswers
<1>9. ASSUME NEW x \in Runs, Status(x)' # Status(x)
      PROVE  Contract!Forget(x)
  <2>1. x \notin active /\ x # r
    BY <1>1, <1>3, <1>9 DEF Status
  <2>2. \/ Contains(completed, x) /\ ~Contains(completed', x)
        \/ Contains(failed, x) /\ ~Contains(failed', x)
    BY <1>1, <1>5, <1>6, <1>9, <2>1 DEF Status
  <2>3. x \notin queuedOrActive /\ ~Contains(completed', x) /\ ~Contains(failed', x)
    BY <1>1, <1>4, <1>5, <1>6, <1>7, <2>1, <2>2
  <2>4. Status(x) \in {"completed", "failed"} /\ Status(x)' = "unknown"
    BY <1>1, <2>1, <2>2, <2>3 DEF Status
  <2>5. \A y \in Runs : y # x => Status(y)' = Status(y)
    <3>1. ASSUME NEW y \in Runs, y # x, y # r
          PROVE  /\ Contains(completed', y) <=> Contains(completed, y)
                 /\ Contains(failed', y) <=> Contains(failed, y)
      BY <1>1, <1>5, <1>6, <2>1, <2>2, <3>1
    <3>2. Status(r) = "running" /\ Status(r)' = "running"
      BY <1>1, <1>3 DEF Status
    <3> QED
      BY <1>1, <3>1, <3>2 DEF Status
  <2>6. Contract!Becomes(x, "unknown")
    BY <2>4, <2>5, OneAnswer
  <2> QED
    BY <1>1, <2>4, <2>6 DEF Contract!Forget, Contract!Finished
<1> QED
  BY <1>8, <1>9

LEMMA ReleaseIsEnd ==
  ASSUME BookOK, NEW w \in Workers, Release(w)
  PROVE  \E r \in Runs : Contract!End(r)
<1> USE DEF bookVars, workerVars, shutdownVars
<1>0. PICK r : r = holding[w]
  OBVIOUS
<1>1. /\ worker[w] = "noted" /\ phase' = phase
      /\ active' = active \ {r} /\ queuedOrActive' = queuedOrActive \ {r}
      /\ completed' = completed /\ failed' = failed
  BY <1>0 DEF Release, Step
<1>2. r \in Runs /\ Executes(w)
  BY <1>0, <1>1, ExecutesRun DEF BookOK, Executes
<1>3. r \in active
  BY <1>0, <1>2 DEF BookOK, ActiveOK
<1>4. Status(r) = "running" /\ Status(r)' \in {"completed", "failed", "unknown"}
  BY <1>1, <1>3 DEF Status
<1>5. \A x \in Runs : x # r => Status(x)' = Status(x)
  BY <1>1 DEF Status
<1>6. Contract!Becomes(r, Status(r)')
  BY <1>2, <1>5, OneAnswer
<1> QED
  BY <1>1, <1>2, <1>4, <1>6 DEF Contract!End, Contract!Finished

LEMMA DiscardIsDiscard ==
  ASSUME BookOK, NEW w \in Workers, Discard(w)
  PROVE  \E r \in Runs : Contract!Discard(r)
<1> USE DEF bookVars, workerVars, shutdownVars
<1>0. PICK r : r = holding[w]
  OBVIOUS
<1>1. /\ worker[w] = "got" /\ phase # "open" /\ phase' = phase
      /\ active' = active /\ queuedOrActive' = queuedOrActive \ {r}
      /\ completed' = completed /\ failed' = failed
  BY <1>0 DEF Discard, MayBegin, Step
<1>2. r \in Runs /\ r # Nothing
  BY <1>0, <1>1, DispatcherAssumption DEF BookOK, TypeOK, HandOK
<1>3. r \in queuedOrActive /\ \A v \in Workers : holding[v] = r => v = w
  BY <1>0, <1>2 DEF BookOK, EachRunInOnePlace
<1>4. r \notin active
  BY <1>1, <1>2, <1>3 DEF BookOK, ActiveOK, Executes
<1>5. ~Contains(completed, r) /\ ~Contains(failed, r)
  BY <1>0, <1>1, <1>2, NotYetNoted DEF BookOK
<1>6. Status(r) = "queued" /\ Status(r)' = "unknown"
  BY <1>1, <1>3, <1>4, <1>5 DEF Status
<1>7. \A x \in Runs : x # r => Status(x)' = Status(x)
  BY <1>1 DEF Status
<1>8. Contract!Becomes(r, "unknown")
  BY <1>2, <1>6, <1>7, OneAnswer
<1> QED
  BY <1>1, <1>2, <1>6, <1>8 DEF Contract!Discard

LEMMA CloseIsClose ==
  ASSUME Close
  PROVE  Contract!Close
<1>1. /\ phase = "open" /\ phase' = "cancelling"
      /\ UNCHANGED <<active, queuedOrActive, completed, failed>>
  BY DEF Close, bookVars
<1>2. \A x \in Runs : Status(x)' = Status(x)
  BY <1>1 DEF Status
<1>3. (phase' = "open") = FALSE
  BY <1>1
<1> QED
  BY <1>1, <1>2, <1>3 DEF Contract!Close

LEMMA ContractStep == BookOK /\ [Next]_vars => [Contract!Next]_Contract!vars
<1> SUFFICES ASSUME BookOK, [Next]_vars PROVE [Contract!Next]_Contract!vars
  OBVIOUS
<1> USE DEF bookVars, workerVars, shutdownVars
<1>1. ASSUME UNCHANGED <<active, queuedOrActive, completed, failed>>,
             phase' = "open" <=> phase = "open"
      PROVE  UNCHANGED Contract!vars
  <2>1. \A x \in Runs : Status(x)' = Status(x)
    BY <1>1 DEF Status
  <2>2. (phase = "open")' = (phase = "open")
    BY <1>1
  <2> QED
    BY <2>1, <2>2 DEF Contract!vars
<1>2. \/ /\ UNCHANGED <<active, queuedOrActive, completed, failed>>
         /\ phase' = "open" <=> phase = "open"
      \/ \E r \in Runs : Admit(r)
      \/ \E w \in Workers : Begin(w) \/ Discard(w) \/ Note(w) \/ Release(w)
      \/ Close
  BY DEF Next, Work, ShutDown, Put, Get, Execute, AskToStop, AllAsked, Signal,
         AllSignalled, Join, Report, vars
<1> QED
  BY <1>1, <1>2, AdmitIsAdmit, BeginIsBegin, NoteForgets, ReleaseIsEnd,
     DiscardIsDiscard, CloseIsClose DEF Contract!Next

(* What get_status answers follows the contract, for pools and histories   *)
(* of any size.                                                            *)
THEOREM DispatcherKeepsContract == Spec => ImplementsContract
<1>1. Init => BookOK
  BY TypeInit, HandInit, PlaceInit, ShutdownInit, HistoryInit DEF BookOK, ShutdownOK
<1>2. BookOK /\ [Next]_vars => BookOK'
  BY TypeStep, HandStep, PlaceStep, ActiveStep, HistoryStep DEF BookOK
<1> QED
  BY <1>1, <1>2, ContractInit, ContractStep, PTL DEF Spec, ImplementsContract, Contract!Spec

===============================================================================
