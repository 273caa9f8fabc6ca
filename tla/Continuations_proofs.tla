------------------------ MODULE Continuations_proofs ------------------------
(***************************************************************************)
(* Proofs that count, for every number of clients, handlers and buffers.   *)
(*   ExecNoLostMachine    something is under way for every live machine    *)
(*   ExecOneContinuation  exactly one thing, when reads complete without   *)
(*                        the errors that a machine answers twice          *)
(*   ExecListenerArmed    exactly one accept, while the listener accepts   *)
(*   ExecSlotsAccountedFor  no connection is forgotten in its file slot    *)
(***************************************************************************)
EXTENDS Executor_proofs

USE SizesAssumption, UringAssumption, GenSpanAssumption

(* How many elements of a queue are in S. *)
Where(s, S) == {k \in DOMAIN s : s[k] \in S}

Count(s, S) == Cardinality(Where(s, S))

(* A count is a number, and is zero exactly when nothing is counted. *)
LEMMA CountType ==
  \A T : \A s \in Seq(T) : \A S :
    /\ IsFiniteSet(Where(s, S))
    /\ Count(s, S) \in Nat
    /\ Count(s, S) = 0 <=> \A k \in DOMAIN s : s[k] \notin S
<1> SUFFICES ASSUME NEW T, NEW s \in Seq(T), NEW S
             PROVE  /\ IsFiniteSet(Where(s, S))
                    /\ Count(s, S) \in Nat
                    /\ Count(s, S) = 0 <=> \A k \in DOMAIN s : s[k] \notin S
  OBVIOUS
<1>1. IsFiniteSet(DOMAIN s)
  <2>1. DOMAIN s = 1 .. Len(s) /\ Len(s) \in Int
    OBVIOUS
  <2> QED
    BY <2>1, FS_Interval
<1>2. Where(s, S) \subseteq DOMAIN s
  BY DEF Where
<1>3. IsFiniteSet(Where(s, S))
  BY <1>1, <1>2, FS_Subset
<1>4. Count(s, S) \in Nat /\ (Count(s, S) = 0 <=> Where(s, S) = {})
  BY <1>3, FS_CardinalityType, FS_EmptySet DEF Count
<1> QED
  BY <1>3, <1>4 DEF Where

(* One element that is taken out, wherever it is. *)
LEMMA CountWithout ==
  \A T : \A s, t \in Seq(T) : \A k \in DOMAIN s : \A S :
    /\ Len(s) = Len(t) + 1
    /\ \A j \in 1 .. Len(t) : t[j] = IF j < k THEN s[j] ELSE s[j + 1]
    => Count(s, S) = Count(t, S) + (IF s[k] \in S THEN 1 ELSE 0)
<1> TAKE T
<1> TAKE s, t \in Seq(T)
<1> TAKE k \in DOMAIN s
<1> TAKE S
<1> HAVE /\ Len(s) = Len(t) + 1
         /\ \A j \in 1 .. Len(t) : t[j] = IF j < k THEN s[j] ELSE s[j + 1]
<1> DEFINE A == Where(t, S)
           B == Where(s, S) \ {k}
           f == [j \in A |-> IF j < k THEN j ELSE j + 1]
<1>1. /\ DOMAIN s = 1 .. Len(t) + 1 /\ DOMAIN t = 1 .. Len(t) /\ Len(t) \in Nat
      /\ k \in 1 .. Len(t) + 1
  OBVIOUS
<1>2. ASSUME NEW j \in A PROVE f[j] \in B
  BY <1>1 DEF Where
<1>3. ASSUME NEW i \in A, NEW j \in A, f[i] = f[j] PROVE i = j
  BY <1>1, <1>3 DEF Where
<1>4. ASSUME NEW b \in B PROVE \E j \in A : f[j] = b
  <2>1. b \in 1 .. Len(t) + 1 /\ s[b] \in S /\ b # k
    BY <1>1 DEF Where
  <2>2. CASE b < k
    <3>1. b \in 1 .. Len(t) /\ t[b] = s[b]
      BY <1>1, <2>1, <2>2
    <3>2. b \in A
      BY <1>1, <2>1, <3>1 DEF Where
    <3> QED
      BY <2>2, <3>2
  <2>3. CASE ~(b < k)
    <3>1. b - 1 \in 1 .. Len(t) /\ ~(b - 1 < k) /\ (b - 1) + 1 = b
      BY <1>1, <2>1, <2>3
    <3>2. t[b - 1] = s[b]
      BY <3>1
    <3>3. b - 1 \in A
      BY <1>1, <2>1, <3>1, <3>2 DEF Where
    <3> QED
      BY <3>1, <3>3
  <2> QED
    BY <2>2, <2>3
<1>5. f \in Bijection(A, B)
  BY <1>2, <1>3, <1>4 DEF Bijection, Injection, Surjection, IsInjective
<1>6. IsFiniteSet(A) /\ IsFiniteSet(Where(s, S))
  BY CountType
<1>7. Cardinality(B) = Count(t, S)
  BY <1>5, <1>6, FS_Bijection DEF ExistsBijection, Count
<1>8. Count(s, S) = Cardinality(B) + (IF s[k] \in S THEN 1 ELSE 0)
  <2>1. k \in Where(s, S) <=> s[k] \in S
    BY DEF Where
  <2>2. Count(s, S) \in Nat
    BY CountType
  <2>3. Cardinality(B) = IF k \in Where(s, S) THEN Count(s, S) - 1 ELSE Count(s, S)
    BY <1>6, FS_RemoveElement DEF Count
  <2> QED
    BY <2>1, <2>2, <2>3
<1> QED
  BY <1>7, <1>8

(* The head of a queue. *)
LEMMA CountTail ==
  \A T : \A s \in Seq(T) : \A S : s # << >> =>
    Count(s, S) = Count(Tail(s), S) + (IF Head(s) \in S THEN 1 ELSE 0)
<1> SUFFICES ASSUME NEW T, NEW s \in Seq(T), NEW S, s # << >>
             PROVE  Count(s, S) = Count(Tail(s), S) + (IF Head(s) \in S THEN 1 ELSE 0)
  OBVIOUS
<1> DEFINE t == Tail(s)
<1>1. /\ t \in Seq(T) /\ Len(s) = Len(t) + 1 /\ 1 \in DOMAIN s /\ Head(s) = s[1]
      /\ \A j \in 1 .. Len(t) : t[j] = s[j + 1] /\ ~(j < 1)
  OBVIOUS
<1> HIDE DEF t
<1>2. \A j \in 1 .. Len(t) : t[j] = IF j < 1 THEN s[j] ELSE s[j + 1]
  BY <1>1
<1>3. Count(s, S) = Count(t, S) + (IF s[1] \in S THEN 1 ELSE 0)
  BY <1>1, <1>2, CountWithout
<1> QED
  BY <1>1, <1>3 DEF t

(* An element that is added. *)
LEMMA CountAppend ==
  \A T : \A s \in Seq(T) : \A e \in T : \A S :
    Count(Append(s, e), S) = Count(s, S) + (IF e \in S THEN 1 ELSE 0)
<1> SUFFICES ASSUME NEW T, NEW s \in Seq(T), NEW e \in T, NEW S
             PROVE  Count(Append(s, e), S) = Count(s, S) + (IF e \in S THEN 1 ELSE 0)
  OBVIOUS
<1> DEFINE t == Append(s, e)
           n == Len(s) + 1
<1>1. /\ t \in Seq(T) /\ Len(t) = n /\ n \in DOMAIN t /\ t[n] = e /\ Len(s) \in Nat
      /\ \A j \in 1 .. Len(s) : t[j] = s[j] /\ j < n
  OBVIOUS
<1> HIDE DEF t
<1>2. \A j \in 1 .. Len(s) : s[j] = IF j < n THEN t[j] ELSE t[j + 1]
  BY <1>1
<1>3. Count(t, S) = Count(s, S) + (IF t[n] \in S THEN 1 ELSE 0)
  BY <1>1, <1>2, CountWithout
<1> QED
  BY <1>1, <1>3 DEF t

(* An element that is removed. *)
LEMMA CountRemove ==
  \A T : \A s \in Seq(T) : \A k \in DOMAIN s : \A S :
    Count(s, S) = Count(RemoveAt(s, k), S) + (IF s[k] \in S THEN 1 ELSE 0)
<1> SUFFICES ASSUME NEW T, NEW s \in Seq(T), NEW k \in DOMAIN s, NEW S
             PROVE  Count(s, S) = Count(RemoveAt(s, k), S) + (IF s[k] \in S THEN 1 ELSE 0)
  OBVIOUS
<1> DEFINE a == SubSeq(s, 1, k - 1)
           b == SubSeq(s, k + 1, Len(s))
           t == RemoveAt(s, k)
<1>1. DOMAIN s = 1 .. Len(s) /\ Len(s) \in Nat /\ k \in 1 .. Len(s)
  OBVIOUS
<1>2. /\ a \in Seq(T) /\ Len(a) = k - 1 /\ \A j \in 1 .. k - 1 : a[j] = s[j]
  BY <1>1
<1>3. /\ b \in Seq(T) /\ Len(b) = Len(s) - k /\ \A j \in 1 .. Len(s) - k : b[j] = s[k + j]
  BY <1>1
<1>4. t = a \o b
  BY DEF RemoveAt
<1> HIDE DEF a, b, t
<1>5. /\ t \in Seq(T) /\ Len(t) = Len(a) + Len(b)
      /\ \A j \in 1 .. Len(a) + Len(b) : t[j] = IF j <= Len(a) THEN a[j] ELSE b[j - Len(a)]
  <2>1. a \in Seq(T) /\ b \in Seq(T)
    BY <1>2, <1>3
  <2> QED
    BY ONLY <1>4, <2>1, ConcatProperties
<1>l. Len(a) = k - 1 /\ Len(b) = Len(s) - k
  BY <1>2, <1>3
<1>6. t \in Seq(T) /\ Len(s) = Len(t) + 1
  <2>1. Len(t) = (k - 1) + (Len(s) - k)
    BY <1>5, <1>l
  <2>2. Len(s) \in Int /\ k \in Int /\ Len(t) \in Int
    BY <1>1, <1>5
  <2>4. Len(s) = Len(t) + 1
    BY ONLY <2>1, <2>2
  <2> QED
    BY <1>5, <2>4
<1>7. ASSUME NEW j \in 1 .. Len(t)
      PROVE  t[j] = IF j < k THEN s[j] ELSE s[j + 1]
  <2>1. j \in 1 .. Len(a) + Len(b)
    BY <1>5
  <2>2. CASE j < k
    <3>1. j \in 1 .. k - 1 /\ j <= Len(a)
      BY <1>1, <1>l, <2>1, <2>2
    <3> QED
      <4>1. t[j] = a[j]
        BY <1>5, <2>1, <3>1
      <4>2. a[j] = s[j]
        BY <1>2, <3>1
      <4> QED
        BY <2>2, <4>1, <4>2
  <2>3. CASE ~(j < k)
    <3>1. /\ ~(j <= Len(a)) /\ j - Len(a) \in 1 .. Len(s) - k
          /\ k + (j - Len(a)) = j + 1
      <4> DEFINE n == Len(s)
      <4>1. n \in Nat /\ k \in 1 .. n /\ j \in 1 .. (k - 1) + (n - k) /\ ~(j < k)
        BY <1>1, <1>l, <2>1, <2>3, Zenon
      <4> HIDE DEF n
      <4>2. ~(j <= k - 1) /\ j - (k - 1) \in 1 .. n - k /\ k + (j - (k - 1)) = j + 1
        BY ONLY <4>1
      <4> QED
        BY <1>l, <4>2, Zenon DEF n
    <3>2. b[j - Len(a)] = s[k + (j - Len(a))]
      BY <1>3, <3>1
    <3> QED
      BY <1>5, <2>1, <2>3, <3>1, <3>2
  <2> QED
    BY <2>2, <2>3
<1>8. Count(s, S) = Count(t, S) + (IF s[k] \in S THEN 1 ELSE 0)
  <2>1. /\ s \in Seq(T) /\ t \in Seq(T) /\ k \in DOMAIN s
        /\ Len(s) = Len(t) + 1
        /\ \A j \in 1 .. Len(t) : t[j] = IF j < k THEN s[j] ELSE s[j + 1]
    BY <1>6, <1>7
  <2> QED
    BY ONLY <2>1, CountWithout
<1> QED
  BY <1>8 DEF t

-----------------------------------------------------------------------------
(* What is under way for a handle. *)
EventsFor(h) == {e \in RunQueueEvents : e.handle = h}

RequestsBy(h) == {r \in Sqes \cup Reads \cup Cqes : r.user = h}

OfQueues(S) == Count(run_queues[0], S) + Count(run_queues[1], S)

InQueues(h) == OfQueues(EventsFor(h))

InRing(h) ==
  Count(sq, RequestsBy(h)) + Count(reads, RequestsBy(h)) + Count(cq, RequestsBy(h))

UnderWay(h) == InQueues(h) + InRing(h) + (IF current = h THEN Len(intents) ELSE 0)

(* The counts are numbers. *)
LEMMA UnderWayType ==
  ASSUME TypeOK
  PROVE  \A h : /\ InQueues(h) \in Nat /\ InRing(h) \in Nat /\ UnderWay(h) \in Nat
                /\ current = h /\ intents # << >> => UnderWay(h) # 0
<1>1. /\ run_queues[0] \in Seq(RunQueueEvents) /\ run_queues[1] \in Seq(RunQueueEvents)
      /\ sq \in Seq(Sqes) /\ reads \in Seq(Reads) /\ cq \in Seq(Cqes)
      /\ intents \in Seq(IntentsOf(current))
  BY DEF TypeOK
<1>2. \A h : InQueues(h) \in Nat
  BY <1>1, CountType DEF InQueues, OfQueues
<1>3. \A h : InRing(h) \in Nat
  BY <1>1, CountType DEF InRing
<1>4. Len(intents) \in Nat /\ (intents # << >> => Len(intents) # 0)
  BY <1>1, EmptySeq
<1> QED
  BY <1>2, <1>3, <1>4 DEF UnderWay

(* The same after a step. *)
LEMMA UnderWayTypeNext ==
  ASSUME TypeOK'
  PROVE  \A h : InQueues(h)' \in Nat /\ InRing(h)' \in Nat /\ UnderWay(h)' \in Nat
<1>1. /\ run_queues'[0] \in Seq(RunQueueEvents) /\ run_queues'[1] \in Seq(RunQueueEvents)
      /\ sq' \in Seq(Sqes) /\ reads' \in Seq(Reads) /\ cq' \in Seq(Cqes)
      /\ intents' \in Seq(IntentsOf(current)')
  BY DEF TypeOK
<1>2. \A h : InQueues(h)' \in Nat
  BY <1>1, CountType DEF InQueues, OfQueues
<1>3. \A h : InRing(h)' \in Nat
  BY <1>1, CountType DEF InRing
<1>4. Len(intents') \in Nat
  BY <1>1
<1> QED
  BY <1>2, <1>3, <1>4 DEF UnderWay

(* They are the counts of the properties. *)
LEMMA UnderWayContinues ==
  ASSUME TypeOK
  PROVE  \A h : Continuations(h) = UnderWay(h)
<1> SUFFICES ASSUME NEW h PROVE Continuations(h) = UnderWay(h)
  OBVIOUS
<1>1. /\ run_queues[0] \in Seq(RunQueueEvents) /\ run_queues[1] \in Seq(RunQueueEvents)
      /\ sq \in Seq(Sqes) /\ reads \in Seq(Reads) /\ cq \in Seq(Cqes)
  BY DEF TypeOK
<1>2. ASSUME NEW s \in Seq(RunQueueEvents)
      PROVE  InSeq(s, LAMBDA e : e.handle = h) = Count(s, EventsFor(h))
  <2>1. \A k \in DOMAIN s : s[k] \in RunQueueEvents
    OBVIOUS
  <2>2. {k \in DOMAIN s : s[k].handle = h} = Where(s, EventsFor(h))
    BY <2>1 DEF Where, EventsFor
  <2> QED
    BY <2>2 DEF InSeq, Count
<1>3. ASSUME NEW T \in SUBSET (Sqes \cup Reads \cup Cqes), NEW s \in Seq(T)
      PROVE  InSeq(s, LAMBDA e : e.user = h) = Count(s, RequestsBy(h))
  <2>1. \A k \in DOMAIN s : s[k] \in Sqes \cup Reads \cup Cqes
    OBVIOUS
  <2>2. {k \in DOMAIN s : s[k].user = h} = Where(s, RequestsBy(h))
    BY <2>1 DEF Where, RequestsBy
  <2> QED
    BY <2>2 DEF InSeq, Count
<1>4. /\ InSeq(run_queues[0], LAMBDA e : e.handle = h) = Count(run_queues[0], EventsFor(h))
      /\ InSeq(run_queues[1], LAMBDA e : e.handle = h) = Count(run_queues[1], EventsFor(h))
  BY <1>1, <1>2
<1>5. /\ InSeq(sq, LAMBDA e : e.user = h) = Count(sq, RequestsBy(h))
      /\ InSeq(reads, LAMBDA e : e.user = h) = Count(reads, RequestsBy(h))
      /\ InSeq(cq, LAMBDA e : e.user = h) = Count(cq, RequestsBy(h))
  BY <1>1, <1>3
<1>6. InQueues(h) \in Nat /\ InRing(h) \in Nat /\ UnderWay(h) \in Nat
  BY UnderWayType
<1>7. /\ Count(run_queues[0], EventsFor(h)) \in Nat
      /\ Count(run_queues[1], EventsFor(h)) \in Nat
      /\ Count(sq, RequestsBy(h)) \in Nat
      /\ Count(reads, RequestsBy(h)) \in Nat
      /\ Count(cq, RequestsBy(h)) \in Nat
  BY <1>1, CountType
<1>8. intents \in Seq(IntentsOf(current)) => Len(intents) \in Nat
  OBVIOUS
<1>9. (IF current = h THEN Len(intents) ELSE 0) \in Nat
  BY <1>8 DEF TypeOK
<1> DEFINE n == IF current = h THEN Len(intents) ELSE 0
<1>10. Continuations(h) =
         Count(run_queues[0], EventsFor(h)) + Count(run_queues[1], EventsFor(h)) + n
           + Count(sq, RequestsBy(h)) + Count(reads, RequestsBy(h)) + Count(cq, RequestsBy(h))
  BY <1>4, <1>5 DEF Continuations
<1>11. UnderWay(h) =
         (Count(run_queues[0], EventsFor(h)) + Count(run_queues[1], EventsFor(h)))
           + (Count(sq, RequestsBy(h)) + Count(reads, RequestsBy(h)) + Count(cq, RequestsBy(h)))
           + n
  BY DEF UnderWay, InQueues, OfQueues, InRing
<1> HIDE DEF n
<1> QED
  BY <1>7, <1>9, <1>10, <1>11 DEF n

(* An event that is popped. *)
LEMMA PopCounts ==
  ASSUME TypeOK, Pop, NEW S
  PROVE  OfQueues(S) = OfQueues(S)' + (IF NextEvent \in S THEN 1 ELSE 0)
<1> DEFINE c == current_run_queue
<1>1. /\ c \in {0, 1} /\ run_queues \in [{0, 1} -> Seq(RunQueueEvents)]
      /\ run_queues[c] \in Seq(RunQueueEvents) /\ run_queues[c] # << >>
      /\ run_queues' = [run_queues EXCEPT ![c] = Tail(run_queues[c])]
      /\ NextEvent = Head(run_queues[c])
  BY DEF TypeOK, Pop, NextEvent
<1> HIDE DEF c
<1>2. Count(run_queues[c], S)
        = Count(Tail(run_queues[c]), S) + (IF NextEvent \in S THEN 1 ELSE 0)
  BY <1>1, CountTail
<1>3. /\ run_queues'[c] = Tail(run_queues[c])
      /\ \A q \in {0, 1} \ {c} : run_queues'[q] = run_queues[q]
  BY <1>1
<1>4. /\ Count(run_queues[0], S) \in Nat /\ Count(run_queues[1], S) \in Nat
      /\ Count(Tail(run_queues[c]), S) \in Nat
  <2>1. Tail(run_queues[c]) \in Seq(RunQueueEvents)
    BY <1>1, PopType
  <2> QED
    BY <1>1, <2>1, CountType
<1>5. Count(run_queues[0], S) + Count(run_queues[1], S)
        = Count(run_queues'[0], S) + Count(run_queues'[1], S)
            + (IF NextEvent \in S THEN 1 ELSE 0)
  <2>1. CASE c = 0
    BY <1>2, <1>3, <1>4, <2>1
  <2>2. CASE c = 1
    BY <1>2, <1>3, <1>4, <2>2
  <2> QED
    BY <1>1, <2>1, <2>2
<1> QED
  BY <1>5 DEF OfQueues

(* The same for the events of one handle. *)
LEMMA PopCount ==
  ASSUME TypeOK, Pop, NEW h
  PROVE  InQueues(h) = InQueues(h)' + (IF NextEvent.handle = h THEN 1 ELSE 0)
<1>1. NextEvent \in EventsFor(h) <=> NextEvent.handle = h
  BY PopEventType DEF EventsFor
<1> QED
  BY <1>1, PopCounts DEF InQueues

(* An event that is pushed. *)
LEMMA PushCounts ==
  ASSUME TypeOK, NEW q \in {0, 1}, NEW e \in RunQueueEvents, Push(q, e), NEW S
  PROVE  OfQueues(S)' = OfQueues(S) + (IF e \in S THEN 1 ELSE 0)
<1>1. /\ run_queues \in [{0, 1} -> Seq(RunQueueEvents)]
      /\ run_queues[q] \in Seq(RunQueueEvents)
      /\ run_queues' = [run_queues EXCEPT ![q] = Append(run_queues[q], e)]
  BY DEF TypeOK, Push
<1>2. Count(Append(run_queues[q], e), S) = Count(run_queues[q], S) + (IF e \in S THEN 1 ELSE 0)
  BY <1>1, CountAppend
<1>3. /\ run_queues'[q] = Append(run_queues[q], e)
      /\ \A p \in {0, 1} \ {q} : run_queues'[p] = run_queues[p]
  BY <1>1
<1>4. /\ Count(run_queues[0], S) \in Nat /\ Count(run_queues[1], S) \in Nat
      /\ Count(Append(run_queues[q], e), S) \in Nat
  <2>1. Append(run_queues[q], e) \in Seq(RunQueueEvents)
    BY <1>1, PushType
  <2> QED
    BY <1>1, <2>1, CountType
<1>5. Count(run_queues'[0], S) + Count(run_queues'[1], S)
        = Count(run_queues[0], S) + Count(run_queues[1], S) + (IF e \in S THEN 1 ELSE 0)
  <2>1. CASE q = 0
    <3>1. run_queues'[0] = Append(run_queues[q], e) /\ run_queues'[1] = run_queues[1]
      BY <1>3, <2>1
    <3>2. Count(run_queues'[0], S) = Count(run_queues[0], S) + (IF e \in S THEN 1 ELSE 0)
      BY <1>2, <2>1, <3>1
    <3> QED
      BY <1>4, <3>1, <3>2
  <2>2. CASE q = 1
    <3>1. run_queues'[1] = Append(run_queues[q], e) /\ run_queues'[0] = run_queues[0]
      BY <1>3, <2>2
    <3>2. Count(run_queues'[1], S) = Count(run_queues[1], S) + (IF e \in S THEN 1 ELSE 0)
      BY <1>2, <2>2, <3>1
    <3> QED
      BY <1>4, <3>1, <3>2
  <2> QED
    BY <2>1, <2>2
<1> QED
  BY <1>5 DEF OfQueues

(* The same for the events of one handle. *)
LEMMA PushCount ==
  ASSUME TypeOK, NEW q \in {0, 1}, NEW e \in RunQueueEvents, Push(q, e), NEW h
  PROVE  InQueues(h)' = InQueues(h) + (IF e.handle = h THEN 1 ELSE 0)
<1>1. e \in EventsFor(h) <=> e.handle = h
  BY DEF EventsFor
<1> QED
  BY <1>1, PushCounts DEF InQueues

(* The kernel, and the executor inside io_uring_enter, pass requests on    *)
(* and drop none.                                                          *)
LEMMA KernelCount ==
  ASSUME TypeOK, NEW h \in ConnHandles,
         \/ EnterIssues \/ KernelAccepts \/ KernelRefuses \/ KernelReads \/ KernelFails
         \/ \E c \in Conns : KernelEnds(c)
  PROVE  InRing(h)' = InRing(h)
<1> DEFINE S == RequestsBy(h)
<1>1. /\ sq \in Seq(Sqes) /\ cq \in Seq(Cqes) /\ reads \in Seq(Reads)
      /\ Count(sq, S) \in Nat /\ Count(cq, S) \in Nat /\ Count(reads, S) \in Nat
  BY CountType DEF TypeOK
<1>2. /\ InRing(h) = Count(sq, S) + Count(reads, S) + Count(cq, S)
      /\ InRing(h)' = Count(sq', S) + Count(reads', S) + Count(cq', S)
  BY DEF InRing
<1>3. h # TcpHandle /\ \A r \in Sqes \cup Reads \cup Cqes : r \in S <=> r.user = h
  BY HandleKinds DEF RequestsBy
<1> HIDE DEF S
<1>4. ASSUME NEW r \in Cqes, cq' = Append(cq, r)
      PROVE  Count(cq', S) = Count(cq, S) + (IF r.user = h THEN 1 ELSE 0)
  <2>1. Count(cq', S) = Count(cq, S) + (IF r \in S THEN 1 ELSE 0)
    BY <1>1, <1>4, CountAppend
  <2> QED
    BY <1>3, <2>1
<1>5. CASE EnterIssues
  <2> DEFINE e == Head(sq)
  <2>1. sq # << >> /\ sq' = Tail(sq) /\ e \in Sqes
    BY <1>1, <1>5, PopType DEF EnterIssues, Issue
  <2>2. Count(sq, S) = Count(sq', S) + (IF e.user = h THEN 1 ELSE 0)
    <3>1. Count(sq, S) = Count(Tail(sq), S) + (IF e \in S THEN 1 ELSE 0)
      BY <1>1, <2>1, CountTail
    <3> QED
      BY <1>3, <2>1, <3>1
  <2>3. Count(sq', S) \in Nat
    BY <1>1, <2>1, PopType, CountType
  <2>4. \/ e.user = TcpHandle /\ UNCHANGED <<cq, reads>>
        \/ reads' = reads /\ \E res \in Int : cq' = Append(cq, Cqe(e.user, res, FALSE))
                                              /\ e.user \in ConnHandles
        \/ /\ cq' = cq /\ e.op = "recv" /\ files[e.fixed] # None /\ e.fixed \in Slots
           /\ reads' = Append(reads, [user |-> e.user, conn |-> files[e.fixed],
                                      addr |-> e.addr, len |-> e.len])
    <3>1. -EFAULT \in Int /\ -EBADF \in Int /\ 0 \in Int
      BY DEF EFAULT, EBADF
    <3>2. e.op # "accept" => e.user \in ConnHandles
      BY <2>1 DEF Sqes, AcceptMulti
    <3>3. e.op = "accept" => e.user = TcpHandle
      BY <2>1 DEF Sqes, AcceptMulti
    <3>4. IssueAccept \/ IssueRecv \/ IssueClose
      BY <1>5 DEF EnterIssues, Issue
    <3> QED
      BY <3>1, <3>2, <3>3, <3>4 DEF IssueAccept, IssueRecv, IssueClose, Post
  <2>5. CASE e.user = TcpHandle /\ UNCHANGED <<cq, reads>>
    BY <1>1, <1>2, <1>3, <2>2, <2>3, <2>5
  <2>6. ASSUME NEW res \in Int, cq' = Append(cq, Cqe(e.user, res, FALSE)),
               e.user \in ConnHandles, reads' = reads
        PROVE  InRing(h)' = InRing(h)
    <3> DEFINE r == Cqe(e.user, res, FALSE)
    <3>1. r \in Cqes /\ r.user = e.user
      BY <2>6 DEF Cqe, Cqes
    <3> HIDE DEF r
    <3>2. Count(cq', S) = Count(cq, S) + (IF e.user = h THEN 1 ELSE 0)
      BY <1>4, <2>6, <3>1 DEF r
    <3>3. InRing(h)' = Count(sq', S) + Count(reads, S) + Count(cq', S)
      BY <1>2, <2>6
    <3> HIDE DEF e
    <3>4. CASE e.user = h
      BY <1>1, <1>2, <2>2, <2>3, <3>2, <3>3, <3>4
    <3>5. CASE e.user # h
      BY <1>1, <1>2, <2>2, <2>3, <3>2, <3>3, <3>5
    <3> QED
      BY <3>4, <3>5
  <2>7. CASE /\ cq' = cq /\ e.op = "recv" /\ files[e.fixed] # None /\ e.fixed \in Slots
             /\ reads' = Append(reads, [user |-> e.user, conn |-> files[e.fixed],
                                        addr |-> e.addr, len |-> e.len])
    <3> DEFINE r == [user |-> e.user, conn |-> files[e.fixed], addr |-> e.addr, len |-> e.len]
    <3>1. e \in [op : {"recv"}, user : ConnHandles, fixed : Slots, addr : Addresses,
                 len : 1 .. BufSize, buf : 0 .. NBufs - 1]
      BY <2>1, <2>7 DEF Sqes, AcceptMulti
    <3>2. r \in Reads /\ r.user = e.user
      BY <2>7, <3>1 DEF Reads, TypeOK
    <3>3. reads' = Append(reads, r)
      BY <2>7
    <3> HIDE DEF r
    <3>4. Count(reads', S) = Count(reads, S) + (IF r \in S THEN 1 ELSE 0)
      BY <1>1, <3>2, <3>3, CountAppend
    <3>5. Count(reads', S) = Count(reads, S) + (IF e.user = h THEN 1 ELSE 0)
      BY <1>3, <3>2, <3>4
    <3>6. cq' = cq
      BY <2>7
    <3> HIDE DEF e
    <3>7. Count(reads', S) \in Nat
      <4>1. Append(reads, r) \in Seq(Reads)
        BY <1>1, <3>2, PushType
      <4> QED
        BY <3>3, <4>1, CountType
    <3>8. InRing(h)' = Count(sq', S) + Count(reads', S) + Count(cq, S)
      BY <1>2, <3>6
    <3>9. CASE e.user = h
      BY <1>1, <1>2, <2>2, <2>3, <3>5, <3>7, <3>8, <3>9
    <3>10. CASE e.user # h
      BY <1>1, <1>2, <2>2, <2>3, <3>5, <3>7, <3>8, <3>10
    <3> QED
      BY <3>9, <3>10
  <2> QED
    BY <2>4, <2>5, <2>6, <2>7
<1>6. CASE KernelAccepts \/ KernelRefuses
  <2>1. UNCHANGED <<sq, reads>>
    BY <1>6 DEF KernelAccepts, KernelRefuses, AcceptCompletes, AcceptOverflows
  <2>2. \E res \in AcceptResults : \E more \in BOOLEAN : cq' = Append(cq, Cqe(TcpHandle, res, more))
    <3>1. -ENFILE \in AcceptResults
      BY DEF ENFILE, AcceptResults
    <3>2. Slots \subseteq AcceptResults
      BY DEF Slots, AcceptResults
    <3> QED
      BY <1>6, <3>1, <3>2 DEF KernelAccepts, KernelRefuses, AcceptCompletes, AcceptOverflows, Post
  <2>3. PICK res \in AcceptResults : \E more \in BOOLEAN :
          cq' = Append(cq, Cqe(TcpHandle, res, more))
    BY <2>2
  <2>4. PICK more \in BOOLEAN : cq' = Append(cq, Cqe(TcpHandle, res, more))
    BY <2>3
  <2>5. Cqe(TcpHandle, res, more) \in Cqes /\ Cqe(TcpHandle, res, more).user = TcpHandle
    BY DEF Cqe, Cqes
  <2>6. Count(cq', S) = Count(cq, S)
    BY <1>1, <1>3, <1>4, <2>4, <2>5
  <2> QED
    BY <1>2, <2>1, <2>6
<1>7. CASE KernelReads \/ KernelFails \/ \E c \in Conns : KernelEnds(c)
  <2>1. \E k \in DOMAIN reads : \E res \in Int : Completes(k, res)
    <3>1. \A n \in 1 .. BufSize : n \in Int
      OBVIOUS
    <3>2. \A errno \in RecvErrnos : -errno \in Int
      BY DEF Errnos
    <3> QED
      BY <1>7, <3>1, <3>2 DEF KernelReads, KernelFails, KernelEnds, ReadCompletes, ReadEnds,
                              ReadFails
  <2>2. PICK k \in DOMAIN reads : \E res \in Int : Completes(k, res)
    BY <2>1
  <2>3. PICK res \in Int : Completes(k, res)
    BY <2>2
  <2> DEFINE r == Cqe(reads[k].user, res, FALSE)
  <2>4. /\ sq' = sq /\ reads' = RemoveAt(reads, k) /\ cq' = Append(cq, r)
        /\ reads[k] \in Reads
    BY <1>1, <2>3 DEF Completes, Post
  <2>5. r \in Cqes /\ r.user = reads[k].user
    BY <2>4 DEF Cqe, Cqes, Reads
  <2> HIDE DEF r
  <2>6. Count(cq', S) = Count(cq, S) + (IF reads[k].user = h THEN 1 ELSE 0)
    BY <1>4, <2>4, <2>5
  <2>7. Count(reads, S) = Count(reads', S) + (IF reads[k].user = h THEN 1 ELSE 0)
    <3>1. Count(reads, S) = Count(RemoveAt(reads, k), S) + (IF reads[k] \in S THEN 1 ELSE 0)
      BY <1>1, CountRemove
    <3> QED
      BY <1>3, <2>4, <3>1
  <2>8. Count(reads', S) \in Nat
    <3>1. reads' \in Seq(Reads)
      BY <1>1, <2>4, RemoveType
    <3> QED
      BY <3>1, CountType
  <2> QED
    BY <1>1, <1>2, <2>4, <2>6, <2>7, <2>8
<1> QED
  BY <1>5, <1>6, <1>7

(* A request that is enqueued. *)
LEMMA EnqueueCount ==
  ASSUME TypeOK, NEW r \in Sqes, sq' = Append(sq, r), UNCHANGED <<reads, cq>>, NEW h
  PROVE  InRing(h)' = InRing(h) + (IF r.user = h THEN 1 ELSE 0)
<1> DEFINE S == RequestsBy(h)
<1>1. /\ Count(sq, S) \in Nat /\ Count(cq, S) \in Nat /\ Count(reads, S) \in Nat
      /\ sq \in Seq(Sqes)
  BY CountType DEF TypeOK
<1>2. r \in S <=> r.user = h
  BY DEF RequestsBy
<1>3. /\ InRing(h) = Count(sq, S) + Count(reads, S) + Count(cq, S)
      /\ InRing(h)' = Count(sq', S) + Count(reads, S) + Count(cq, S)
  BY DEF InRing
<1> HIDE DEF S
<1>4. Count(sq', S) = Count(sq, S) + (IF r \in S THEN 1 ELSE 0)
  BY <1>1, CountAppend
<1> QED
  BY <1>1, <1>2, <1>3, <1>4

(* A completion that is taken out of the ring. *)
LEMMA ReapCount ==
  ASSUME TypeOK, cq # << >>, cq' = Tail(cq), UNCHANGED <<reads, sq>>, NEW h
  PROVE  InRing(h) = InRing(h)' + (IF Head(cq).user = h THEN 1 ELSE 0)
<1> DEFINE S == RequestsBy(h)
           r == Head(cq)
<1>1. /\ Count(sq, S) \in Nat /\ Count(cq, S) \in Nat /\ Count(reads, S) \in Nat
      /\ cq \in Seq(Cqes)
  BY CountType DEF TypeOK
<1>2. r \in Cqes /\ Tail(cq) \in Seq(Cqes)
  BY <1>1, PopType
<1>3. r \in S <=> r.user = h
  BY <1>2 DEF RequestsBy
<1>4. /\ InRing(h) = Count(sq, S) + Count(reads, S) + Count(cq, S)
      /\ InRing(h)' = Count(sq, S) + Count(reads, S) + Count(cq', S)
  BY DEF InRing
<1> HIDE DEF S
<1>5. Count(cq, S) = Count(Tail(cq), S) + (IF r \in S THEN 1 ELSE 0)
  BY <1>1, CountTail
<1>6. Count(cq', S) \in Nat
  BY <1>2, CountType
<1> HIDE DEF r
<1>7. Count(cq, S) = Count(cq', S) + (IF r.user = h THEN 1 ELSE 0)
  BY <1>3, <1>5
<1>8. InRing(h) = InRing(h)' + (IF r.user = h THEN 1 ELSE 0)
  BY <1>1, <1>4, <1>6, <1>7
<1> QED
  BY <1>8 DEF r

-----------------------------------------------------------------------------
(* How a step changes what is under way for the connection machines. *)

WaysKept == \A h \in ConnHandles : UnderWay(h)' = UnderWay(h)

MachinesKept == UNCHANGED <<conn_alloc, conn_data>>

(* What is left of the intents, and what was first becomes a request, an   *)
(* event or a new machine's affair.                                        *)
LEMMA IntentCount ==
  ASSUME TypeOK, intents # << >>, intents' = Tail(intents), current' = current,
         NEW h, NEW n \in Nat, InQueues(h)' \in Nat, InRing(h)' \in Nat,
         InQueues(h)' + InRing(h)' = InQueues(h) + InRing(h) + n
  PROVE  UnderWay(h) + n = UnderWay(h)' + (IF current = h THEN 1 ELSE 0)
<1>1. Len(intents) \in Nat /\ Len(Tail(intents)) \in Nat /\ Len(intents) = Len(Tail(intents)) + 1
  BY DEF TypeOK
<1>2. InQueues(h) \in Nat /\ InRing(h) \in Nat
  BY UnderWayType
<1> DEFINE a == InQueues(h)
           b == InRing(h)
           c == InQueues(h)'
           d == InRing(h)'
<1>3. /\ UnderWay(h) = a + b + (IF current = h THEN Len(intents) ELSE 0)
      /\ UnderWay(h)' = c + d + (IF current = h THEN Len(Tail(intents)) ELSE 0)
  BY DEF UnderWay
<1>4. a \in Nat /\ b \in Nat /\ c \in Nat /\ d \in Nat /\ c + d = a + b + n
  BY <1>2
<1> HIDE DEF a, b, c, d
<1>5. CASE current = h
  BY <1>1, <1>3, <1>4, <1>5
<1>6. CASE current # h
  BY <1>1, <1>3, <1>4, <1>6
<1> QED
  BY <1>5, <1>6

(* Nothing that is counted moves. *)
LEMMA StillQueues ==
  ASSUME run_queues' = run_queues
  PROVE  \A h : InQueues(h)' = InQueues(h)
BY DEF InQueues, OfQueues

(* Nothing of the ring moves. *)
LEMMA StillRing ==
  ASSUME UNCHANGED <<sq, reads, cq>>
  PROVE  \A h : InRing(h)' = InRing(h)
BY DEF InRing

(* The steps that only move the program counter. *)
LEMMA MovesCount ==
  ASSUME TypeOK,
         \/ DrainDone \/ IntentsDone \/ SubmitShortcut \/ SubmitEnter
         \/ EnterReturns \/ ReapDone
  PROVE  WaysKept /\ MachinesKept /\ panic' = panic
         /\ (UNCHANGED <<current, intents>> \/ intents = << >>)
<1>1. /\ UNCHANGED <<run_queues, sq, reads, cq, intents, panic>> /\ MachinesKept
      /\ current' = current \/ (intents = << >> /\ current' = None)
  BY DEF DrainDone, IntentsDone, SubmitShortcut, SubmitEnter, EnterReturns, ReapDone,
         contextVars, machineVars, ringVars, kernelVars, MachinesKept
<1>2. ASSUME NEW h \in ConnHandles PROVE UnderWay(h)' = UnderWay(h)
  <2>1. InQueues(h)' = InQueues(h) /\ InRing(h)' = InRing(h)
    BY <1>1, StillQueues, StillRing
  <2>2. intents = << >> => Len(intents) = 0
    OBVIOUS
  <2>3. (IF current' = h THEN Len(intents) ELSE 0) = (IF current = h THEN Len(intents) ELSE 0)
    BY <1>1, <2>2
  <2> QED
    BY <1>1, <2>1, <2>3 DEF UnderWay
<1> QED
  BY <1>1, <1>2 DEF WaysKept

(* The kernel's steps. *)
LEMMA KernelWays ==
  ASSUME TypeOK,
         \/ EnterIssues \/ KernelAccepts \/ KernelRefuses \/ KernelReads \/ KernelFails
         \/ \E c \in Conns : KernelEnds(c)
  PROVE  WaysKept /\ MachinesKept /\ UNCHANGED <<panic, current, intents>>
<1>1. /\ UNCHANGED <<run_queues, intents, current, panic>> /\ MachinesKept
  BY DEF EnterIssues, KernelAccepts, KernelRefuses, KernelReads, KernelFails, KernelEnds,
         ProgramUnchanged, contextVars, loopVars, machineVars, MachinesKept
<1>2. ASSUME NEW h \in ConnHandles PROVE UnderWay(h)' = UnderWay(h)
  <2>1. InQueues(h)' = InQueues(h) /\ InRing(h)' = InRing(h)
    BY <1>1, StillQueues, KernelCount
  <2> QED
    BY <1>1, <2>1 DEF UnderWay
<1> QED
  BY <1>1, <1>2 DEF WaysKept

(* A completion becomes an event. *)
LEMMA ReapWays ==
  ASSUME TypeOK, TypeOK', Reap, panic' = "no"
  PROVE  WaysKept /\ MachinesKept /\ UNCHANGED <<current, intents>>
<1> DEFINE r == Head(cq)
           e == RunQueueEvent(IoCompleted(r.res, r.more), r.user)
<1>1. /\ cq # << >> /\ Push(next_run_queue_idx, e) /\ cq' = Tail(cq)
      /\ UNCHANGED <<contextVars, current_run_queue, current, pc, machineVars, sq, kernelVars>>
  <2>1. panic = "no" /\ CanPush(next_run_queue_idx)
    BY DEF Reap, At, Running, Crash
  <2> QED
    BY <2>1, Zenon DEF Reap
<1>2. r \in Cqes /\ next_run_queue_idx \in {0, 1}
  BY <1>1, PopType DEF TypeOK, next_run_queue_idx
<1>3. e \in RunQueueEvents /\ e.handle = r.user
  BY <1>2 DEF RunQueueEvent, RunQueueEvents, IoCompleted, Events, Cqes, AcceptResults
<1>4. UNCHANGED <<sq, reads, intents, current, conn_alloc, conn_data>>
  BY <1>1 DEF contextVars, machineVars, kernelVars
<1> HIDE DEF e
<1>5. ASSUME NEW h \in ConnHandles PROVE UnderWay(h)' = UnderWay(h)
  <2>1. InQueues(h)' = InQueues(h) + (IF r.user = h THEN 1 ELSE 0)
    BY <1>1, <1>2, <1>3, PushCount
  <2>2. InRing(h) = InRing(h)' + (IF r.user = h THEN 1 ELSE 0)
    BY <1>1, <1>4, ReapCount
  <2>3. /\ InQueues(h) \in Nat /\ InRing(h) \in Nat
        /\ InQueues(h)' \in Nat /\ InRing(h)' \in Nat
    BY UnderWayType, UnderWayTypeNext
  <2>4. InQueues(h)' + InRing(h)' = InQueues(h) + InRing(h)
    <3>1. CASE r.user = h
      BY <2>1, <2>2, <2>3, <3>1
    <3>2. CASE r.user # h
      BY <2>1, <2>2, <2>3, <3>2
    <3> QED
      BY <3>1, <3>2
  <2> QED
    BY <1>4, <2>4 DEF UnderWay
<1> QED
  BY <1>4, <1>5 DEF WaysKept, MachinesKept

(* An intent becomes a request of the machine that asked for it. *)
LEMMA EnqueueWays ==
  ASSUME TypeOK, TypeOK', intents # << >>, NEW r \in Sqes, r.user = current,
         EnqueueFor(r), panic' = "no", panic = "no"
  PROVE  WaysKept /\ MachinesKept
<1>1. /\ sq' = Append(sq, r) /\ IntentDone
      /\ UNCHANGED <<io_bufs, run_queues, conn_alloc, conn_data>>
  <2>1. CanEnqueue
    BY DEF EnqueueFor, Crash
  <2> QED
    BY <2>1, Zenon DEF EnqueueFor, Enqueue
<1>2. intents' = Tail(intents) /\ UNCHANGED <<current, reads, cq>>
  BY <1>1 DEF IntentDone, kernelVars
<1>3. ASSUME NEW h \in ConnHandles PROVE UnderWay(h)' = UnderWay(h)
  <2> DEFINE n == IF current = h THEN 1 ELSE 0
  <2>1. InQueues(h)' = InQueues(h)
    BY <1>1, StillQueues
  <2>2. InRing(h)' = InRing(h) + n
    BY <1>1, <1>2, EnqueueCount
  <2>3. /\ InQueues(h) \in Nat /\ InRing(h) \in Nat /\ UnderWay(h) \in Nat
        /\ InQueues(h)' \in Nat /\ InRing(h)' \in Nat /\ UnderWay(h)' \in Nat
    BY UnderWayType, UnderWayTypeNext
  <2>4. n \in Nat
    OBVIOUS
  <2> HIDE DEF n
  <2>5. InQueues(h)' + InRing(h)' = InQueues(h) + InRing(h) + n
    BY <2>1, <2>2, <2>3, <2>4
  <2>6. UnderWay(h) + n = UnderWay(h)' + n
    BY <1>2, <2>3, <2>4, <2>5, IntentCount DEF n
  <2> QED
    BY <2>3, <2>4, <2>6
<1> QED
  BY <1>1, <1>3 DEF WaysKept, MachinesKept

(* The request that an intent becomes. *)
LEMMA RequestIntent ==
  ASSUME TypeOK, CompleteAccept \/ CompleteRecv \/ CompleteClose, panic' = "no"
  PROVE  /\ panic = "no" /\ intents # << >> /\ Head(intents) # Terminate
         /\ \E r \in Sqes :
              /\ EnqueueFor(r)
              /\ r.user = current
              /\ r.op = "accept" <=> Head(intents).kind = "SubmitMultishotAccept"
<1>1. /\ panic = "no" /\ intents # << >>
      /\ Head(intents).kind \in {"SubmitMultishotAccept", "SubmitRecv", "CloseFixed"}
  BY DEF CompleteAccept, CompleteRecv, CompleteClose, AtIntent, Running
<1>2. Head(intents) # Terminate
  BY <1>1 DEF Terminate, Intent
<1>3. CASE CompleteAccept
  <2>1. /\ current = TcpHandle /\ EnqueueFor(AcceptMulti(current))
        /\ Head(intents).kind = "SubmitMultishotAccept"
    BY <1>1, <1>3, IntentKinds DEF CompleteAccept, AtIntent
  <2>2. /\ AcceptMulti(current) \in Sqes /\ AcceptMulti(current).user = current
        /\ AcceptMulti(current).op = "accept"
    BY <2>1 DEF Sqes, AcceptMulti
  <2> QED
    BY <1>1, <1>2, <2>1, <2>2
<1>4. CASE CompleteClose
  <2>1. /\ current \in ConnHandles /\ Head(intents) \in ConnIntents
        /\ Head(intents).kind = "CloseFixed"
        /\ EnqueueFor(CloseSqe(current, Head(intents).fixed))
    BY <1>1, <1>4, IntentKinds DEF CompleteClose, AtIntent
  <2>2. Head(intents).fixed \in Slots
    BY <2>1 DEF ConnIntents, Retry, Terminate, CloseFixed, Intent
  <2>3. /\ CloseSqe(current, Head(intents).fixed) \in Sqes
        /\ CloseSqe(current, Head(intents).fixed).user = current
        /\ CloseSqe(current, Head(intents).fixed).op # "accept"
    BY <2>1, <2>2 DEF CloseSqe, Sqes
  <2> QED
    BY <1>1, <1>2, <2>1, <2>3
<1>5. CASE CompleteRecv
  <2> DEFINE i == Head(intents)
             sqe == ReadFixed(current, i.fixed, BufPtr(i.buf.index) + i.off,
                              BufSize - i.off, i.buf.index)
  <2>1. ~(i.off >= BufSize) /\ IsValid(io_bufs, i.buf) /\ EnqueueFor(sqe)
    <3>1. \/ Crash("offset assertion") \/ Crash("stale buffer")
          \/ ~(i.off >= BufSize) /\ IsValid(io_bufs, i.buf) /\ EnqueueFor(sqe)
      BY <1>5, Zenon DEF CompleteRecv
    <3> QED
      BY <3>1 DEF Crash
  <2>2. current \in ConnHandles /\ i \in ConnIntents /\ i.kind = "SubmitRecv"
    BY <1>1, <1>5, IntentKinds DEF CompleteRecv, AtIntent
  <2>3. i \in [kind : {"SubmitRecv"}, fixed : Slots, buf : GenId, off : Nat]
    BY <2>2 DEF ConnIntents, Retry, Terminate, CloseFixed, Intent
  <2>4. i.off \in 0 .. BufSize - 1 /\ BufSize - i.off \in 1 .. BufSize
    BY <2>1, <2>3
  <2>5. i.buf.index \in 0 .. NBufs - 1
    BY <2>1 DEF IsValid, TypeOK, GenAllocs
  <2>6. BufPtr(i.buf.index) + i.off \in Addresses
    BY <2>4, <2>5, BufferAddress
  <2>7. sqe \in Sqes /\ sqe.user = current /\ sqe.op # "accept"
    BY <2>2, <2>3, <2>4, <2>5, <2>6 DEF ReadFixed, Sqes
  <2> HIDE DEF sqe
  <2> QED
    BY <1>1, <1>2, <2>1, <2>2, <2>7
<1> QED
  BY <1>3, <1>4, <1>5

(* The intents that become requests. *)
LEMMA RequestWays ==
  ASSUME TypeOK, TypeOK', CompleteAccept \/ CompleteRecv \/ CompleteClose, panic' = "no"
  PROVE  WaysKept /\ MachinesKept /\ Head(intents) # Terminate
<1>1. PICK r \in Sqes : r.user = current /\ EnqueueFor(r)
  BY RequestIntent
<1> QED
  BY <1>1, RequestIntent, EnqueueWays

(* A retry becomes an event of the machine that asked for it. *)
LEMMA RetryWays ==
  ASSUME TypeOK, TypeOK', CompleteRetry, panic' = "no"
  PROVE  WaysKept /\ MachinesKept /\ Head(intents) # Terminate
<1> DEFINE e == RunQueueEvent(Spawn, current)
<1>1. panic = "no" /\ intents # << >> /\ Head(intents).kind = "Retry"
  BY DEF CompleteRetry, AtIntent, Running
<1>2. /\ Push(next_run_queue_idx, e) /\ IntentDone
      /\ UNCHANGED <<io_bufs, conn_alloc, conn_data, sq>>
  <2>1. CanPush(next_run_queue_idx)
    BY <1>1 DEF CompleteRetry, Crash
  <2> QED
    BY <2>1, Zenon DEF CompleteRetry
<1>3. e \in RunQueueEvents /\ e.handle = current /\ next_run_queue_idx \in {0, 1}
  <2>1. current \in ConnHandles
    BY <1>1, IntentKinds
  <2> QED
    BY <2>1 DEF RunQueueEvent, RunQueueEvents, Spawn, Events, TypeOK, next_run_queue_idx
<1>4. intents' = Tail(intents) /\ UNCHANGED <<current, reads, cq>>
  BY <1>2 DEF IntentDone, kernelVars
<1> HIDE DEF e
<1>5. ASSUME NEW h \in ConnHandles PROVE UnderWay(h)' = UnderWay(h)
  <2> DEFINE n == IF current = h THEN 1 ELSE 0
  <2>1. InRing(h)' = InRing(h)
    BY <1>2, <1>4, StillRing
  <2>2. InQueues(h)' = InQueues(h) + n
    BY <1>2, <1>3, PushCount
  <2>3. /\ InQueues(h) \in Nat /\ InRing(h) \in Nat /\ UnderWay(h) \in Nat
        /\ InQueues(h)' \in Nat /\ InRing(h)' \in Nat /\ UnderWay(h)' \in Nat
    BY UnderWayType, UnderWayTypeNext
  <2>4. n \in Nat
    OBVIOUS
  <2> HIDE DEF n
  <2>5. InQueues(h)' + InRing(h)' = InQueues(h) + InRing(h) + n
    BY <2>1, <2>2, <2>3, <2>4
  <2>6. UnderWay(h) + n = UnderWay(h)' + n
    BY <1>1, <1>4, <2>3, <2>4, <2>5, IntentCount DEF n
  <2> QED
    BY <2>3, <2>4, <2>6
<1>6. Head(intents) # Terminate
  BY <1>1 DEF Terminate, Intent
<1> QED
  BY <1>2, <1>5, <1>6 DEF WaysKept, MachinesKept

(* A new machine has its first event. *)
LEMMA SpawnWays ==
  ASSUME TypeOK, TypeOK', CompleteSpawn, panic' = "no"
  PROVE  /\ Head(intents) # Terminate
         /\ \E i \in 0 .. NHandlers - 1 :
              /\ ~Live(i)
              /\ conn_data'[i] # None /\ conn_data'[i].state = "Init"
              /\ \A j \in (0 .. NHandlers - 1) \ {i} : conn_data'[j] = conn_data[j]
              /\ conn_alloc'.generation = conn_alloc.generation
              /\ HandleOf(i) \in ConnHandles
              /\ \A g \in ConnHandles :
                   UnderWay(g)' = UnderWay(g) + (IF g = HandleOf(i) THEN 1 ELSE 0)
<1> DEFINE s  == Head(intents).fixed
           id == AllocId(conn_alloc)
           h  == ObjectHandle(CONN_HANDLER, id)
           e  == RunQueueEvent(Spawn, h)
           m  == NewConnHandler(s, files[s])
<1>1. panic = "no" /\ intents # << >> /\ Head(intents).kind = "SpawnConnHandler"
  BY DEF CompleteSpawn, AtIntent, Running
<1>2. /\ CanAlloc(conn_alloc) /\ conn_data[id.index] = None
      /\ conn_alloc' = AfterAlloc(conn_alloc)
      /\ conn_data' = [conn_data EXCEPT ![id.index] = m]
      /\ Push(current_run_queue, e)
      /\ IntentDone
      /\ UNCHANGED <<io_bufs, sq>>
  <2>1. /\ CanAlloc(conn_alloc) /\ ~(conn_data[id.index] # None)
        /\ CanPush(current_run_queue)
    BY <1>1, Zenon DEF CompleteSpawn, Crash
  <2> QED
    BY <2>1, Zenon DEF CompleteSpawn
<1>3. current = TcpHandle /\ Head(intents) \in TcpIntents
  BY <1>1, IntentKinds
<1>4. s \in Slots
  BY <1>1, <1>3 DEF TcpIntents, SubmitMultishotAccept, SpawnConnHandler, Intent
<1>5. m \in ConnHandlers /\ m.state = "Init"
  BY <1>4 DEF NewConnHandler, ConnHandlers, Machines, TypeOK
<1>6. id \in [index : 0 .. NHandlers - 1, generation : 0 .. GenSpan - 1]
  BY <1>2, AllocType DEF TypeOK
<1>7. PICK i \in 0 .. NHandlers - 1 : i = id.index
  BY <1>6
<1>8. id.generation = conn_alloc.generation[i]
  BY <1>7 DEF AllocId
<1>9. h = HandleOf(i) /\ h \in ConnHandles
  BY <1>6, <1>7, <1>8 DEF HandleOf, ObjectHandle, ConnHandles
<1>10. e \in RunQueueEvents /\ e.handle = h
  BY <1>9 DEF RunQueueEvent, RunQueueEvents, Spawn, Events
<1>11. intents' = Tail(intents) /\ UNCHANGED <<current, reads, cq>>
  BY <1>2 DEF IntentDone, kernelVars
<1> HIDE DEF e, h, id, m
<1>12. ~Live(i) /\ conn_data'[i] = m
       /\ \A j \in (0 .. NHandlers - 1) \ {i} : conn_data'[j] = conn_data[j]
  BY <1>2, <1>7 DEF TypeOK, Live
<1>13. conn_data'[i] # None /\ conn_data'[i].state = "Init"
  BY <1>5, <1>12, MachineAssumption
<1>14. conn_alloc'.generation = conn_alloc.generation
  BY <1>2 DEF AfterAlloc, TypeOK, GenAllocs
<1>15. ASSUME NEW g \in ConnHandles
       PROVE  UnderWay(g)' = UnderWay(g) + (IF g = h THEN 1 ELSE 0)
  <2> DEFINE n == IF h = g THEN 1 ELSE 0
  <2>1. InRing(g)' = InRing(g)
    BY <1>2, <1>11, StillRing
  <2>2. InQueues(g)' = InQueues(g) + n
    BY <1>2, <1>10, PushCount DEF TypeOK
  <2>3. /\ InQueues(g) \in Nat /\ InRing(g) \in Nat /\ UnderWay(g) \in Nat
        /\ InQueues(g)' \in Nat /\ InRing(g)' \in Nat /\ UnderWay(g)' \in Nat
    BY UnderWayType, UnderWayTypeNext
  <2>4. n \in Nat /\ n = IF g = h THEN 1 ELSE 0
    OBVIOUS
  <2> HIDE DEF n
  <2>5. InQueues(g)' + InRing(g)' = InQueues(g) + InRing(g) + n
    BY <2>1, <2>2, <2>3, <2>4
  <2>6. UnderWay(g) + n = UnderWay(g)' + (IF current = g THEN 1 ELSE 0)
    BY <1>1, <1>11, <2>3, <2>4, <2>5, IntentCount
  <2>7. current # g
    BY <1>3, HandleKinds
  <2>8. UnderWay(g) + n = UnderWay(g)'
    BY <2>3, <2>6, <2>7
  <2> QED
    BY <2>3, <2>4, <2>8
<1>16. Head(intents) # Terminate
  BY <1>1 DEF Terminate, Intent
<1> QED
  BY <1>9, <1>12, <1>13, <1>14, <1>15, <1>16

(* A machine that terminates has had its last intent. *)
LEMMA TerminateWays ==
  ASSUME TypeOK, TypeOK', CompleteTerminate, panic' = "no"
  PROVE  /\ current \in ConnHandles /\ intents # << >> /\ Head(intents) = Terminate
         /\ intents' = Tail(intents) /\ current' = current
         /\ \A g \in ConnHandles :
              UnderWay(g) = UnderWay(g)' + (IF current = g THEN 1 ELSE 0)
         /\ IF current.generation = conn_alloc.generation[current.index]
            THEN /\ conn_data' = [conn_data EXCEPT ![current.index] = None]
                 /\ \A j \in (0 .. NHandlers - 1) \ {current.index} :
                      conn_alloc'.generation[j] = conn_alloc.generation[j]
            ELSE MachinesKept
<1>1. panic = "no" /\ intents # << >> /\ Head(intents).kind = "Terminate"
  BY DEF CompleteTerminate, AtIntent, Running
<1>2. /\ conn_alloc' = AfterFree(conn_alloc, current)
      /\ conn_data' = IF IsValid(conn_alloc, current)
                      THEN [conn_data EXCEPT ![current.index] = None]
                      ELSE conn_data
      /\ IntentDone
      /\ UNCHANGED <<io_bufs, run_queues, sq>>
  <2>1. ~FreePanics(conn_alloc, current)
    BY <1>1 DEF CompleteTerminate, Crash
  <2> QED
    BY <2>1, Zenon DEF CompleteTerminate
<1>3. current \in ConnHandles /\ Head(intents) \in ConnIntents
  BY <1>1, IntentKinds
<1>4. Head(intents) = Terminate
  BY <1>1, <1>3 DEF ConnIntents, Retry, Terminate, CloseFixed, Intent
<1>5. intents' = Tail(intents) /\ UNCHANGED <<current, reads, cq>>
  BY <1>2 DEF IntentDone, kernelVars
<1>6. ASSUME NEW g \in ConnHandles
      PROVE  UnderWay(g) = UnderWay(g)' + (IF current = g THEN 1 ELSE 0)
  <2>1. InRing(g)' = InRing(g) /\ InQueues(g)' = InQueues(g)
    BY <1>2, <1>5, StillRing, StillQueues
  <2>2. /\ InQueues(g) \in Nat /\ InRing(g) \in Nat /\ UnderWay(g) \in Nat
        /\ InQueues(g)' \in Nat /\ InRing(g)' \in Nat /\ UnderWay(g)' \in Nat
    BY UnderWayType, UnderWayTypeNext
  <2>3. InQueues(g)' + InRing(g)' = InQueues(g) + InRing(g) + 0
    BY <2>1, <2>2
  <2>4. UnderWay(g) + 0 = UnderWay(g)' + (IF current = g THEN 1 ELSE 0)
    BY <1>1, <1>5, <2>2, <2>3, IntentCount
  <2> QED
    BY <2>2, <2>4
<1>7. IsValid(conn_alloc, current) <=> current.generation = conn_alloc.generation[current.index]
  BY <1>3 DEF IsValid, ConnHandles, TypeOK, GenAllocs
<1>8. CASE IsValid(conn_alloc, current)
  <2>1. \A j \in (0 .. NHandlers - 1) \ {current.index} :
          conn_alloc'.generation[j] = conn_alloc.generation[j]
    BY <1>2, <1>8 DEF AfterFree, TypeOK, GenAllocs
  <2> QED
    BY <1>1, <1>2, <1>3, <1>4, <1>5, <1>6, <1>7, <1>8, <2>1
<1>9. CASE ~IsValid(conn_alloc, current)
  <2>1. MachinesKept
    BY <1>2, <1>9 DEF AfterFree, MachinesKept
  <2> QED
    BY <1>1, <1>3, <1>4, <1>5, <1>6, <1>7, <1>9, <2>1
<1> QED
  BY <1>8, <1>9

(* An event is exchanged for what its machine asks for. *)
LEMMA DispatchWays ==
  ASSUME TypeOK, TypeOK', Pop
  PROVE  /\ intents = << >> /\ conn_alloc' = conn_alloc /\ current' = NextEvent.handle
         /\ NextEvent \in RunQueueEvents
         /\ \A g \in ConnHandles :
              UnderWay(g)' + (IF NextEvent.handle = g THEN 1 ELSE 0)
                = UnderWay(g) + (IF NextEvent.handle = g THEN Len(intents') ELSE 0)
<1>1. /\ intents = << >> /\ current' = NextEvent.handle /\ NextEvent \in RunQueueEvents
      /\ UNCHANGED <<conn_alloc, ringVars, kernelVars>>
  BY PopEventType
<1>2. ASSUME NEW g \in ConnHandles
      PROVE  UnderWay(g)' + (IF NextEvent.handle = g THEN 1 ELSE 0)
               = UnderWay(g) + (IF NextEvent.handle = g THEN Len(intents') ELSE 0)
  <2>1. InQueues(g) = InQueues(g)' + (IF NextEvent.handle = g THEN 1 ELSE 0)
    BY PopCount
  <2>2. InRing(g)' = InRing(g)
    BY <1>1, StillRing DEF ringVars, kernelVars
  <2>3. UnderWay(g) = InQueues(g) + InRing(g)
    <3>1. Len(intents) = 0
      BY <1>1
    <3>2. InQueues(g) \in Nat /\ InRing(g) \in Nat
      BY UnderWayType
    <3> QED
      BY <3>1, <3>2 DEF UnderWay
  <2>4. UnderWay(g)' = InQueues(g)' + InRing(g) + (IF NextEvent.handle = g THEN Len(intents') ELSE 0)
    BY <1>1, <2>2 DEF UnderWay
  <2>5. /\ InQueues(g) \in Nat /\ InRing(g) \in Nat /\ UnderWay(g) \in Nat
        /\ InQueues(g)' \in Nat /\ UnderWay(g)' \in Nat
    BY UnderWayType, UnderWayTypeNext
  <2>6. Len(intents') \in Nat
    BY DEF TypeOK
  <2>7. CASE NextEvent.handle = g
    BY <2>1, <2>3, <2>4, <2>5, <2>6, <2>7
  <2>8. CASE NextEvent.handle # g
    BY <2>1, <2>3, <2>4, <2>5, <2>6, <2>8
  <2> QED
    BY <2>7, <2>8
<1> QED
  BY <1>1, <1>2

(* Results that neither make a machine ask twice nor close it and go on    *)
(* reading.                                                                *)
Calm(res) == res >= 0 \/ from_raw_syscall_error(res) \notin RetryErrnos \cup CloseErrnos

(* A machine that is not closed answers any event with an intent, and when *)
(* it closes, that is Terminate.                                           *)
LEMMA ArmWays ==
  ASSUME TypeOK, NEW i \in 0 .. NHandlers - 1, conn_data[i] \in ConnHandlers,
         conn_data[i].state # "Closed", NEW event \in Events(Int), intents = << >>,
         ConnProcessEvent(i, event), panic' = "no"
  PROVE  /\ Live(i) /\ conn_data'[i] # None
         /\ \A j \in (0 .. NHandlers - 1) \ {i} : conn_data'[j] = conn_data[j]
         /\ Len(intents') # 0
         /\ conn_data'[i].state = "Closed" => intents' = <<Terminate>>
         /\ Calm(event.res) => Len(intents') = 1
<1> DEFINE h == conn_data[i]
           res == event.res
<1>1. /\ res \in Int /\ event.kind \in {"Spawn", "IoCompleted"}
      /\ h.state \in {"Init", "Recv", "Closing"} /\ h # None
  BY MachineAssumption DEF Events, ConnHandlers, Machines
<1>2. CASE ~ConnExpects(i, event)
  BY <1>1, <1>2 DEF ConnProcessEvent, OnUnexpected
<1>3. ASSUME NEW g,
             \/ Len(intents') = 1 \/ (Len(intents') = 2 /\ ~Calm(res)),
             g # None, conn_data'[i] = g, g.state = "Closed" => intents' = <<Terminate>>,
             \A j \in (0 .. NHandlers - 1) \ {i} : conn_data'[j] = conn_data[j]
      PROVE  /\ Live(i) /\ conn_data'[i] # None
             /\ \A j \in (0 .. NHandlers - 1) \ {i} : conn_data'[j] = conn_data[j]
             /\ Len(intents') # 0
             /\ conn_data'[i].state = "Closed" => intents' = <<Terminate>>
             /\ Calm(event.res) => Len(intents') = 1
  <2>1. h = conn_data[i] /\ Live(i)
    BY <1>1 DEF Live
  <2>n. \A n : n = 1 \/ n = 2 => n # 0
    OBVIOUS
  <2>2. Len(intents') # 0
    BY <1>3, <2>n, Zenon
  <2>m. \A n : n = 2 => n # 1
    OBVIOUS
  <2>3. Len(intents') = 2 => Len(intents') # 1
    BY <2>m, Zenon
  <2>4. Calm(event.res) => Len(intents') = 1
    BY <1>3, <2>3, Zenon
  <2> QED
    BY <1>3, <2>1, <2>2, <2>4, Zenon
<1>4. ASSUME NEW g \in ConnHandlers, conn_data' = [conn_data EXCEPT ![i] = g]
      PROVE  /\ conn_data'[i] = g /\ g # None
             /\ \A j \in (0 .. NHandlers - 1) \ {i} : conn_data'[j] = conn_data[j]
  BY <1>4, MachineAssumption DEF TypeOK
<1>5. CASE OnInit(i)
  <2>1. CASE CanAlloc(io_bufs)
    <3> DEFINE g == [h EXCEPT !.state = "Recv", !.phase = "ReceivingHeader",
                              !.buf_handle = AllocId(io_bufs)]
    <3>1. conn_data' = [conn_data EXCEPT ![i] = g] /\ intents' = <<Recv(g)>>
      BY <1>5, <2>1 DEF OnInit
    <3>2. g \in ConnHandlers /\ g.state = "Recv"
      <4>1. AllocId(io_bufs) \in GenId
        BY <2>1, AllocType DEF TypeOK
      <4>2. g \in Machines({"Recv"}, GenId)
        BY <4>1 DEF ConnHandlers, Machines
      <4> QED
        BY <4>2 DEF ConnHandlers, Machines
    <3> HIDE DEF g
    <3>3. Len(intents') = 1
      BY <3>1
    <3>4. g.state # "Closed"
      BY <3>2
    <3> QED
      BY <1>3, <1>4, <3>1, <3>2, <3>3, <3>4, Zenon
  <2>2. CASE ~CanAlloc(io_bufs)
    <3>1. conn_data' = conn_data /\ intents' = <<Retry>> /\ h.state = "Init"
      BY <1>5, <2>2 DEF OnInit
    <3>2. Len(intents') = 1
      BY <3>1
    <3>3. conn_data'[i] = h /\ h # None /\ h.state # "Closed"
          /\ \A j \in (0 .. NHandlers - 1) \ {i} : conn_data'[j] = conn_data[j]
      BY <1>1, <3>1
    <3> QED
      BY <1>3, <3>2, <3>3, Zenon
  <2> QED
    BY <2>1, <2>2
<1>6. CASE OnRecvEof(i, res) \/ OnCloseFailed(i, res) \/ OnRecvCloseErr(i, res)
  <2>1. Close(i) /\ h.state \in {"Recv", "Closing"}
    BY <1>6 DEF OnRecvEof, OnCloseFailed, OnRecvCloseErr
  <2>2. \/ intents' = <<CloseFixed(h.socket)>>
        \/ /\ intents' = <<CloseFixed(h.socket), Recv(Closing(h))>>
           /\ res < 0 /\ from_raw_syscall_error(res) \in CloseErrnos
    BY <1>6 DEF OnRecvEof, OnCloseFailed, OnRecvCloseErr
  <2>3. conn_data' = [conn_data EXCEPT ![i] = Closing(h)]
    BY <2>1 DEF Close
  <2>4. Closing(h) \in ConnHandlers /\ Closing(h).state = "Closing"
    BY <2>1, RecvType
  <2>5. Len(intents') = 1 \/ (Len(intents') = 2 /\ ~Calm(res))
    <3>1. CASE intents' = <<CloseFixed(h.socket)>>
      <4>1. Len(intents') = 1
        BY <3>1
      <4> QED
        BY <4>1, Zenon
    <3>2. CASE intents' = <<CloseFixed(h.socket), Recv(Closing(h))>> /\ res < 0
               /\ from_raw_syscall_error(res) \in CloseErrnos
      <4>1. Len(intents') = 2
        BY <3>2
      <4>2. ~Calm(res)
        BY <1>1, <3>2 DEF Calm
      <4> QED
        BY <4>1, <4>2, Zenon
    <3> QED
      BY <2>2, <3>1, <3>2, Zenon
  <2>6. Closing(h).state # "Closed"
    BY <2>4
  <2> QED
    BY <1>3, <1>4, <2>3, <2>4, <2>5, <2>6, Zenon
<1>7. CASE OnRecvData(i, res)
  <2>1. h.state = "Recv" /\ ~(h.offset + res >= HdrSize /\ ~IsValid(io_bufs, h.buf_handle))
    BY <1>7 DEF OnRecvData
  <2>2. /\ conn_data' = [conn_data EXCEPT ![i] = AfterData(h, res)]
        /\ intents' = <<Recv(AfterData(h, res))>>
    BY <1>7, <2>1 DEF OnRecvData
  <2>3. res \in Nat /\ (h.offset + res >= HdrSize => IsValid(io_bufs, h.buf_handle))
    BY <1>1, <1>7, <2>1 DEF OnRecvData
  <2>4. AfterData(h, res) \in ConnHandlers /\ AfterData(h, res).state = "Recv"
    BY <2>1, <2>3, AfterDataType
  <2>5. Len(intents') = 1
    BY <2>2
  <2>6. AfterData(h, res).state # "Closed"
    BY <2>4
  <2> QED
    BY <1>3, <1>4, <2>2, <2>4, <2>5, <2>6, Zenon
<1>8. CASE OnRecvRetryErr(i, res) \/ OnRecvFatalErr(i, res) \/ OnRecvOtherErr(i, res)
  <2>1. /\ h.state = "Recv" /\ conn_data' = conn_data
        /\ \/ intents' = <<Recv(h)>>
           \/ /\ intents' = <<Recv(h), Recv(h)>>
              /\ res < 0 /\ from_raw_syscall_error(res) \in RetryErrnos
    BY <1>8 DEF OnRecvRetryErr, OnRecvFatalErr, OnRecvOtherErr
  <2>2. Len(intents') = 1 \/ (Len(intents') = 2 /\ ~Calm(res))
    <3>1. CASE intents' = <<Recv(h)>>
      <4>1. Len(intents') = 1
        BY <3>1
      <4> QED
        BY <4>1, Zenon
    <3>2. CASE intents' = <<Recv(h), Recv(h)>> /\ res < 0
               /\ from_raw_syscall_error(res) \in RetryErrnos
      <4>1. Len(intents') = 2
        BY <3>2
      <4>2. ~Calm(res)
        BY <1>1, <3>2 DEF Calm
      <4> QED
        BY <4>1, <4>2, Zenon
    <3> QED
      BY <2>1, <3>1, <3>2, Zenon
  <2>3. conn_data'[i] = h /\ h # None /\ h.state # "Closed"
        /\ \A j \in (0 .. NHandlers - 1) \ {i} : conn_data'[j] = conn_data[j]
    BY <1>1, <2>1
  <2> QED
    BY <1>3, <2>2, <2>3, Zenon
<1>9. CASE OnClosed(i, res)
  <2> DEFINE g == [h EXCEPT !.state = "Closed"]
  <2>1. h.state = "Closing" /\ conn_data' = [conn_data EXCEPT ![i] = g]
        /\ intents' = <<Terminate>>
    BY <1>9 DEF OnClosed
  <2>2. g \in ConnHandlers
    <3>1. g \in Machines({"Closed"}, GenId)
      BY <2>1 DEF ConnHandlers, Machines
    <3> QED
      BY <3>1 DEF ConnHandlers, Machines
  <2> HIDE DEF g
  <2>3. Len(intents') = 1
    BY <2>1
  <2> QED
    BY <1>3, <1>4, <2>1, <2>2, <2>3, Zenon
<1> QED
  BY <1>2, <1>5, <1>6, <1>7, <1>8, <1>9, Zenon DEF ConnProcessEvent

-----------------------------------------------------------------------------
(* No machine is forgotten: each has something under way, and one that has *)
(* closed is about to be despawned.                                        *)
ClosedTerminates ==
  \A i \in 0 .. NHandlers - 1 :
    Live(i) /\ conn_data[i].state = "Closed" => current = HandleOf(i) /\ intents = <<Terminate>>

NothingLost ==
  panic = "no" =>
    /\ \A i \in 0 .. NHandlers - 1 : Live(i) => UnderWay(HandleOf(i)) # 0
    /\ ClosedTerminates

(* A machine's handle, before and after a step. *)
LEMMA HandleType ==
  ASSUME TypeOK, NEW i \in 0 .. NHandlers - 1
  PROVE  /\ HandleOf(i) \in ConnHandles /\ HandleOf(i).index = i
         /\ \A h \in ConnHandles :
              h.index = i /\ h.generation = conn_alloc.generation[i] => h = HandleOf(i)
         /\ conn_alloc'.generation[i] = conn_alloc.generation[i] => HandleOf(i)' = HandleOf(i)
<1>1. conn_alloc.generation[i] \in 0 .. GenSpan - 1
  BY DEF TypeOK, GenAllocs
<1>2. HandleOf(i) = [pool |-> CONN_HANDLER, index |-> i, generation |-> conn_alloc.generation[i]]
  BY DEF HandleOf, ObjectHandle
<1>3. HandleOf(i) \in ConnHandles /\ HandleOf(i).index = i
  BY <1>1, <1>2 DEF ConnHandles
<1>4. \A h \in ConnHandles :
        h = [pool |-> CONN_HANDLER, index |-> h.index, generation |-> h.generation]
  BY DEF ConnHandles
<1>5. \A h \in ConnHandles :
        h.index = i /\ h.generation = conn_alloc.generation[i] => h = HandleOf(i)
  BY <1>2, <1>4
<1>6. conn_alloc'.generation[i] = conn_alloc.generation[i] => HandleOf(i)' = HandleOf(i)
  BY DEF HandleOf, ObjectHandle
<1> QED
  BY <1>3, <1>5, <1>6

(* A step that forgets no machine: those that it leaves alone keep what    *)
(* they have.                                                              *)
LEMMA StaysNothingLost ==
  ASSUME TypeOK, NothingLost, panic = "no",
         \A h \in ConnHandles : Resolves(h) => UnderWay(h)' = UnderWay(h),
         MachinesKept,
         UNCHANGED <<current, intents>> \/ intents # <<Terminate>>
  PROVE  NothingLost'
<1>1. \A i \in 0 .. NHandlers - 1 :
        /\ HandleOf(i)' = HandleOf(i) /\ HandleOf(i) \in ConnHandles
        /\ conn_data'[i] = conn_data[i]
  BY HandleType DEF MachinesKept
<1>2. ASSUME NEW i \in 0 .. NHandlers - 1, conn_data'[i] # None
      PROVE  UnderWay(HandleOf(i))' # 0
  <2>1. PICK h \in ConnHandles : h = HandleOf(i)
    BY <1>1
  <2>2. UnderWay(h)' = UnderWay(h) /\ UnderWay(h) # 0
    <3>1. Live(i) /\ UnderWay(h) # 0
      BY <1>1, <1>2, <2>1 DEF NothingLost, Live
    <3>2. h.index = i /\ h.generation = conn_alloc.generation[i]
      BY <2>1 DEF HandleOf, ObjectHandle
    <3> QED
      BY <3>1, <3>2 DEF Resolves
  <2>3. h = HandleOf(i)'
    BY <1>1, <2>1
  <2> QED
    BY <2>2, <2>3
<1>3. ClosedTerminates'
  <2>1. SUFFICES ASSUME NEW i \in 0 .. NHandlers - 1, conn_data'[i] # None,
                        conn_data'[i].state = "Closed"
                 PROVE  current' = HandleOf(i)' /\ intents' = <<Terminate>>
    BY DEF ClosedTerminates, Live
  <2>2. current = HandleOf(i) /\ intents = <<Terminate>>
    BY <1>1, <2>1 DEF NothingLost, ClosedTerminates, Live
  <2> QED
    BY <1>1, <2>2
<1> QED
  BY <1>2, <1>3 DEF NothingLost, Live

(* Dispatching an event. *)
LEMMA DispatchNothingLost ==
  ASSUME TypeOK, TypeOK', NothingLost, DispatchTcp \/ DispatchConn \/ DispatchMissing,
         panic' = "no"
  PROVE  NothingLost'
<1> DEFINE d == NextEvent.handle
<1>1. Pop /\ panic = "no"
  BY DEF DispatchTcp, DispatchConn, DispatchMissing, Pop, Running
<1>2. /\ intents = << >> /\ conn_alloc' = conn_alloc /\ current' = d
      /\ NextEvent \in RunQueueEvents
      /\ \A g \in ConnHandles :
           UnderWay(g)' + (IF d = g THEN 1 ELSE 0)
             = UnderWay(g) + (IF d = g THEN Len(intents') ELSE 0)
  BY <1>1, DispatchWays
<1>3. \A g \in ConnHandles : d # g => UnderWay(g)' = UnderWay(g)
  <2> SUFFICES ASSUME NEW g \in ConnHandles, d # g PROVE UnderWay(g)' = UnderWay(g)
    OBVIOUS
  <2>1. UnderWay(g)' + 0 = UnderWay(g) + 0
    BY <1>2
  <2> QED
    BY <2>1, UnderWayType, UnderWayTypeNext
<1>4. <<Terminate>> # << >> /\ \A i \in 0 .. NHandlers - 1 : Live(i) => conn_data[i].state # "Closed"
  BY <1>1, <1>2 DEF NothingLost, ClosedTerminates
<1> HIDE DEF d
<1>5. CASE DispatchTcp
  <2>1. conn_data' = conn_data /\ d \notin ConnHandles
    BY <1>5, HandleKinds DEF DispatchTcp, d
  <2>2. \A g \in ConnHandles : UnderWay(g)' = UnderWay(g)
    BY <1>3, <2>1
  <2> QED
    BY <1>1, <1>2, <1>4, <2>1, <2>2, StaysNothingLost DEF MachinesKept
<1>6. CASE DispatchMissing
  <2>1. conn_data' = conn_data /\ ~Finds(d)
    BY <1>6 DEF DispatchMissing, d
  <2>2. ASSUME NEW g \in ConnHandles, Resolves(g) PROVE d # g
    BY <2>1, <2>2 DEF Resolves, Finds, IsValid, Live, ConnHandles, TypeOK, GenAllocs
  <2>3. \A g \in ConnHandles : Resolves(g) => UnderWay(g)' = UnderWay(g)
    BY <1>3, <2>2
  <2> QED
    BY <1>1, <1>2, <1>4, <2>1, <2>3, StaysNothingLost DEF MachinesKept
<1>7. CASE DispatchConn
  <2>1. /\ Finds(d) /\ d.pool = CONN_HANDLER
        /\ ConnProcessEvent(d.index, NextEvent.reason)
    BY <1>7 DEF DispatchConn, d
  <2>2. d \in ConnHandles /\ NextEvent.reason \in Events(Int)
    BY <1>2, <2>1, EventKinds DEF d
  <2>3. PICK i \in 0 .. NHandlers - 1 : i = d.index
    BY <2>2 DEF ConnHandles
  <2>4. PICK h \in ConnHandles : h = d
    BY <2>2
  <2>5. Live(i) /\ conn_data[i] \in ConnHandlers /\ h.index = i
        /\ h.generation = conn_alloc.generation[i]
    BY <2>1, <2>3, <2>4 DEF Finds, IsValid, Live, TypeOK
  <2>6. h = HandleOf(i) /\ h = HandleOf(i)'
    BY <1>2, <2>4, <2>5, HandleType
  <2>7. /\ conn_data'[i] # None
        /\ \A j \in (0 .. NHandlers - 1) \ {i} : conn_data'[j] = conn_data[j]
        /\ Len(intents') # 0
        /\ conn_data'[i].state = "Closed" => intents' = <<Terminate>>
    BY <1>2, <1>4, <2>1, <2>2, <2>3, <2>5, ArmWays
  <2>8. UnderWay(h)' # 0
    <3>1. UnderWay(h)' + 1 = UnderWay(h) + Len(intents')
      BY <1>2, <2>4
    <3>2. UnderWay(h) # 0
      BY <1>1, <2>5, <2>6 DEF NothingLost
    <3>3. UnderWay(h) \in Nat /\ UnderWay(h)' \in Nat
      BY UnderWayType, UnderWayTypeNext
    <3>4. Len(intents') \in Nat
      BY DEF TypeOK
    <3> QED
      BY <2>7, <3>1, <3>2, <3>3, <3>4
  <2>9. ASSUME NEW j \in 0 .. NHandlers - 1, conn_data'[j] # None, j # i
        PROVE  UnderWay(HandleOf(j))' # 0 /\ conn_data'[j].state # "Closed"
    <3>1. PICK g \in ConnHandles : g = HandleOf(j)
      BY HandleType
    <3>2. g = HandleOf(j)' /\ g.index = j
      BY <1>2, <3>1, HandleType
    <3>3. Live(j) /\ conn_data'[j] = conn_data[j]
      BY <2>7, <2>9 DEF Live
    <3>4. d # g
      BY <2>3, <2>9, <3>2
    <3>5. UnderWay(g)' = UnderWay(g) /\ UnderWay(g) # 0
      BY <1>1, <1>3, <3>1, <3>3, <3>4 DEF NothingLost
    <3> QED
      BY <1>4, <3>2, <3>3, <3>5
  <2>10. \A j \in 0 .. NHandlers - 1 : conn_data'[j] # None => UnderWay(HandleOf(j))' # 0
    BY <2>6, <2>8, <2>9
  <2>11. ClosedTerminates'
    <3>1. SUFFICES ASSUME NEW j \in 0 .. NHandlers - 1, conn_data'[j] # None,
                          conn_data'[j].state = "Closed"
                   PROVE  current' = HandleOf(j)' /\ intents' = <<Terminate>>
      BY DEF ClosedTerminates, Live
    <3>2. j = i
      BY <2>9, <3>1
    <3> QED
      BY <1>2, <2>4, <2>6, <2>7, <3>1, <3>2
  <2> QED
    BY <2>10, <2>11 DEF NothingLost, Live
<1> QED
  BY <1>5, <1>6, <1>7

(* A new machine. *)
LEMMA SpawnNothingLost ==
  ASSUME TypeOK, TypeOK', NothingLost, CompleteSpawn, panic' = "no"
  PROVE  NothingLost'
<1>1. panic = "no"
  BY DEF CompleteSpawn, AtIntent, Running
<1>2. Head(intents) # Terminate /\ intents # <<Terminate>>
  BY SpawnWays
<1>3. PICK i \in 0 .. NHandlers - 1 :
        /\ conn_data'[i] # None /\ conn_data'[i].state = "Init"
        /\ \A j \in (0 .. NHandlers - 1) \ {i} : conn_data'[j] = conn_data[j]
        /\ conn_alloc'.generation = conn_alloc.generation
        /\ HandleOf(i) \in ConnHandles
        /\ \A g \in ConnHandles :
             UnderWay(g)' = UnderWay(g) + (IF g = HandleOf(i) THEN 1 ELSE 0)
  BY SpawnWays
<1>4. ASSUME NEW j \in 0 .. NHandlers - 1, conn_data'[j] # None
      PROVE  UnderWay(HandleOf(j))' # 0
  <2>1. PICK g \in ConnHandles : g = HandleOf(j)
    BY HandleType
  <2>2. g = HandleOf(j)' /\ g.index = j
    BY <1>3, <2>1, HandleType
  <2>3. UnderWay(g) \in Nat /\ UnderWay(g)' \in Nat
    BY UnderWayType, UnderWayTypeNext
  <2>4. CASE j = i
    <3>1. UnderWay(g)' = UnderWay(g) + 1
      BY <1>3, <2>1, <2>4
    <3> QED
      BY <2>2, <2>3, <3>1
  <2>5. CASE j # i
    <3>1. g # HandleOf(i)
      <4>1. HandleOf(i).index = i
        BY HandleType
      <4> QED
        BY <2>2, <2>5, <4>1
    <3>2. UnderWay(g)' = UnderWay(g) + 0
      BY <1>3, <3>1
    <3>3. UnderWay(g) # 0
      BY <1>1, <1>3, <1>4, <2>1, <2>5 DEF NothingLost, Live
    <3> QED
      BY <2>2, <2>3, <3>2, <3>3
  <2> QED
    BY <2>4, <2>5
<1>5. ClosedTerminates'
  BY <1>1, <1>2, <1>3 DEF NothingLost, ClosedTerminates, Live
<1> QED
  BY <1>4, <1>5 DEF NothingLost, Live

(* A machine that goes. *)
LEMMA TerminateNothingLost ==
  ASSUME TypeOK, TypeOK', NothingLost, CompleteTerminate, panic' = "no"
  PROVE  NothingLost'
<1>1. panic = "no"
  BY DEF CompleteTerminate, AtIntent, Running
<1>2. PICK h \in ConnHandles : h = current
  BY TerminateWays
<1>3. /\ intents # << >> /\ Head(intents) = Terminate
      /\ \A g \in ConnHandles : UnderWay(g) = UnderWay(g)' + (IF h = g THEN 1 ELSE 0)
      /\ IF h.generation = conn_alloc.generation[h.index]
         THEN /\ conn_data' = [conn_data EXCEPT ![h.index] = None]
              /\ \A j \in (0 .. NHandlers - 1) \ {h.index} :
                   conn_alloc'.generation[j] = conn_alloc.generation[j]
         ELSE MachinesKept
  BY <1>2, TerminateWays
<1>4. h.index \in 0 .. NHandlers - 1
  BY DEF ConnHandles
<1>5. ASSUME NEW j \in 0 .. NHandlers - 1, conn_data'[j] # None
      PROVE  /\ conn_data'[j] = conn_data[j] /\ HandleOf(j)' = HandleOf(j)
             /\ HandleOf(j) # h /\ HandleOf(j) \in ConnHandles
  <2>1. CASE h.generation = conn_alloc.generation[h.index]
    <3>1. j # h.index
      BY <1>3, <1>4, <1>5, <2>1 DEF TypeOK
    <3> QED
      BY <1>3, <1>4, <2>1, <3>1, HandleType DEF TypeOK
  <2>2. CASE h.generation # conn_alloc.generation[h.index]
    <3>1. HandleOf(j).generation = conn_alloc.generation[HandleOf(j).index]
      BY HandleType DEF HandleOf, ObjectHandle
    <3> QED
      BY <1>3, <2>2, <3>1, HandleType DEF MachinesKept
  <2> QED
    BY <2>1, <2>2
<1>6. ASSUME NEW j \in 0 .. NHandlers - 1, conn_data'[j] # None
      PROVE  UnderWay(HandleOf(j))' # 0 /\ conn_data'[j].state # "Closed"
  <2>1. PICK g \in ConnHandles : g = HandleOf(j)
    BY <1>5, <1>6
  <2>2. g = HandleOf(j)' /\ g # h /\ conn_data'[j] = conn_data[j]
    BY <1>5, <1>6, <2>1
  <2>3. UnderWay(g) = UnderWay(g)' + 0
    BY <1>3, <2>2
  <2>4. UnderWay(g) # 0 /\ conn_data[j].state # "Closed"
    BY <1>1, <1>2, <1>6, <2>1, <2>2 DEF NothingLost, ClosedTerminates, Live
  <2> QED
    BY <2>2, <2>3, <2>4, UnderWayTypeNext
<1> QED
  BY <1>6 DEF NothingLost, ClosedTerminates, Live

(* Nothing moves. *)
LEMMA StutterWays ==
  ASSUME UNCHANGED vars
  PROVE  WaysKept /\ MachinesKept /\ UNCHANGED <<panic, current, intents>>
<1>1. /\ UNCHANGED <<run_queues, sq, reads, cq, intents, panic, current>> /\ MachinesKept
  BY DEF vars, contextVars, loopVars, machineVars, ringVars, kernelVars, MachinesKept
<1>2. ASSUME NEW h \in ConnHandles PROVE UnderWay(h)' = UnderWay(h)
  <2>1. InQueues(h)' = InQueues(h) /\ InRing(h)' = InRing(h)
    BY <1>1, StillQueues, StillRing
  <2> QED
    BY <1>1, <2>1 DEF UnderWay
<1> QED
  BY <1>1, <1>2 DEF WaysKept

(* Every step. *)
LEMMA NextNothingLost ==
  ASSUME TypeOK, TypeOK', NothingLost, [Next]_vars
  PROVE  NothingLost'
<1> SUFFICES ASSUME panic' = "no" PROVE NothingLost'
  BY DEF NothingLost
<1>1. CASE UNCHANGED vars
  BY <1>1, StutterWays, StaysNothingLost DEF WaysKept
<1>2. CASE \/ DrainDone \/ IntentsDone \/ SubmitShortcut \/ SubmitEnter
           \/ EnterReturns \/ ReapDone
  <2>1. <<Terminate>> # << >>
    OBVIOUS
  <2> QED
    BY <1>2, <2>1, MovesCount, StaysNothingLost DEF WaysKept
<1>3. CASE \/ EnterIssues \/ KernelAccepts \/ KernelRefuses \/ KernelReads \/ KernelFails
           \/ \E c \in Conns : KernelEnds(c)
  BY <1>3, KernelWays, StaysNothingLost DEF WaysKept
<1>4. CASE Reap
  BY <1>4, ReapWays, StaysNothingLost DEF WaysKept, Reap, At, Running
<1>5. CASE CompleteAccept \/ CompleteRecv \/ CompleteClose
  <2>1. panic = "no"
    BY <1>5 DEF CompleteAccept, CompleteRecv, CompleteClose, AtIntent, Running
  <2>2. Head(<<Terminate>>) = Terminate
    OBVIOUS
  <2> QED
    BY <1>5, <2>1, <2>2, RequestWays, StaysNothingLost DEF WaysKept
<1>6. CASE CompleteRetry
  <2>1. panic = "no"
    BY <1>6 DEF CompleteRetry, AtIntent, Running
  <2>2. Head(<<Terminate>>) = Terminate
    OBVIOUS
  <2> QED
    BY <1>6, <2>1, <2>2, RetryWays, StaysNothingLost DEF WaysKept
<1>7. CASE EnterError
  BY <1>7 DEF EnterError, Crash
<1> QED
  BY <1>1, <1>2, <1>3, <1>4, <1>5, <1>6, <1>7,
     DispatchNothingLost, SpawnNothingLost, TerminateNothingLost, Zenon DEF Next, Thread

(* No machine is ever left with nothing under way, in any build and        *)
(* whatever errors its reads complete with: each is in a run queue, has an *)
(* intent of its own, or a request that the kernel will complete           *)
(* (executor/mod.rs:97-186, conn_handler.rs:48-174).  It follows from each *)
(* arm's answering with an intent, and from a machine's being despawned by *)
(* its last one.                                                           *)
THEOREM ExecNoLostMachine == Spec => []NoLostMachine
<1>1. Init => NothingLost
  BY DEF Init, NothingLost, ClosedTerminates, Live
<1>2. TypeOK /\ NothingLost /\ [Next]_vars => NothingLost'
  BY NextTypeOK, NextNothingLost
<1>3. TypeOK /\ NothingLost => NoLostMachine
  <2> SUFFICES ASSUME TypeOK, NothingLost, panic = "no",
                      NEW i \in 0 .. NHandlers - 1, Live(i)
               PROVE  Continuations(HandleOf(i)) >= 1
    BY DEF NoLostMachine
  <2>1. PICK h \in ConnHandles : h = HandleOf(i)
    BY HandleType
  <2>2. Continuations(h) = UnderWay(h) /\ UnderWay(h) \in Nat /\ UnderWay(h) # 0
    BY <2>1, UnderWayContinues, UnderWayType DEF NothingLost
  <2> QED
    BY <2>1, <2>2
<1> QED
  BY <1>1, <1>2, <1>3, ExecTypeOK, PTL DEF Spec

-----------------------------------------------------------------------------
(* No machine is served twice, as long as no read completes with an error  *)
(* that its machine answers with two intents.                              *)
CalmErrnos == RecvErrnos \cap (RetryErrnos \cup CloseErrnos) = {}

(* The results that would make a machine answer so. *)
LoudEvents == {e \in RunQueueEvents : e.handle \in ConnHandles /\ ~Calm(e.reason.res)}

LoudCqes == {r \in Cqes : r.user \in ConnHandles /\ ~Calm(r.res)}

NoneIn(s, S) == \A k \in DOMAIN s : s[k] \notin S

(* No event of E is queued, and no completion of C. *)
Neither(E, C) ==
  NoneIn(cq, C) /\ NoneIn(run_queues[0], E) /\ NoneIn(run_queues[1], E)

ResultsCalm == Neither(LoudEvents, LoudCqes)

(* What is in no part of a queue is not in what is left or added to. *)
LEMMA NoneTail ==
  \A T : \A s \in Seq(T) : \A S : s # << >> /\ NoneIn(s, S) =>
    NoneIn(Tail(s), S) /\ Head(s) \notin S
<1> SUFFICES ASSUME NEW T, NEW s \in Seq(T), NEW S, s # << >>, NoneIn(s, S)
             PROVE  NoneIn(Tail(s), S) /\ Head(s) \notin S
  OBVIOUS
<1>1. /\ 1 \in DOMAIN s /\ Head(s) = s[1]
      /\ \A k \in DOMAIN Tail(s) : k + 1 \in DOMAIN s /\ Tail(s)[k] = s[k + 1]
  OBVIOUS
<1> QED
  BY <1>1 DEF NoneIn

(* An element that is not in S is added. *)
LEMMA NoneAppend ==
  \A T : \A s \in Seq(T) : \A e \in T : \A S : NoneIn(s, S) /\ e \notin S =>
    NoneIn(Append(s, e), S)
<1> SUFFICES ASSUME NEW T, NEW s \in Seq(T), NEW e \in T, NEW S, NoneIn(s, S), e \notin S
             PROVE  NoneIn(Append(s, e), S)
  OBVIOUS
<1>1. \A k \in DOMAIN Append(s, e) :
        Append(s, e)[k] = e \/ (k \in DOMAIN s /\ Append(s, e)[k] = s[k])
  OBVIOUS
<1> QED
  BY <1>1 DEF NoneIn

(* What the kernel posts without a fault, and the errors it may report. *)
LEMMA CalmResults ==
  /\ \A n \in Nat : Calm(n)
  /\ Calm(-EFAULT) /\ Calm(-EBADF)
  /\ CalmErrnos => \A errno \in RecvErrnos : Calm(-errno)
<1>1. \A n \in Nat : Calm(n)
  BY DEF Calm
<1>2. Calm(-EFAULT) /\ Calm(-EBADF)
  <2>0. \A n \in Int : from_raw_syscall_error(-n) = n
    BY DEF from_raw_syscall_error
  <2>1. from_raw_syscall_error(-EFAULT) = 14 /\ from_raw_syscall_error(-EBADF) = 9
    BY <2>0 DEF EFAULT, EBADF
  <2>2. 14 \notin RetryErrnos \cup CloseErrnos /\ 9 \notin RetryErrnos \cup CloseErrnos
    BY DEF RetryErrnos, CloseErrnos, EINTR, EAGAIN, ENOBUFS, ENOMEM, ETIMEDOUT, EIO,
           ECONNRESET, ENOTCONN, ESHUTDOWN, ECONNABORTED, ENETDOWN, ENETUNREACH, ENETRESET
  <2> QED
    BY <2>1, <2>2 DEF Calm
<1>3. CalmErrnos => \A errno \in RecvErrnos : Calm(-errno)
  <2> SUFFICES ASSUME CalmErrnos, NEW errno \in RecvErrnos PROVE Calm(-errno)
    OBVIOUS
  <2>1. errno \in Int
    BY DEF Errnos
  <2>2. from_raw_syscall_error(-errno) = errno
    BY <2>1 DEF from_raw_syscall_error
  <2>3. errno \notin RetryErrnos \cup CloseErrnos
    BY DEF CalmErrnos
  <2> QED
    BY <2>2, <2>3 DEF Calm
<1> QED
  BY <1>1, <1>2, <1>3

(* The kernel posts nothing else. *)
LEMMA KernelCalm ==
  ASSUME TypeOK, CalmErrnos, ResultsCalm,
         \/ EnterIssues \/ KernelAccepts \/ KernelRefuses \/ KernelReads \/ KernelFails
         \/ \E c \in Conns : KernelEnds(c)
  PROVE  ResultsCalm'
<1>1. run_queues' = run_queues
  BY DEF EnterIssues, KernelAccepts, KernelRefuses, KernelReads, KernelFails, KernelEnds,
         ProgramUnchanged, loopVars
<1>2. ASSUME NEW u \in ConnHandles, NEW res \in Int, Calm(res), cq' = Append(cq, Cqe(u, res, FALSE))
      PROVE  NoneIn(cq', LoudCqes)
  <2>1. Cqe(u, res, FALSE) \in Cqes /\ Cqe(u, res, FALSE).res = res
    BY DEF Cqe, Cqes
  <2>2. Cqe(u, res, FALSE) \notin LoudCqes
    BY <1>2, <2>1 DEF LoudCqes
  <2> QED
    BY <1>2, <2>1, <2>2, NoneAppend DEF ResultsCalm, Neither, TypeOK
<1>3. ASSUME NEW res \in AcceptResults, NEW more \in BOOLEAN, cq' = Append(cq, Cqe(TcpHandle, res, more))
      PROVE  NoneIn(cq', LoudCqes)
  <2>1. Cqe(TcpHandle, res, more) \in Cqes /\ Cqe(TcpHandle, res, more) \notin LoudCqes
    BY HandleKinds DEF Cqe, Cqes, LoudCqes
  <2> QED
    BY <1>3, <2>1, NoneAppend DEF ResultsCalm, Neither, TypeOK
<1>4. CASE EnterIssues
  <2> DEFINE e == Head(sq)
  <2>1. e \in Sqes
    BY <1>4, PopType DEF TypeOK, EnterIssues, Issue
  <2>2. e.op # "accept" => e.user \in ConnHandles
    BY <2>1 DEF Sqes, AcceptMulti
  <2>3. \/ cq' = cq
        \/ e.op # "accept" /\ \E res \in {-EFAULT, -EBADF, 0} : cq' = Append(cq, Cqe(e.user, res, FALSE))
    <3>1. IssueAccept \/ IssueRecv \/ IssueClose
      BY <1>4 DEF EnterIssues, Issue
    <3> QED
      BY <3>1 DEF IssueAccept, IssueRecv, IssueClose, Post
  <2>4. \A res \in {-EFAULT, -EBADF, 0} : res \in Int /\ Calm(res)
    <3>1. 0 \in Nat /\ -EFAULT \in Int /\ -EBADF \in Int
      BY DEF EFAULT, EBADF
    <3> QED
      BY <3>1, CalmResults
  <2>5. NoneIn(cq', LoudCqes)
    BY <1>2, <2>2, <2>3, <2>4 DEF ResultsCalm, Neither
  <2> QED
    BY <1>1, <2>5 DEF ResultsCalm, Neither
<1>5. CASE KernelAccepts \/ KernelRefuses
  <2>1. \E res \in AcceptResults : \E more \in BOOLEAN : cq' = Append(cq, Cqe(TcpHandle, res, more))
    <3>1. -ENFILE \in AcceptResults
      BY DEF ENFILE, AcceptResults
    <3>2. Slots \subseteq AcceptResults
      BY DEF Slots, AcceptResults
    <3> QED
      BY <1>5, <3>1, <3>2 DEF KernelAccepts, KernelRefuses, AcceptCompletes, AcceptOverflows, Post
  <2>2. NoneIn(cq', LoudCqes)
    BY <1>3, <2>1
  <2> QED
    BY <1>1, <2>2 DEF ResultsCalm, Neither
<1>6. CASE KernelReads \/ KernelFails \/ \E c \in Conns : KernelEnds(c)
  <2>1. \E k \in DOMAIN reads : \E res \in Int : Completes(k, res) /\ Calm(res)
    <3>1. \A n \in 1 .. BufSize : n \in Int /\ Calm(n)
      <4>1. \A n \in 1 .. BufSize : n \in Nat
        OBVIOUS
      <4> QED
        BY <4>1, CalmResults
    <3>2. \A errno \in RecvErrnos : -errno \in Int /\ Calm(-errno)
      BY CalmResults DEF Errnos
    <3>3. 0 \in Int /\ Calm(0)
      BY CalmResults
    <3> QED
      BY <1>6, <3>1, <3>2, <3>3 DEF KernelReads, KernelFails, KernelEnds, ReadCompletes,
                                    ReadEnds, ReadFails
  <2>2. PICK k \in DOMAIN reads : \E res \in Int : Completes(k, res) /\ Calm(res)
    BY <2>1
  <2>3. PICK res \in Int : Completes(k, res) /\ Calm(res)
    BY <2>2
  <2>4. reads[k] \in Reads /\ cq' = Append(cq, Cqe(reads[k].user, res, FALSE))
    BY <2>3, CompletesType DEF Completes, Post
  <2>5. PICK u \in ConnHandles : u = reads[k].user
    BY <2>4 DEF Reads
  <2>6. NoneIn(cq', LoudCqes)
    BY <1>2, <2>3, <2>4, <2>5
  <2> QED
    BY <1>1, <2>6 DEF ResultsCalm, Neither
<1> QED
  BY <1>4, <1>5, <1>6

(* An event that is popped. *)
LEMMA PopNeither ==
  ASSUME TypeOK, NEW E, NEW C, Neither(E, C), Pop
  PROVE  Neither(E, C)' /\ NextEvent \notin E
<1> DEFINE c == current_run_queue
<1>1. /\ c \in {0, 1} /\ run_queues \in [{0, 1} -> Seq(RunQueueEvents)]
      /\ run_queues[c] \in Seq(RunQueueEvents) /\ run_queues[c] # << >>
      /\ run_queues' = [run_queues EXCEPT ![c] = Tail(run_queues[c])]
      /\ NextEvent = Head(run_queues[c]) /\ cq' = cq
  BY DEF TypeOK, Pop, NextEvent, ringVars
<1> HIDE DEF c
<1>2. NoneIn(run_queues[c], E)
  BY <1>1 DEF Neither
<1>3. NoneIn(Tail(run_queues[c]), E) /\ NextEvent \notin E
  BY <1>1, <1>2, NoneTail
<1>5. \A q \in {0, 1} : run_queues'[q] = IF q = c THEN Tail(run_queues[c]) ELSE run_queues[q]
  BY <1>1
<1>6. NoneIn(run_queues'[0], E) /\ NoneIn(run_queues'[1], E)
  BY <1>3, <1>5 DEF Neither
<1> QED
  BY <1>1, <1>3, <1>6 DEF Neither

(* An event that is pushed. *)
LEMMA PushNeither ==
  ASSUME TypeOK, NEW E, NEW C, Neither(E, C),
         NEW q \in {0, 1}, NEW e \in RunQueueEvents, Push(q, e),
         e \notin E, NoneIn(cq', C)
  PROVE  Neither(E, C)'
<1>1. /\ run_queues \in [{0, 1} -> Seq(RunQueueEvents)]
      /\ run_queues[q] \in Seq(RunQueueEvents)
      /\ run_queues' = [run_queues EXCEPT ![q] = Append(run_queues[q], e)]
  BY DEF TypeOK, Push
<1>2. NoneIn(Append(run_queues[q], e), E)
  <2>1. NoneIn(run_queues[q], E)
    BY DEF Neither
  <2> QED
    BY <1>1, <2>1, NoneAppend
<1>3. \A p \in {0, 1} :
        run_queues'[p] = IF p = q THEN Append(run_queues[q], e) ELSE run_queues[p]
  BY <1>1
<1>4. NoneIn(run_queues'[0], E) /\ NoneIn(run_queues'[1], E)
  BY <1>2, <1>3 DEF Neither
<1> QED
  BY <1>4 DEF Neither

KernelStep ==
  \/ EnterIssues \/ KernelAccepts \/ KernelRefuses \/ KernelReads \/ KernelFails
  \/ \E c \in Conns : KernelEnds(c)

(* What the kernel never posts never becomes an event. *)
LEMMA NextNeither ==
  ASSUME TypeOK, NEW E, NEW C, Neither(E, C), [Next]_vars,
         \A h : RunQueueEvent(Spawn, h) \notin E,
         \A r \in Cqes : r \notin C =>
           RunQueueEvent(IoCompleted(r.res, r.more), r.user) \notin E,
         KernelStep => Neither(E, C)'
  PROVE  Neither(E, C)'
<1>1. ASSUME UNCHANGED <<run_queues, cq>> PROVE Neither(E, C)'
  BY <1>1 DEF Neither
<1>2. ASSUME NEW site, Crash(site) PROVE Neither(E, C)'
  BY <1>1, <1>2 DEF Crash, loopVars, ringVars
<1>4. CASE UNCHANGED vars
  BY <1>1, <1>4 DEF vars, loopVars, ringVars
<1>5. CASE \/ DrainDone \/ IntentsDone \/ SubmitShortcut \/ SubmitEnter
           \/ EnterReturns \/ ReapDone
  BY <1>1, <1>5 DEF DrainDone, IntentsDone, SubmitShortcut, SubmitEnter, EnterReturns, ReapDone,
                    ringVars
<1>6. CASE \/ EnterIssues \/ KernelAccepts \/ KernelRefuses \/ KernelReads \/ KernelFails
           \/ \E c \in Conns : KernelEnds(c)
  BY <1>6 DEF KernelStep
<1>7. CASE DispatchTcp \/ DispatchConn \/ DispatchMissing
  BY <1>7, PopNeither DEF DispatchTcp, DispatchConn, DispatchMissing
<1>8. CASE Reap
  <2> DEFINE r == Head(cq)
             e == RunQueueEvent(IoCompleted(r.res, r.more), r.user)
  <2>1. CASE CanPush(next_run_queue_idx)
    <3>1. /\ cq # << >> /\ Push(next_run_queue_idx, e) /\ cq' = Tail(cq)
      BY <1>8, <2>1, Zenon DEF Reap
    <3>2. r \in Cqes /\ next_run_queue_idx \in {0, 1}
      <4>1. cq \in Seq(Cqes) /\ current_run_queue \in {0, 1}
        BY Zenon DEF TypeOK
      <4> QED
        BY <3>1, <4>1, PopType DEF next_run_queue_idx
    <3>3. e \in RunQueueEvents /\ e.handle = r.user /\ e.reason.res = r.res
      BY <3>2 DEF RunQueueEvent, RunQueueEvents, IoCompleted, Events, Cqes, AcceptResults
    <3>4. NoneIn(cq', C) /\ r \notin C
      BY <3>1, NoneTail DEF Neither, TypeOK
    <3>5. e \notin E
      BY <3>2, <3>4
    <3> HIDE DEF e
    <3> QED
      BY <3>1, <3>2, <3>3, <3>4, <3>5, PushNeither
  <2>2. CASE ~CanPush(next_run_queue_idx)
    BY <1>2, <1>8, <2>2 DEF Reap
  <2> QED
    BY <2>1, <2>2
<1>9. CASE CompleteAccept \/ CompleteRecv \/ CompleteClose
  <2>1. ASSUME NEW sqe, EnqueueFor(sqe) PROVE Neither(E, C)'
    <3>1. CASE CanEnqueue
      <4>1. IntentDone /\ UNCHANGED <<io_bufs, run_queues, conn_alloc, conn_data>>
        BY <2>1, <3>1, Zenon DEF EnqueueFor
      <4> QED
        BY <1>1, <4>1 DEF IntentDone
    <3>2. CASE ~CanEnqueue
      BY <1>2, <2>1, <3>2 DEF EnqueueFor
    <3> QED
      BY <3>1, <3>2
  <2> QED
    BY <1>2, <1>9, <2>1, Zenon DEF CompleteAccept, CompleteRecv, CompleteClose
<1>10. CASE CompleteRetry
  <2> DEFINE e == RunQueueEvent(Spawn, current)
  <2>1. CASE CanPush(next_run_queue_idx)
    <3>1. Push(next_run_queue_idx, e) /\ IntentDone
      BY <1>10, <2>1, Zenon DEF CompleteRetry
    <3>2. current \in ConnHandles
      BY <1>10, IntentKinds DEF CompleteRetry, AtIntent
    <3>3. e \in RunQueueEvents /\ next_run_queue_idx \in {0, 1}
      BY <3>2 DEF RunQueueEvent, RunQueueEvents, Spawn, Events, TypeOK, next_run_queue_idx
    <3>4. e \notin E /\ NoneIn(cq', C)
      BY <3>1 DEF IntentDone, Neither
    <3> HIDE DEF e
    <3> QED
      BY <3>1, <3>3, <3>4, PushNeither
  <2>2. CASE ~CanPush(next_run_queue_idx)
    BY <1>2, <1>10, <2>2 DEF CompleteRetry
  <2> QED
    BY <2>1, <2>2
<1>11. CASE CompleteSpawn
  <2> DEFINE id == AllocId(conn_alloc)
             e == RunQueueEvent(Spawn, ObjectHandle(CONN_HANDLER, id))
  <2>1. \/ \E site : Crash(site)
        \/ CanAlloc(conn_alloc) /\ Push(current_run_queue, e) /\ IntentDone
    BY <1>11, Zenon DEF CompleteSpawn
  <2>2. CASE CanAlloc(conn_alloc) /\ Push(current_run_queue, e) /\ IntentDone
    <3>1. id \in [index : 0 .. NHandlers - 1, generation : 0 .. GenSpan - 1]
      BY <2>2, AllocType DEF TypeOK
    <3>2. ObjectHandle(CONN_HANDLER, id) \in ConnHandles
      BY <3>1 DEF ObjectHandle, ConnHandles
    <3>3. e \in RunQueueEvents /\ current_run_queue \in {0, 1}
      BY <3>2 DEF RunQueueEvent, RunQueueEvents, Spawn, Events, TypeOK
    <3>4. e \notin E /\ NoneIn(cq', C)
      BY <2>2 DEF IntentDone, Neither
    <3> HIDE DEF e
    <3> QED
      BY <2>2, <3>3, <3>4, PushNeither
  <2> QED
    BY <1>2, <2>1, <2>2
<1>12. CASE CompleteTerminate
  <2>1. CASE FreePanics(conn_alloc, current)
    BY <1>2, <1>12, <2>1 DEF CompleteTerminate
  <2>2. CASE ~FreePanics(conn_alloc, current)
    <3>1. IntentDone /\ UNCHANGED <<io_bufs, run_queues, sq>>
      BY <1>12, <2>2, Zenon DEF CompleteTerminate
    <3> QED
      BY <1>1, <3>1 DEF IntentDone
  <2> QED
    BY <2>1, <2>2
<1>13. CASE EnterError
  BY <1>2, <1>13 DEF EnterError
<1> QED
  BY <1>4, <1>5, <1>6, <1>7, <1>8, <1>9, <1>10, <1>11, <1>12, <1>13, Zenon DEF Next, Thread

(* Every step. *)
LEMMA NextCalm ==
  ASSUME TypeOK, CalmErrnos, ResultsCalm, [Next]_vars
  PROVE  ResultsCalm'
<1>1. \A h : RunQueueEvent(Spawn, h) \notin LoudEvents
  <2>1. Calm(0)
    BY CalmResults
  <2> QED
    BY <2>1 DEF RunQueueEvent, Spawn, LoudEvents
<1>2. \A r \in Cqes : r \notin LoudCqes =>
        RunQueueEvent(IoCompleted(r.res, r.more), r.user) \notin LoudEvents
  BY DEF RunQueueEvent, IoCompleted, LoudEvents, LoudCqes
<1>3. KernelStep => ResultsCalm'
  BY KernelCalm DEF KernelStep
<1> QED
  BY <1>1, <1>2, <1>3, NextNeither DEF ResultsCalm

(* One thing is under way for a machine, and none for a handle that does   *)
(* not resolve.                                                            *)
ExactlyOne ==
  panic = "no" => \A h \in ConnHandles : UnderWay(h) = IF Resolves(h) THEN 1 ELSE 0

(* A step that moves what is under way, and changes no machine's being     *)
(* there.                                                                  *)
LEMMA StaysExactlyOne ==
  ASSUME ExactlyOne, panic = "no", WaysKept,
         \A h \in ConnHandles : Resolves(h)' <=> Resolves(h)
  PROVE  ExactlyOne'
BY DEF ExactlyOne, WaysKept

(* The handles resolve as before when the machines stay as they are. *)
LEMMA SameMachinesResolve ==
  ASSUME MachinesKept
  PROVE  \A h \in ConnHandles : Resolves(h)' <=> Resolves(h)
BY DEF MachinesKept, Resolves, Live

(* Dispatching an event. *)
LEMMA DispatchExactlyOne ==
  ASSUME TypeOK, TypeOK', NothingLost, ResultsCalm, ExactlyOne,
         DispatchTcp \/ DispatchConn \/ DispatchMissing, panic' = "no"
  PROVE  ExactlyOne'
<1> DEFINE d == NextEvent.handle
<1>1. Pop /\ panic = "no"
  BY DEF DispatchTcp, DispatchConn, DispatchMissing, Pop, Running
<1>2. /\ intents = << >> /\ conn_alloc' = conn_alloc /\ current' = d
      /\ NextEvent \in RunQueueEvents
      /\ \A g \in ConnHandles :
           UnderWay(g)' + (IF d = g THEN 1 ELSE 0)
             = UnderWay(g) + (IF d = g THEN Len(intents') ELSE 0)
  BY <1>1, DispatchWays
<1>3. \A g \in ConnHandles : d # g => UnderWay(g)' = UnderWay(g)
  <2> SUFFICES ASSUME NEW g \in ConnHandles, d # g PROVE UnderWay(g)' = UnderWay(g)
    OBVIOUS
  <2>1. UnderWay(g)' + 0 = UnderWay(g) + 0
    BY <1>2
  <2> QED
    BY <2>1, UnderWayType, UnderWayTypeNext
<1>4. \A g \in ConnHandles : d = g => UnderWay(g)' + 1 = UnderWay(g) + Len(intents')
  BY <1>2
<1>5. <<Terminate>> # << >> /\ \A i \in 0 .. NHandlers - 1 : Live(i) => conn_data[i].state # "Closed"
  BY <1>1, <1>2 DEF NothingLost, ClosedTerminates
<1> HIDE DEF d
<1>6. CASE DispatchTcp
  <2>1. conn_data' = conn_data /\ d \notin ConnHandles
    BY <1>6, HandleKinds DEF DispatchTcp, d
  <2>2. WaysKept
    BY <1>3, <2>1 DEF WaysKept
  <2> QED
    BY <1>1, <1>2, <2>1, <2>2, StaysExactlyOne, SameMachinesResolve DEF MachinesKept
<1>7. CASE DispatchMissing
  <2>1. conn_data' = conn_data /\ ~Finds(d) /\ intents' = << >> /\ d.pool = CONN_HANDLER
    BY <1>7 DEF DispatchMissing, d
  <2>2. PICK h \in ConnHandles : h = d
    BY <1>2, <2>1, EventKinds DEF d
  <2>3. ~Resolves(h)
    BY <2>1, <2>2 DEF Resolves, Finds, IsValid, Live, ConnHandles, TypeOK, GenAllocs
  <2>4. UnderWay(h) = 0
    BY <1>1, <2>3 DEF ExactlyOne
  <2>5. UnderWay(h)' + 1 = UnderWay(h) + Len(intents')
    BY <1>4, <2>2
  <2>6. Len(intents') = 0
    BY <2>1
  <2>7. UnderWay(h)' \in Nat
    BY UnderWayTypeNext
  <2> QED
    BY <2>4, <2>5, <2>6, <2>7
<1>8. CASE DispatchConn
  <2>1. /\ Finds(d) /\ d.pool = CONN_HANDLER
        /\ ConnProcessEvent(d.index, NextEvent.reason)
    BY <1>8 DEF DispatchConn, d
  <2>2. d \in ConnHandles /\ NextEvent.reason \in Events(Int)
    BY <1>2, <2>1, EventKinds DEF d
  <2>3. PICK i \in 0 .. NHandlers - 1 : i = d.index
    BY <2>2 DEF ConnHandles
  <2>4. Live(i) /\ conn_data[i] \in ConnHandlers
    BY <2>1, <2>3 DEF Finds, Live, TypeOK
  <2>5. Calm(NextEvent.reason.res)
    BY <1>1, <1>2, <2>2, PopNeither DEF ResultsCalm, LoudEvents, d
  <2>6. /\ conn_data'[i] # None
        /\ \A j \in (0 .. NHandlers - 1) \ {i} : conn_data'[j] = conn_data[j]
        /\ Len(intents') = 1
    BY <1>2, <1>5, <2>1, <2>2, <2>3, <2>4, <2>5, ArmWays
  <2>7. WaysKept
    <3> SUFFICES ASSUME NEW g \in ConnHandles PROVE UnderWay(g)' = UnderWay(g)
      BY DEF WaysKept
    <3>1. UnderWay(g) \in Nat /\ UnderWay(g)' \in Nat
      BY UnderWayType, UnderWayTypeNext
    <3>2. CASE d = g
      <4>1. UnderWay(g)' + 1 = UnderWay(g) + 1
        BY <1>4, <2>6, <3>2
      <4> QED
        BY <3>1, <4>1
    <3> QED
      BY <1>3, <3>2
  <2>8. \A h \in ConnHandles : Resolves(h)' <=> Resolves(h)
    <3>1. \A j \in 0 .. NHandlers - 1 : conn_data'[j] # None <=> conn_data[j] # None
      BY <2>4, <2>6 DEF Live
    <3>2. \A h \in ConnHandles : h.index \in 0 .. NHandlers - 1
      BY DEF ConnHandles
    <3> QED
      BY <1>2, <3>1, <3>2 DEF Resolves, Live
  <2> QED
    BY <1>1, <2>7, <2>8, StaysExactlyOne
<1> QED
  BY <1>6, <1>7, <1>8

(* A new machine: nothing is left for its handle. *)
LEMMA SpawnExactlyOne ==
  ASSUME TypeOK, TypeOK', ExactlyOne, CompleteSpawn, panic' = "no"
  PROVE  ExactlyOne'
<1>1. panic = "no"
  BY DEF CompleteSpawn, AtIntent, Running
<1>2. PICK i \in 0 .. NHandlers - 1 :
        /\ ~Live(i) /\ conn_data'[i] # None
        /\ \A j \in (0 .. NHandlers - 1) \ {i} : conn_data'[j] = conn_data[j]
        /\ conn_alloc'.generation = conn_alloc.generation
        /\ HandleOf(i) \in ConnHandles
        /\ \A g \in ConnHandles :
             UnderWay(g)' = UnderWay(g) + (IF g = HandleOf(i) THEN 1 ELSE 0)
  BY SpawnWays
<1>3. PICK h \in ConnHandles : h = HandleOf(i)
  BY <1>2
<1>4. h.index = i /\ h.generation = conn_alloc.generation[i]
  BY <1>3 DEF HandleOf, ObjectHandle
<1>5. UnderWay(h) = 0 /\ UnderWay(h)' = UnderWay(h) + 1 /\ Resolves(h)'
  BY <1>1, <1>2, <1>3, <1>4 DEF ExactlyOne, Resolves, Live
<1>6. ASSUME NEW g \in ConnHandles, g # h
      PROVE  UnderWay(g)' = UnderWay(g) /\ (Resolves(g)' <=> Resolves(g))
  <2>1. UnderWay(g)' = UnderWay(g) + 0 /\ UnderWay(g) \in Nat
    BY <1>2, <1>3, <1>6, UnderWayType
  <2>2. g.index \in 0 .. NHandlers - 1
    BY DEF ConnHandles
  <2>3. CASE g.index = i
    <3>1. g.generation # conn_alloc.generation[i]
      BY <1>3, <1>6, <2>3, HandleType
    <3> QED
      BY <1>2, <2>1, <2>3, <3>1 DEF Resolves
  <2>4. CASE g.index # i
    BY <1>2, <2>1, <2>2, <2>4 DEF Resolves, Live
  <2> QED
    BY <2>3, <2>4
<1>7. ASSUME NEW g \in ConnHandles PROVE UnderWay(g)' = IF Resolves(g)' THEN 1 ELSE 0
  <2>1. CASE g = h
    BY <1>5, <2>1
  <2>2. CASE g # h
    BY <1>1, <1>6, <2>2 DEF ExactlyOne
  <2> QED
    BY <2>1, <2>2
<1> QED
  BY <1>7 DEF ExactlyOne

(* A machine that goes: nothing is left for it. *)
LEMMA TerminateExactlyOne ==
  ASSUME TypeOK, TypeOK', ExactlyOne, CompleteTerminate, panic' = "no"
  PROVE  ExactlyOne'
<1>1. panic = "no"
  BY DEF CompleteTerminate, AtIntent, Running
<1>2. PICK h \in ConnHandles : h = current
  BY TerminateWays
<1>3. /\ \A g \in ConnHandles : UnderWay(g) = UnderWay(g)' + (IF h = g THEN 1 ELSE 0)
      /\ IF h.generation = conn_alloc.generation[h.index]
         THEN /\ conn_data' = [conn_data EXCEPT ![h.index] = None]
              /\ \A j \in (0 .. NHandlers - 1) \ {h.index} :
                   conn_alloc'.generation[j] = conn_alloc.generation[j]
         ELSE MachinesKept
  BY <1>2, TerminateWays
<1>4. UnderWay(h) = UnderWay(h)' + 1 /\ UnderWay(h) \in Nat /\ UnderWay(h)' \in Nat
  BY <1>3, UnderWayType, UnderWayTypeNext
<1>5. Resolves(h) /\ UnderWay(h)' = 0
  <2>1. CASE Resolves(h)
    <3>1. UnderWay(h) = 1
      BY <1>1, <2>1 DEF ExactlyOne
    <3> QED
      BY <1>4, <2>1, <3>1
  <2>2. CASE ~Resolves(h)
    <3>1. UnderWay(h) = 0
      BY <1>1, <2>2 DEF ExactlyOne
    <3> QED
      BY <1>4, <3>1
  <2> QED
    BY <2>1, <2>2
<1>6. h.index \in 0 .. NHandlers - 1
  BY DEF ConnHandles
<1>7. /\ conn_data'[h.index] = None
      /\ \A j \in (0 .. NHandlers - 1) \ {h.index} :
           conn_data'[j] = conn_data[j] /\ conn_alloc'.generation[j] = conn_alloc.generation[j]
  BY <1>3, <1>5, <1>6 DEF Resolves, TypeOK
<1>8. ASSUME NEW g \in ConnHandles PROVE UnderWay(g)' = IF Resolves(g)' THEN 1 ELSE 0
  <2>1. g.index \in 0 .. NHandlers - 1
    BY DEF ConnHandles
  <2>2. CASE g.index = h.index
    <3>1. ~Resolves(g)'
      BY <1>7, <2>2 DEF Resolves, Live
    <3>2. CASE g = h
      BY <1>5, <3>1, <3>2
    <3>3. CASE g # h
      <4>1. g.generation # h.generation
        BY <2>2, <3>3 DEF ConnHandles
      <4>2. ~Resolves(g)
        BY <1>5, <2>2, <4>1 DEF Resolves
      <4>3. UnderWay(g) = 0
        BY <1>1, <4>2 DEF ExactlyOne
      <4>4. UnderWay(g) = UnderWay(g)' + 0 /\ UnderWay(g)' \in Nat
        BY <1>3, <3>3, UnderWayTypeNext
      <4> QED
        BY <3>1, <4>3, <4>4
    <3> QED
      BY <3>2, <3>3
  <2>3. CASE g.index # h.index
    <3>1. Resolves(g)' <=> Resolves(g)
      BY <1>7, <2>1, <2>3 DEF Resolves, Live
    <3>2. UnderWay(g) = UnderWay(g)' + 0 /\ UnderWay(g)' \in Nat
      BY <1>3, <2>3, UnderWayTypeNext
    <3>3. UnderWay(g) = IF Resolves(g) THEN 1 ELSE 0
      BY <1>1 DEF ExactlyOne
    <3> QED
      BY <3>1, <3>2, <3>3
  <2> QED
    BY <2>2, <2>3
<1> QED
  BY <1>8 DEF ExactlyOne

(* Every step. *)
LEMMA NextExactlyOne ==
  ASSUME TypeOK, TypeOK', NothingLost, ResultsCalm, ExactlyOne, [Next]_vars
  PROVE  ExactlyOne'
<1> SUFFICES ASSUME panic' = "no" PROVE ExactlyOne'
  BY DEF ExactlyOne
<1>1. CASE UNCHANGED vars
  BY <1>1, StutterWays, StaysExactlyOne, SameMachinesResolve
<1>2. CASE \/ DrainDone \/ IntentsDone \/ SubmitShortcut \/ SubmitEnter
           \/ EnterReturns \/ ReapDone
  BY <1>2, MovesCount, StaysExactlyOne, SameMachinesResolve
<1>3. CASE \/ EnterIssues \/ KernelAccepts \/ KernelRefuses \/ KernelReads \/ KernelFails
           \/ \E c \in Conns : KernelEnds(c)
  BY <1>3, KernelWays, StaysExactlyOne, SameMachinesResolve
<1>4. CASE Reap
  <2>1. panic = "no"
    BY <1>4 DEF Reap, At, Running
  <2> QED
    BY <1>4, <2>1, ReapWays, StaysExactlyOne, SameMachinesResolve
<1>5. CASE CompleteAccept \/ CompleteRecv \/ CompleteClose
  <2>1. panic = "no"
    BY <1>5 DEF CompleteAccept, CompleteRecv, CompleteClose, AtIntent, Running
  <2> QED
    BY <1>5, <2>1, RequestWays, StaysExactlyOne, SameMachinesResolve
<1>6. CASE CompleteRetry
  <2>1. panic = "no"
    BY <1>6 DEF CompleteRetry, AtIntent, Running
  <2> QED
    BY <1>6, <2>1, RetryWays, StaysExactlyOne, SameMachinesResolve
<1>7. CASE EnterError
  BY <1>7 DEF EnterError, Crash
<1> QED
  BY <1>1, <1>2, <1>3, <1>4, <1>5, <1>6, <1>7,
     DispatchExactlyOne, SpawnExactlyOne, TerminateExactlyOne, Zenon DEF Next, Thread

(* At first only the listener has an event. *)
LEMMA InitExactlyOne ==
  ASSUME Init
  PROVE  ExactlyOne /\ ResultsCalm
<1>1. TypeOK
  BY InitTypeOK
<1>2. /\ run_queues[0] = <<RunQueueEvent(Spawn, TcpHandle)>> /\ run_queues[1] = << >>
      /\ sq = << >> /\ cq = << >> /\ reads = << >> /\ intents = << >>
      /\ \A i \in 0 .. NHandlers - 1 : ~Live(i)
  BY DEF Init, UringInit, Live
<1>3. RunQueueEvent(Spawn, TcpHandle).handle = TcpHandle /\ TcpHandle \notin ConnHandles
  BY HandleKinds DEF RunQueueEvent
<1>4. ASSUME NEW h \in ConnHandles
      PROVE  UnderWay(h) = IF Resolves(h) THEN 1 ELSE 0
  <2>1. /\ \A k \in DOMAIN run_queues[0] : run_queues[0][k] \notin EventsFor(h)
        /\ \A k \in DOMAIN run_queues[1] : run_queues[1][k] \notin EventsFor(h)
    BY <1>2, <1>3 DEF EventsFor
  <2>2. Count(run_queues[0], EventsFor(h)) = 0 /\ Count(run_queues[1], EventsFor(h)) = 0
    <3>1. run_queues[0] \in Seq(RunQueueEvents) /\ run_queues[1] \in Seq(RunQueueEvents)
      BY <1>1 DEF TypeOK
    <3> QED
      BY <2>1, <3>1, CountType
  <2>3. /\ Count(sq, RequestsBy(h)) = 0 /\ Count(reads, RequestsBy(h)) = 0
        /\ Count(cq, RequestsBy(h)) = 0
    <3>1. sq \in Seq(Sqes) /\ reads \in Seq(Reads) /\ cq \in Seq(Cqes)
      BY <1>1 DEF TypeOK
    <3> DEFINE S == RequestsBy(h)
    <3>2. /\ \A k \in DOMAIN sq : sq[k] \notin S
          /\ \A k \in DOMAIN reads : reads[k] \notin S
          /\ \A k \in DOMAIN cq : cq[k] \notin S
      BY <1>2
    <3> HIDE DEF S
    <3>3. Count(sq, S) = 0
      BY <3>1, <3>2, CountType
    <3>4. Count(reads, S) = 0
      BY <3>1, <3>2, CountType
    <3>5. Count(cq, S) = 0
      BY <3>1, <3>2, CountType
    <3> QED
      BY <3>3, <3>4, <3>5 DEF S
  <2>4. Len(intents) = 0
    BY <1>2
  <2>5. ~Resolves(h)
    BY <1>2 DEF Resolves, ConnHandles
  <2> QED
    BY <2>2, <2>3, <2>4, <2>5 DEF UnderWay, InQueues, OfQueues, InRing
<1>5. ResultsCalm
  BY <1>2, <1>3 DEF ResultsCalm, Neither, NoneIn, LoudEvents
<1> QED
  BY <1>4, <1>5 DEF ExactlyOne

(* Without the errors that a machine answers with two intents, each live   *)
(* machine always has exactly one event, intent, request or completion     *)
(* under way, in any build: none is forgotten, none is served twice, and   *)
(* nothing of a machine that is gone is left for the next one at its place *)
(* (executor/mod.rs:97-186, conn_handler.rs:48-174).                       *)
THEOREM ExecOneContinuation ==
  ASSUME CalmErrnos
  PROVE  Spec => []OneContinuation
<1>1. Init => NothingLost /\ ResultsCalm /\ ExactlyOne
  BY InitExactlyOne DEF Init, NothingLost, ClosedTerminates, Live
<1>2. TypeOK /\ NothingLost /\ ResultsCalm /\ ExactlyOne /\ [Next]_vars
        => NothingLost' /\ ResultsCalm' /\ ExactlyOne'
  BY NextTypeOK, NextNothingLost, NextCalm, NextExactlyOne
<1>3. TypeOK /\ ExactlyOne => OneContinuation
  <2> SUFFICES ASSUME TypeOK, ExactlyOne, panic = "no",
                      NEW i \in 0 .. NHandlers - 1, Live(i)
               PROVE  Continuations(HandleOf(i)) = 1
    BY DEF OneContinuation
  <2>1. PICK h \in ConnHandles : h = HandleOf(i)
    BY HandleType
  <2>2. h.index = i /\ h.generation = conn_alloc.generation[i]
    BY <2>1 DEF HandleOf, ObjectHandle
  <2>3. Resolves(h)
    BY <2>2 DEF Resolves
  <2>4. Continuations(h) = UnderWay(h) /\ UnderWay(h) = 1
    BY <2>3, UnderWayContinues DEF ExactlyOne
  <2> QED
    BY <2>1, <2>4
<1> QED
  BY <1>1, <1>2, <1>3, ExecTypeOK, PTL DEF Spec

-----------------------------------------------------------------------------
(* The listener's accept. *)

ArmingIntents == {i \in TcpIntents \cup ConnIntents : i.kind = "SubmitMultishotAccept"}

AcceptSqes == {r \in Sqes : r.op = "accept"}

LastCqes == {r \in Cqes : r.user = TcpHandle /\ ~r.more}

LastEvents == {e \in RunQueueEvents : Rearms(e)}

(* The accepts that are asked for, submitted, armed, or have ended and not *)
(* been answered.                                                          *)
Armed ==
  Count(intents, ArmingIntents) + Count(sq, AcceptSqes) + accepts + Count(cq, LastCqes)
    + OfQueues(LastEvents)

(* An accept that fails is the last of its kind. *)
UnendedCqes == {r \in Cqes : r.user = TcpHandle /\ r.res < 0 /\ r.more}

UnendedEvents ==
  {e \in RunQueueEvents : e.handle = TcpHandle /\ e.reason.res < 0 /\ e.reason.more}

FailuresEnd == Neither(UnendedEvents, UnendedCqes)

ArmedOnce ==
  panic = "no" => Armed = IF tcp_listener = "Accepting" THEN 1 ELSE 0

(* The counts are numbers. *)
LEMMA ArmedType ==
  ASSUME TypeOK
  PROVE  /\ Count(intents, ArmingIntents) \in Nat /\ Count(sq, AcceptSqes) \in Nat
         /\ accepts \in Nat /\ Count(cq, LastCqes) \in Nat /\ OfQueues(LastEvents) \in Nat
         /\ Armed \in Nat
<1>1. /\ intents \in Seq(IntentsOf(current)) /\ sq \in Seq(Sqes) /\ cq \in Seq(Cqes)
      /\ run_queues[0] \in Seq(RunQueueEvents) /\ run_queues[1] \in Seq(RunQueueEvents)
      /\ accepts \in Nat
  <2>1. /\ intents \in Seq(IntentsOf(current)) /\ sq \in Seq(Sqes) /\ cq \in Seq(Cqes)
        /\ run_queues \in [{0, 1} -> Seq(RunQueueEvents)] /\ accepts \in Nat
    BY Zenon DEF TypeOK
  <2> QED
    BY <2>1
<1>2. /\ Count(intents, ArmingIntents) \in Nat /\ Count(sq, AcceptSqes) \in Nat
      /\ Count(cq, LastCqes) \in Nat
  BY <1>1, CountType
<1>3. Count(run_queues[0], LastEvents) \in Nat /\ Count(run_queues[1], LastEvents) \in Nat
  BY <1>1, CountType
<1>4. OfQueues(LastEvents) \in Nat
  BY <1>3 DEF OfQueues
<1> QED
  BY <1>1, <1>2, <1>4 DEF Armed

(* The same after a step. *)
LEMMA ArmedTypeNext ==
  ASSUME TypeOK'
  PROVE  /\ Count(intents', ArmingIntents) \in Nat /\ Count(sq', AcceptSqes) \in Nat
         /\ accepts' \in Nat /\ Count(cq', LastCqes) \in Nat /\ OfQueues(LastEvents)' \in Nat
         /\ Armed' \in Nat
<1>1. /\ intents' \in Seq(IntentsOf(current)') /\ sq' \in Seq(Sqes) /\ cq' \in Seq(Cqes)
      /\ run_queues'[0] \in Seq(RunQueueEvents) /\ run_queues'[1] \in Seq(RunQueueEvents)
      /\ accepts' \in Nat
  <2>1. /\ intents' \in Seq(IntentsOf(current)') /\ sq' \in Seq(Sqes) /\ cq' \in Seq(Cqes)
        /\ run_queues' \in [{0, 1} -> Seq(RunQueueEvents)] /\ accepts' \in Nat
    BY Zenon DEF TypeOK
  <2> QED
    BY <2>1
<1>2. /\ Count(intents', ArmingIntents) \in Nat /\ Count(sq', AcceptSqes) \in Nat
      /\ Count(cq', LastCqes) \in Nat
  BY <1>1, CountType
<1>3. Count(run_queues'[0], LastEvents) \in Nat /\ Count(run_queues'[1], LastEvents) \in Nat
  BY <1>1, CountType
<1>4. OfQueues(LastEvents)' \in Nat
  BY <1>3 DEF OfQueues
<1> QED
  BY <1>1, <1>2, <1>4 DEF Armed

(* They are those of the property. *)
LEMMA ArmedTokens ==
  ASSUME TypeOK
  PROVE  AcceptTokens = Armed
<1>1. /\ intents \in Seq(IntentsOf(current)) /\ sq \in Seq(Sqes) /\ cq \in Seq(Cqes)
      /\ run_queues[0] \in Seq(RunQueueEvents) /\ run_queues[1] \in Seq(RunQueueEvents)
  BY DEF TypeOK
<1>2. InSeq(intents, LAMBDA i : i.kind = "SubmitMultishotAccept") = Count(intents, ArmingIntents)
  <2>1. \A k \in DOMAIN intents : intents[k] \in TcpIntents \cup ConnIntents
    BY <1>1 DEF IntentsOf
  <2>2. {k \in DOMAIN intents : intents[k].kind = "SubmitMultishotAccept"}
          = Where(intents, ArmingIntents)
    BY <2>1 DEF Where, ArmingIntents
  <2> QED
    BY <2>2 DEF InSeq, Count
<1>3. InSeq(sq, LAMBDA e : e.op = "accept") = Count(sq, AcceptSqes)
  <2>1. \A k \in DOMAIN sq : sq[k] \in Sqes
    BY <1>1
  <2>2. {k \in DOMAIN sq : sq[k].op = "accept"} = Where(sq, AcceptSqes)
    BY <2>1 DEF Where, AcceptSqes
  <2> QED
    BY <2>2 DEF InSeq, Count
<1>4. InSeq(cq, LAMBDA e : e.user = TcpHandle /\ ~e.more) = Count(cq, LastCqes)
  <2>1. \A k \in DOMAIN cq : cq[k] \in Cqes
    BY <1>1
  <2>2. {k \in DOMAIN cq : cq[k].user = TcpHandle /\ ~cq[k].more} = Where(cq, LastCqes)
    BY <2>1 DEF Where, LastCqes
  <2> QED
    BY <2>2 DEF InSeq, Count
<1>5. ASSUME NEW s \in Seq(RunQueueEvents)
      PROVE  InSeq(s, Rearms) = Count(s, LastEvents)
  <2>1. \A k \in DOMAIN s : s[k] \in RunQueueEvents
    OBVIOUS
  <2>2. {k \in DOMAIN s : Rearms(s[k])} = Where(s, LastEvents)
    BY <2>1 DEF Where, LastEvents
  <2> QED
    BY <2>2 DEF InSeq, Count
<1>6. /\ InSeq(run_queues[0], Rearms) = Count(run_queues[0], LastEvents)
      /\ InSeq(run_queues[1], Rearms) = Count(run_queues[1], LastEvents)
  BY <1>1, <1>5
<1>7. Count(run_queues[0], LastEvents) \in Nat /\ Count(run_queues[1], LastEvents) \in Nat
  BY <1>1, CountType
<1> DEFINE n == Count(intents, ArmingIntents)
           a == Count(sq, AcceptSqes)
           l == Count(cq, LastCqes)
           p == Count(run_queues[0], LastEvents)
           q == Count(run_queues[1], LastEvents)
<1>8. n \in Nat /\ a \in Nat /\ accepts \in Nat /\ l \in Nat /\ p \in Nat /\ q \in Nat
  BY <1>7, ArmedType
<1>9. AcceptTokens = n + a + accepts + l + p + q /\ Armed = n + a + accepts + l + (p + q)
  BY <1>2, <1>3, <1>4, <1>6 DEF AcceptTokens, Armed, OfQueues
<1> HIDE DEF n, a, l, p, q
<1> QED
  BY <1>8, <1>9

(* A step that moves an accept on. *)
ArmedKept == Armed' = Armed /\ tcp_listener' = tcp_listener

(* The steps that only move the program counter, and those that do nothing. *)
LEMMA MovesArmed ==
  ASSUME \/ DrainDone \/ IntentsDone \/ SubmitShortcut \/ SubmitEnter
         \/ EnterReturns \/ ReapDone \/ UNCHANGED vars
  PROVE  ArmedKept /\ panic' = panic
<1>1. UNCHANGED <<run_queues, sq, cq, accepts, intents, panic, tcp_listener>>
  BY DEF DrainDone, IntentsDone, SubmitShortcut, SubmitEnter, EnterReturns, ReapDone,
         vars, contextVars, loopVars, machineVars, ringVars, kernelVars
<1> QED
  BY <1>1 DEF ArmedKept, Armed, OfQueues

(* What the kernel posts for a machine is nothing of the listener's. *)
LEMMA MachinePosts ==
  ASSUME TypeOK, NEW u \in ConnHandles, NEW res \in Int, cq' = Append(cq, Cqe(u, res, FALSE))
  PROVE  /\ Count(cq', LastCqes) = Count(cq, LastCqes)
         /\ NoneIn(cq, UnendedCqes) => NoneIn(cq', UnendedCqes)
<1> DEFINE r == Cqe(u, res, FALSE)
<1>1. r \in Cqes /\ r.user = u /\ r.more = FALSE /\ cq \in Seq(Cqes)
  BY DEF Cqe, Cqes, TypeOK
<1>2. r \notin UnendedCqes /\ r \notin LastCqes
  BY <1>1, HandleKinds DEF UnendedCqes, LastCqes
<1>3. cq' = Append(cq, r)
  OBVIOUS
<1> HIDE DEF r
<1>4. Count(Append(cq, r), LastCqes) = Count(cq, LastCqes) + (IF r \in LastCqes THEN 1 ELSE 0)
  BY <1>1, CountAppend
<1>5. Count(cq, LastCqes) \in Nat
  BY <1>1, CountType
<1>6. Count(Append(cq, r), LastCqes) = Count(cq, LastCqes)
  <2> DEFINE n == Count(cq, LastCqes)
             m == Count(Append(cq, r), LastCqes)
  <2>1. m = n + 0 /\ n \in Nat
    BY <1>2, <1>4, <1>5
  <2> HIDE DEF n, m
  <2>2. m = n
    BY <2>1
  <2> QED
    BY <2>2 DEF n, m
<1>7. NoneIn(cq, UnendedCqes) => NoneIn(Append(cq, r), UnendedCqes)
  BY <1>1, <1>2, NoneAppend
<1> QED
  BY <1>3, <1>6, <1>7

(* The kernel takes accepts, ends them, and never leaves one that failed.  *)
LEMMA KernelArmed ==
  ASSUME TypeOK, TypeOK', KernelStep
  PROVE  ArmedKept /\ panic' = panic /\ (FailuresEnd => FailuresEnd')
<1>1. UNCHANGED <<run_queues, intents, panic, tcp_listener>>
  BY DEF KernelStep, EnterIssues, KernelAccepts, KernelRefuses, KernelReads, KernelFails,
         KernelEnds, ProgramUnchanged, contextVars, loopVars, machineVars
<1> DEFINE a == Count(sq, AcceptSqes)
           l == Count(cq, LastCqes)
           b == Count(sq', AcceptSqes)
           m == Count(cq', LastCqes)
<1>2. /\ a \in Nat /\ l \in Nat /\ b \in Nat /\ m \in Nat
      /\ accepts \in Nat /\ accepts' \in Nat
  BY ArmedType, ArmedTypeNext
<1>3. ASSUME a + accepts + l = b + accepts' + m,
             NoneIn(cq, UnendedCqes) => NoneIn(cq', UnendedCqes)
      PROVE  ArmedKept /\ panic' = panic /\ (FailuresEnd => FailuresEnd')
  <2> DEFINE n == Count(intents, ArmingIntents)
             q == OfQueues(LastEvents)
  <2>1. /\ Armed = n + a + accepts + l + q /\ Armed' = n + b + accepts' + m + q
        /\ n \in Nat /\ q \in Nat
    BY <1>1, ArmedType DEF Armed, OfQueues
  <2>2. PICK u \in Nat, v \in Nat : u = a + accepts + l /\ v = b + accepts' + m
    BY <1>2
  <2>3. Armed = n + u + q /\ Armed' = n + v + q /\ u = v
    <3>1. Armed = n + (a + accepts + l) + q /\ Armed' = n + (b + accepts' + m) + q
      BY <1>2, <2>1
    <3> QED
      BY <1>3, <2>2, <3>1
  <2>4. Armed' = Armed
    BY <2>3
  <2> QED
    BY <1>1, <1>3, <2>4 DEF ArmedKept, FailuresEnd, Neither
<1>4. CASE EnterIssues
  <2> DEFINE e == Head(sq)
  <2>1. sq # << >> /\ sq' = Tail(sq) /\ e \in Sqes /\ sq \in Seq(Sqes)
    BY <1>4, PopType DEF EnterIssues, Issue, TypeOK
  <2>2. a = b + (IF e \in AcceptSqes THEN 1 ELSE 0)
    BY <2>1, CountTail
  <2>3. e \in AcceptSqes <=> e.op = "accept"
    BY <2>1 DEF AcceptSqes
  <2>4. CASE e.op = "accept"
    <3>1. accepts' = accepts + 1 /\ cq' = cq
      BY <1>4, <2>4 DEF EnterIssues, Issue, IssueAccept, IssueRecv, IssueClose
    <3> HIDE DEF a, b
    <3>2. a = b + 1
      BY <2>2, <2>3, <2>4
    <3>3. m = l
      BY <3>1
    <3> HIDE DEF m, l
    <3> QED
      BY <1>2, <1>3, <3>1, <3>2, <3>3
  <2>5. CASE e.op # "accept"
    <3>1. e.user \in ConnHandles
      BY <2>1, <2>5 DEF Sqes, AcceptMulti
    <3>2. /\ accepts' = accepts
          /\ cq' = cq \/ \E res \in {-EFAULT, -EBADF, 0} : cq' = Append(cq, Cqe(e.user, res, FALSE))
      <4>1. IssueRecv \/ IssueClose
        BY <1>4, <2>5 DEF EnterIssues, Issue, IssueAccept
      <4> QED
        BY <4>1 DEF IssueRecv, IssueClose, Post
    <3>3. \A res \in {-EFAULT, -EBADF, 0} : res \in Int
      BY DEF EFAULT, EBADF
    <3>4. PICK u \in ConnHandles : u = e.user
      BY <3>1
    <3>5. m = l /\ (NoneIn(cq, UnendedCqes) => NoneIn(cq', UnendedCqes))
      BY <3>2, <3>3, <3>4, MachinePosts
    <3> HIDE DEF a, b, m, l
    <3>6. a = b + 0
      BY <2>2, <2>3, <2>5
    <3> QED
      BY <1>2, <1>3, <3>2, <3>5, <3>6
  <2> QED
    BY <2>4, <2>5
<1>5. ASSUME NEW res \in AcceptResults, NEW more \in BOOLEAN,
             cq' = Append(cq, Cqe(TcpHandle, res, more)), sq' = sq,
             res < 0 => ~more, accepts > 0,
             accepts' = IF more THEN accepts ELSE accepts - 1
      PROVE  ArmedKept /\ panic' = panic /\ (FailuresEnd => FailuresEnd')
  <2> DEFINE r == Cqe(TcpHandle, res, more)
  <2>1. r \in Cqes /\ cq \in Seq(Cqes)
    BY DEF Cqe, Cqes, TypeOK
  <2>2. (r \in LastCqes <=> ~more) /\ r \notin UnendedCqes
    BY <1>5, <2>1 DEF Cqe, LastCqes, UnendedCqes
  <2>3. m = l + (IF r \in LastCqes THEN 1 ELSE 0)
    BY <1>5, <2>1, CountAppend
  <2>4. NoneIn(cq, UnendedCqes) => NoneIn(cq', UnendedCqes)
    BY <1>5, <2>1, <2>2, NoneAppend
  <2>5. a = b
    BY <1>5
  <2> HIDE DEF a, b, m, l, r
  <2>6. a + accepts + l = b + accepts' + m
    <3>1. CASE more
      <4>1. accepts' = accepts /\ m = l + 0
        BY <1>5, <2>2, <2>3, <3>1
      <4> QED
        BY <1>2, <2>5, <4>1
    <3>2. CASE ~more
      <4>1. accepts' = accepts - 1 /\ m = l + 1
        BY <1>5, <2>2, <2>3, <3>2
      <4> QED
        BY <1>2, <2>5, <4>1
    <3> QED
      BY <3>1, <3>2
  <2> QED
    BY <1>3, <2>4, <2>6
<1>6. CASE KernelAccepts
  <2>1. PICK c \in Conns : AcceptCompletes(c)
    BY <1>6 DEF KernelAccepts
  <2>2. PICK s \in Slots, more \in BOOLEAN :
          /\ cq' = Append(cq, Cqe(TcpHandle, s, more))
          /\ accepts' = IF more THEN accepts ELSE accepts - 1
    BY <2>1 DEF AcceptCompletes, Post
  <2>3. s \in AcceptResults /\ ~(s < 0)
    BY DEF Slots, AcceptResults
  <2> QED
    BY <1>5, <2>1, <2>2, <2>3 DEF AcceptCompletes
<1>7. CASE KernelRefuses
  <2>1. PICK c \in Conns : AcceptOverflows(c)
    BY <1>7 DEF KernelRefuses
  <2>2. -ENFILE \in AcceptResults
    BY DEF ENFILE, AcceptResults
  <2> QED
    BY <1>5, <2>1, <2>2 DEF AcceptOverflows, Post
<1>8. CASE KernelReads \/ KernelFails \/ \E c \in Conns : KernelEnds(c)
  <2>1. \E k \in DOMAIN reads : \E res \in Int : Completes(k, res)
    <3>1. \A n \in 1 .. BufSize : n \in Int
      OBVIOUS
    <3>2. \A errno \in RecvErrnos : -errno \in Int
      BY DEF Errnos
    <3> QED
      BY <1>8, <3>1, <3>2 DEF KernelReads, KernelFails, KernelEnds, ReadCompletes, ReadEnds,
                              ReadFails
  <2>2. PICK k \in DOMAIN reads : \E res \in Int : Completes(k, res)
    BY <2>1
  <2>3. PICK res \in Int : Completes(k, res)
    BY <2>2
  <2>4. /\ reads[k] \in Reads /\ cq' = Append(cq, Cqe(reads[k].user, res, FALSE))
        /\ UNCHANGED <<sq, accepts>>
    BY <2>3, CompletesType DEF Completes, Post
  <2>5. PICK u \in ConnHandles : u = reads[k].user
    BY <2>4 DEF Reads
  <2>6. m = l /\ (NoneIn(cq, UnendedCqes) => NoneIn(cq', UnendedCqes))
    BY <2>4, <2>5, MachinePosts
  <2>7. a = b
    BY <2>4
  <2> HIDE DEF a, b, m, l
  <2> QED
    BY <1>2, <1>3, <2>4, <2>6, <2>7
<1> QED
  BY <1>4, <1>6, <1>7, <1>8 DEF KernelStep

(* A completion becomes an event, and one that ends the accept stays so. *)
LEMMA ReapArmed ==
  ASSUME TypeOK, TypeOK', Reap, panic' = "no"
  PROVE  ArmedKept
<1> DEFINE r == Head(cq)
           e == RunQueueEvent(IoCompleted(r.res, r.more), r.user)
<1>1. /\ cq # << >> /\ Push(next_run_queue_idx, e) /\ cq' = Tail(cq)
      /\ UNCHANGED <<contextVars, current_run_queue, current, pc, machineVars, sq, kernelVars>>
  <2>1. panic = "no" /\ CanPush(next_run_queue_idx)
    BY DEF Reap, At, Running, Crash
  <2> QED
    BY <2>1, Zenon DEF Reap
<1>2. r \in Cqes /\ next_run_queue_idx \in {0, 1} /\ cq \in Seq(Cqes)
  BY <1>1, PopType DEF TypeOK, next_run_queue_idx
<1>3. e \in RunQueueEvents
  BY <1>2 DEF RunQueueEvent, RunQueueEvents, IoCompleted, Events, Cqes, AcceptResults
<1>4. e \in LastEvents <=> r \in LastCqes
  BY <1>2, <1>3 DEF LastEvents, LastCqes, Rearms, RunQueueEvent, IoCompleted
<1>5. UNCHANGED <<sq, intents, accepts, tcp_listener>>
  BY <1>1 DEF contextVars, machineVars, kernelVars
<1> HIDE DEF e, r
<1> DEFINE l == Count(cq, LastCqes)
           m == Count(cq', LastCqes)
           p == OfQueues(LastEvents)
           q == OfQueues(LastEvents)'
           d == IF r \in LastCqes THEN 1 ELSE 0
<1>6. q = p + d
  BY <1>1, <1>2, <1>3, <1>4, PushCounts
<1>7. l = m + d
  BY <1>1, <1>2, CountTail DEF r
<1>8. l \in Nat /\ m \in Nat /\ p \in Nat /\ q \in Nat /\ d \in Nat
  BY ArmedType, ArmedTypeNext
<1>9. l + p = m + q
  BY <1>6, <1>7, <1>8
<1> QED
  BY <1>5, <1>8, <1>9, ArmedType, ArmedTypeNext DEF Armed, ArmedKept

(* The first intent is taken. *)
LEMMA ArmingTail ==
  ASSUME TypeOK, intents # << >>, intents' = Tail(intents)
  PROVE  Count(intents, ArmingIntents)
           = Count(intents', ArmingIntents)
               + (IF Head(intents).kind = "SubmitMultishotAccept" THEN 1 ELSE 0)
<1>1. intents \in Seq(IntentsOf(current))
  BY DEF TypeOK
<1>2. Head(intents) \in TcpIntents \cup ConnIntents
  BY <1>1, PopType DEF IntentsOf
<1>3. Head(intents) \in ArmingIntents <=> Head(intents).kind = "SubmitMultishotAccept"
  BY <1>2 DEF ArmingIntents
<1>4. Count(intents, ArmingIntents)
        = Count(Tail(intents), ArmingIntents) + (IF Head(intents) \in ArmingIntents THEN 1 ELSE 0)
  BY <1>1, CountTail
<1> QED
  BY <1>3, <1>4

(* The intent to accept becomes the request to, and no other does. *)
LEMMA RequestArmed ==
  ASSUME TypeOK, TypeOK', CompleteAccept \/ CompleteRecv \/ CompleteClose, panic' = "no"
  PROVE  ArmedKept
<1>1. PICK r \in Sqes :
        EnqueueFor(r) /\ (r.op = "accept" <=> Head(intents).kind = "SubmitMultishotAccept")
  BY RequestIntent
<1>2. panic = "no" /\ intents # << >>
  BY RequestIntent
<1>3. /\ sq' = Append(sq, r) /\ IntentDone
      /\ UNCHANGED <<io_bufs, run_queues, conn_alloc, conn_data>>
  <2>1. CanEnqueue
    BY <1>1, <1>2 DEF EnqueueFor, Crash
  <2> QED
    BY <1>1, <2>1, Zenon DEF EnqueueFor, Enqueue
<1>4. intents' = Tail(intents) /\ UNCHANGED <<cq, accepts, tcp_listener>>
  BY <1>3 DEF IntentDone, kernelVars
<1> DEFINE a == Count(sq, AcceptSqes)
           b == Count(sq', AcceptSqes)
           n == Count(intents, ArmingIntents)
           m == Count(intents', ArmingIntents)
           d == IF r.op = "accept" THEN 1 ELSE 0
<1>5. b = a + d
  <2>1. r \in AcceptSqes <=> r.op = "accept"
    BY DEF AcceptSqes
  <2>2. sq \in Seq(Sqes)
    BY DEF TypeOK
  <2>3. Count(Append(sq, r), AcceptSqes) = a + (IF r \in AcceptSqes THEN 1 ELSE 0)
    BY <2>2, CountAppend
  <2> QED
    BY <1>3, <2>1, <2>3
<1>6. n = m + d
  BY <1>1, <1>2, <1>4, ArmingTail
<1>7. a \in Nat /\ b \in Nat /\ n \in Nat /\ m \in Nat /\ d \in Nat
  BY ArmedType, ArmedTypeNext
<1>8. n + a = m + b
  BY <1>5, <1>6, <1>7
<1>9. OfQueues(LastEvents)' = OfQueues(LastEvents)
  BY <1>3 DEF OfQueues
<1> QED
  BY <1>4, <1>7, <1>8, <1>9, ArmedType, ArmedTypeNext DEF Armed, ArmedKept

(* No other intent has to do with the accept, nor has what it queues. *)
LEMMA OtherArmed ==
  ASSUME TypeOK, TypeOK', intents # << >>, IntentDone, sq' = sq,
         Head(intents).kind # "SubmitMultishotAccept",
         OfQueues(LastEvents)' = OfQueues(LastEvents)
  PROVE  ArmedKept
<1>1. intents' = Tail(intents) /\ UNCHANGED <<cq, accepts, tcp_listener>>
  BY DEF IntentDone, kernelVars
<1>2. Count(intents, ArmingIntents) = Count(intents', ArmingIntents)
  <2>1. Count(intents, ArmingIntents) = Count(intents', ArmingIntents) + 0
    BY <1>1, ArmingTail
  <2> QED
    BY <2>1, ArmedType, ArmedTypeNext
<1> QED
  BY <1>1, <1>2 DEF Armed, ArmedKept

(* The event of a machine that starts. *)
LEMMA SpawnEventArmed ==
  ASSUME TypeOK, TypeOK', NEW q \in {0, 1}, NEW h \in ConnHandles,
         Push(q, RunQueueEvent(Spawn, h))
  PROVE  OfQueues(LastEvents)' = OfQueues(LastEvents)
<1> DEFINE e == RunQueueEvent(Spawn, h)
<1>1. e \in RunQueueEvents
  BY DEF RunQueueEvent, RunQueueEvents, Spawn, Events
<1>2. e \notin LastEvents
  BY DEF LastEvents, Rearms, RunQueueEvent, Spawn
<1> HIDE DEF e
<1>3. OfQueues(LastEvents)' = OfQueues(LastEvents) + (IF e \in LastEvents THEN 1 ELSE 0)
  BY <1>1, PushCounts DEF e
<1>4. OfQueues(LastEvents)' = OfQueues(LastEvents) + 0
  BY <1>2, <1>3
<1> QED
  BY <1>4, ArmedType

(* The intents that are no request. *)
LEMMA IntentArmed ==
  ASSUME TypeOK, TypeOK', CompleteRetry \/ CompleteSpawn \/ CompleteTerminate, panic' = "no"
  PROVE  ArmedKept
<1>1. /\ panic = "no" /\ intents # << >>
      /\ Head(intents).kind # "SubmitMultishotAccept"
  BY DEF CompleteRetry, CompleteSpawn, CompleteTerminate, AtIntent, Running
<1>2. CASE CompleteRetry
  <2>1. CanPush(next_run_queue_idx)
    BY <1>1, <1>2 DEF CompleteRetry, Crash
  <2>2. /\ Push(next_run_queue_idx, RunQueueEvent(Spawn, current)) /\ IntentDone
        /\ UNCHANGED <<io_bufs, conn_alloc, conn_data, sq>>
    BY <1>2, <2>1, Zenon DEF CompleteRetry
  <2>3. current \in ConnHandles /\ next_run_queue_idx \in {0, 1}
    <3>1. Head(intents).kind = "Retry"
      BY <1>2 DEF CompleteRetry, AtIntent
    <3>2. current \in ConnHandles
      BY <1>1, <3>1, IntentKinds
    <3> QED
      BY <3>2 DEF TypeOK, next_run_queue_idx
  <2>4. PICK h \in ConnHandles : h = current
    BY <2>3
  <2>5. PICK q \in {0, 1} : q = next_run_queue_idx
    BY <2>3
  <2>6. Push(q, RunQueueEvent(Spawn, h))
    BY <2>2, <2>4, <2>5
  <2> QED
    BY <1>1, <2>2, <2>6, SpawnEventArmed, OtherArmed
<1>3. CASE CompleteSpawn
  <2> DEFINE id == AllocId(conn_alloc)
  <2>1. /\ CanAlloc(conn_alloc) /\ ~(conn_data[id.index] # None)
        /\ CanPush(current_run_queue)
    BY <1>1, <1>3, Zenon DEF CompleteSpawn, Crash
  <2>2. /\ Push(current_run_queue, RunQueueEvent(Spawn, ObjectHandle(CONN_HANDLER, id)))
        /\ IntentDone /\ UNCHANGED <<io_bufs, sq>>
    BY <1>3, <2>1, Zenon DEF CompleteSpawn
  <2>3. id \in [index : 0 .. NHandlers - 1, generation : 0 .. GenSpan - 1]
    BY <2>1, AllocType DEF TypeOK
  <2>4. PICK h \in ConnHandles : h = ObjectHandle(CONN_HANDLER, id)
    BY <2>3 DEF ObjectHandle, ConnHandles
  <2>5. PICK q \in {0, 1} : q = current_run_queue
    BY DEF TypeOK
  <2>6. Push(q, RunQueueEvent(Spawn, h))
    BY <2>2, <2>4, <2>5
  <2> QED
    BY <1>1, <2>2, <2>6, SpawnEventArmed, OtherArmed
<1>4. CASE CompleteTerminate
  <2>1. IntentDone /\ UNCHANGED <<io_bufs, run_queues, sq>>
    <3>1. ~FreePanics(conn_alloc, current)
      BY <1>1, <1>4 DEF CompleteTerminate, Crash
    <3> QED
      BY <1>4, <3>1, Zenon DEF CompleteTerminate
  <2>2. OfQueues(LastEvents)' = OfQueues(LastEvents)
    BY <2>1 DEF OfQueues
  <2> QED
    BY <1>1, <2>1, <2>2, OtherArmed
<1> QED
  BY <1>2, <1>3, <1>4

(* An event is exchanged for the intents of its machine. *)
LEMMA DispatchArmed ==
  ASSUME TypeOK, TypeOK', Pop
  PROVE  Armed' + (IF NextEvent \in LastEvents THEN 1 ELSE 0)
           = Armed + Count(intents', ArmingIntents)
<1>1. intents = << >> /\ UNCHANGED <<ringVars, kernelVars>>
  BY PopEventType
<1>2. UNCHANGED <<sq, cq, accepts>>
  BY <1>1 DEF ringVars, kernelVars
<1>3. Count(intents, ArmingIntents) = 0
  <2>1. intents \in Seq(IntentsOf(current)) /\ \A k \in DOMAIN intents : FALSE
    BY <1>1 DEF TypeOK
  <2> QED
    BY <2>1, CountType
<1> DEFINE p == OfQueues(LastEvents)
           q == OfQueues(LastEvents)'
           d == IF NextEvent \in LastEvents THEN 1 ELSE 0
<1>4. p = q + d
  BY PopCounts
<1>5. p \in Nat /\ q \in Nat /\ d \in Nat
  BY ArmedType, ArmedTypeNext
<1> QED
  BY <1>2, <1>3, <1>4, <1>5, ArmedType, ArmedTypeNext DEF Armed

(* Short lists of intents. *)
LEMMA CountShort ==
  \A T : \A x, y \in T : \A S :
    /\ Count(<< >>, S) = 0
    /\ Count(<<x>>, S) = IF x \in S THEN 1 ELSE 0
    /\ Count(<<x>> \o <<y>>, S) = (IF x \in S THEN 1 ELSE 0) + (IF y \in S THEN 1 ELSE 0)
<1> SUFFICES ASSUME NEW T, NEW x \in T, NEW y \in T, NEW S
             PROVE  /\ Count(<< >>, S) = 0
                    /\ Count(<<x>>, S) = IF x \in S THEN 1 ELSE 0
                    /\ Count(<<x>> \o <<y>>, S)
                         = (IF x \in S THEN 1 ELSE 0) + (IF y \in S THEN 1 ELSE 0)
  OBVIOUS
<1>1. << >> \in Seq(T) /\ <<x>> \in Seq(T) /\ <<x>> = Append(<< >>, x)
  OBVIOUS
<1>2. Count(<< >>, S) = 0
  <2>1. \A k \in DOMAIN << >> : FALSE
    OBVIOUS
  <2> QED
    BY <1>1, <2>1, CountType
<1>3. Count(<<x>>, S) = IF x \in S THEN 1 ELSE 0
  <2>1. Count(Append(<< >>, x), S) = Count(<< >>, S) + (IF x \in S THEN 1 ELSE 0)
    <3> DEFINE s == << >>
    <3>1. s \in Seq(T)
      OBVIOUS
    <3> HIDE DEF s
    <3>2. Count(Append(s, x), S) = Count(s, S) + (IF x \in S THEN 1 ELSE 0)
      BY ONLY x \in T, <3>1, CountAppend
    <3> QED
      BY <3>2 DEF s
  <2> QED
    BY <1>1, <1>2, <2>1
<1>4. <<x>> \o <<y>> = Append(<<x>>, y)
  OBVIOUS
<1>5. Count(Append(<<x>>, y), S) = Count(<<x>>, S) + (IF y \in S THEN 1 ELSE 0)
  <2> DEFINE s == <<x>>
  <2>1. s \in Seq(T)
    BY <1>1
  <2> HIDE DEF s
  <2>2. Count(Append(s, y), S) = Count(s, S) + (IF y \in S THEN 1 ELSE 0)
    BY ONLY y \in T, <2>1, CountAppend
  <2> QED
    BY <2>2 DEF s
<1> QED
  BY <1>2, <1>3, <1>4, <1>5

(* The events and the intents of a connection are none of the listener's. *)
LEMMA DispatchConnArmed ==
  ASSUME TypeOK, TypeOK', DispatchConn \/ DispatchMissing
  PROVE  ArmedKept
<1>1. Pop /\ NextEvent.handle.pool = CONN_HANDLER /\ tcp_listener' = tcp_listener
  BY DEF DispatchConn, DispatchMissing
<1>2. NextEvent.handle # TcpHandle /\ NextEvent.handle \in ConnHandles
  BY <1>1, PopEventType, EventKinds, HandleKinds
<1>3. NextEvent \notin LastEvents
  BY <1>2 DEF LastEvents, Rearms
<1>4. intents' \in Seq(ConnIntents)
  <2>1. intents' \in Seq(IntentsOf(current)')
    BY DEF TypeOK
  <2>2. current' \in ConnHandles /\ current' # TcpHandle
    BY <1>1, <1>2, PopEventType
  <2> QED
    BY <2>1, <2>2 DEF IntentsOf
<1>5. Count(intents', ArmingIntents) = 0
  <2>1. \A i \in ConnIntents : i \notin ArmingIntents
    BY DEF ConnIntents, ArmingIntents, Retry, Terminate, CloseFixed, Intent
  <2>2. \A k \in DOMAIN intents' : intents'[k] \notin ArmingIntents
    BY <1>4, <2>1
  <2> QED
    BY <1>4, <2>2, CountType
<1>6. Armed' + 0 = Armed + 0
  BY <1>1, <1>3, <1>5, DispatchArmed
<1> QED
  BY <1>1, <1>6, ArmedType, ArmedTypeNext DEF ArmedKept

(* The listener asks for the accept once, and again when it has ended. *)
LEMMA DispatchTcpArmed ==
  ASSUME TypeOK, TypeOK', FailuresEnd, ArmedOnce, DispatchTcp, panic' = "no"
  PROVE  Armed' = IF tcp_listener' = "Accepting" THEN 1 ELSE 0
<1> DEFINE e == NextEvent.reason
           m == Count(intents', ArmingIntents)
<1>1. /\ Pop /\ NextEvent.handle.pool = TCP_SERVER /\ TcpProcessEvent(e) /\ panic = "no"
  BY DEF DispatchTcp, Pop, Running
<1>2. NextEvent.handle = TcpHandle /\ e \in Events(AcceptResults) /\ NextEvent \in RunQueueEvents
  BY <1>1, PopEventType, EventKinds
<1>3. NextEvent \in LastEvents <=> (e.kind = "IoCompleted" /\ ~e.more)
  BY <1>2 DEF LastEvents, Rearms
<1>4. Armed = IF tcp_listener = "Accepting" THEN 1 ELSE 0
  BY <1>1 DEF ArmedOnce
<1>5. Armed' + (IF NextEvent \in LastEvents THEN 1 ELSE 0) = Armed + m
  BY <1>1, DispatchArmed
<1>6. Armed \in Nat /\ Armed' \in Nat
  BY ArmedType, ArmedTypeNext
<1>7. PICK x \in Nat, y \in Nat, k \in Nat : x = Armed /\ y = Armed' /\ k = m
  BY <1>6, ArmedTypeNext
<1>8. /\ NextEvent \notin LastEvents => y = x + k
      /\ NextEvent \in LastEvents => y + 1 = x + k
  <2>1. y + (IF NextEvent \in LastEvents THEN 1 ELSE 0) = x + k
    BY <1>5, <1>7
  <2> QED
    BY <1>7, <2>1
<1>13. /\ intents' = << >> => k = 0
       /\ intents' = <<SubmitMultishotAccept>> => k = 1
       /\ \A i : i \notin ArmingIntents =>
            /\ intents' = <<i>> => k = 0
            /\ intents' = <<i>> \o <<SubmitMultishotAccept>> => k = 1
  <2>1. SubmitMultishotAccept \in ArmingIntents
    BY DEF ArmingIntents, TcpIntents, SubmitMultishotAccept, Intent
  <2>2. /\ Count(<< >>, ArmingIntents) = 0
        /\ Count(<<SubmitMultishotAccept>>, ArmingIntents) = 1
    BY <2>1, CountShort
  <2>3. ASSUME NEW i, i \notin ArmingIntents
        PROVE  /\ Count(<<i>>, ArmingIntents) = 0
               /\ Count(<<i>> \o <<SubmitMultishotAccept>>, ArmingIntents) = 1
    <3> DEFINE T == {i, SubmitMultishotAccept}
               s == SubmitMultishotAccept
    <3>1. i \in T /\ s \in T
      OBVIOUS
    <3> HIDE DEF T
    <3>2. /\ Count(<<i>>, ArmingIntents) = IF i \in ArmingIntents THEN 1 ELSE 0
          /\ Count(<<i>> \o <<s>>, ArmingIntents)
               = (IF i \in ArmingIntents THEN 1 ELSE 0) + (IF s \in ArmingIntents THEN 1 ELSE 0)
      BY <3>1, CountShort
    <3> QED
      BY <2>1, <2>3, <3>2
  <2> QED
    BY <1>7, <2>2, <2>3
<1>9. CASE TcpExpects(e) /\ OnListen
  <2>1. Armed = 0 /\ NextEvent \notin LastEvents
    BY <1>3, <1>4, <1>9 DEF TcpExpects, OnListen
  <2>2. CASE tcp_listener' = "Accepting" /\ intents' = <<SubmitMultishotAccept>>
    <3>1. k = 1
      BY <1>13, <2>2
    <3> QED
      BY <1>7, <1>8, <2>1, <2>2, <3>1
  <2>3. CASE tcp_listener' = "Error" /\ intents' = << >>
    <3>1. k = 0
      BY <1>13, <2>3
    <3> QED
      BY <1>7, <1>8, <2>1, <2>3, <3>1
  <2> QED
    BY <1>9, <2>2, <2>3 DEF OnListen
<1>10. CASE TcpExpects(e) /\ OnAccepted(e.res, e.more)
  <2>1. /\ tcp_listener = "Accepting" /\ tcp_listener' = "Accepting" /\ e.kind = "IoCompleted"
        /\ intents' = <<SpawnConnHandler(e.res)>>
                        \o (IF e.more THEN << >> ELSE <<SubmitMultishotAccept>>)
    BY <1>10 DEF TcpExpects, OnAccepted
  <2>2. SpawnConnHandler(e.res) \notin ArmingIntents
    BY DEF ArmingIntents, SpawnConnHandler, Intent
  <2>3. e.more \in BOOLEAN /\ Armed = 1
    BY <1>2, <1>4, <2>1 DEF Events
  <2>4. CASE e.more
    <3>1. intents' = <<SpawnConnHandler(e.res)>>
      BY <2>1, <2>4
    <3>2. k = 0
      BY <1>13, <2>2, <3>1
    <3>3. NextEvent \notin LastEvents
      BY <1>3, <2>4
    <3> QED
      BY <1>7, <1>8, <2>1, <2>3, <3>2, <3>3
  <2>5. CASE ~e.more
    <3>1. intents' = <<SpawnConnHandler(e.res)>> \o <<SubmitMultishotAccept>>
      BY <2>1, <2>5
    <3>2. k = 1
      BY <1>13, <2>2, <3>1
    <3>3. NextEvent \in LastEvents
      BY <1>3, <2>1, <2>5
    <3> QED
      BY <1>7, <1>8, <2>1, <2>3, <3>2, <3>3
  <2> QED
    BY <2>4, <2>5
<1>11. CASE TcpExpects(e) /\ OnAcceptErr(e.res)
  <2>1. /\ tcp_listener = "Accepting" /\ tcp_listener' = "Error" /\ e.kind = "IoCompleted"
        /\ e.res < 0 /\ intents' = << >>
    BY <1>11 DEF TcpExpects, OnAcceptErr
  <2>2. NextEvent \notin UnendedEvents
    BY <1>1, PopNeither DEF FailuresEnd
  <2>3. ~e.more
    BY <1>2, <2>1, <2>2 DEF UnendedEvents
  <2>4. NextEvent \in LastEvents /\ Armed = 1
    BY <1>3, <1>4, <2>1, <2>3
  <2>5. k = 0
    BY <1>13, <2>1
  <2> QED
    BY <1>7, <1>8, <2>1, <2>4, <2>5
<1>12. CASE ~TcpExpects(e) /\ OnTcpUnexpected(e)
  <2>1. tcp_listener = "Error" /\ tcp_listener' = "Error" /\ intents' = << >>
    BY <1>12 DEF OnTcpUnexpected
  <2>2. k = 0 /\ x = 0
    BY <1>4, <1>7, <1>13, <2>1
  <2>3. NextEvent \notin LastEvents /\ y = 0
    <3>1. CASE NextEvent \in LastEvents
      <4>1. y + 1 = 0
        BY <1>8, <2>2, <3>1
      <4>2. \A z \in Nat : z + 1 # 0
        OBVIOUS
      <4>3. y \in Nat
        OBVIOUS
      <4> QED
        BY <4>1, <4>2, <4>3, Zenon
    <3>2. CASE NextEvent \notin LastEvents
      <4>1. y = 0
        BY <1>8, <2>2, <3>2
      <4> QED
        BY <3>2, <4>1
    <3> QED
      BY <3>1, <3>2
  <2> QED
    BY <1>7, <2>1, <2>3
<1> QED
  BY <1>1, <1>9, <1>10, <1>11, <1>12 DEF TcpProcessEvent

(* Every step. *)
LEMMA NextArmed ==
  ASSUME TypeOK, TypeOK', FailuresEnd, ArmedOnce, [Next]_vars
  PROVE  FailuresEnd' /\ ArmedOnce'
<1>1. FailuresEnd'
  <2>1. \A h : RunQueueEvent(Spawn, h) \notin UnendedEvents
    BY DEF RunQueueEvent, Spawn, UnendedEvents
  <2>2. \A r \in Cqes : r \notin UnendedCqes =>
          RunQueueEvent(IoCompleted(r.res, r.more), r.user) \notin UnendedEvents
    BY DEF RunQueueEvent, IoCompleted, UnendedEvents, UnendedCqes
  <2>3. KernelStep => FailuresEnd'
    BY KernelArmed
  <2> QED
    BY <2>1, <2>2, <2>3, NextNeither DEF FailuresEnd
<1> SUFFICES ASSUME panic' = "no"
             PROVE  Armed' = IF tcp_listener' = "Accepting" THEN 1 ELSE 0
  BY <1>1 DEF ArmedOnce
<1>2. ASSUME ArmedKept, panic = "no"
      PROVE  Armed' = IF tcp_listener' = "Accepting" THEN 1 ELSE 0
  BY <1>2 DEF ArmedKept, ArmedOnce
<1>3. CASE \/ DrainDone \/ IntentsDone \/ SubmitShortcut \/ SubmitEnter
           \/ EnterReturns \/ ReapDone \/ UNCHANGED vars
  BY <1>2, <1>3, MovesArmed
<1>4. CASE KernelStep
  BY <1>2, <1>4, KernelArmed
<1>5. CASE Reap
  <2>1. panic = "no"
    BY <1>5 DEF Reap, At, Running
  <2> QED
    BY <1>2, <1>5, <2>1, ReapArmed
<1>6. CASE CompleteAccept \/ CompleteRecv \/ CompleteClose
  BY <1>2, <1>6, RequestIntent, RequestArmed
<1>7. CASE CompleteRetry \/ CompleteSpawn \/ CompleteTerminate
  <2>1. panic = "no"
    BY <1>7 DEF CompleteRetry, CompleteSpawn, CompleteTerminate, AtIntent, Running
  <2> QED
    BY <1>2, <1>7, <2>1, IntentArmed
<1>8. CASE DispatchConn \/ DispatchMissing
  <2>1. panic = "no"
    BY <1>8 DEF DispatchConn, DispatchMissing, Pop, Running
  <2> QED
    BY <1>2, <1>8, <2>1, DispatchConnArmed
<1>9. CASE DispatchTcp
  BY <1>9, DispatchTcpArmed
<1>10. CASE EnterError
  BY <1>10 DEF EnterError, Crash
<1> QED
  BY <1>3, <1>4, <1>5, <1>6, <1>7, <1>8, <1>9, <1>10, Zenon DEF Next, Thread, KernelStep

(* At first nothing is armed. *)
LEMMA InitArmed ==
  ASSUME Init
  PROVE  FailuresEnd /\ ArmedOnce
<1>1. /\ run_queues[0] = <<RunQueueEvent(Spawn, TcpHandle)>> /\ run_queues[1] = << >>
      /\ sq = << >> /\ cq = << >> /\ intents = << >> /\ accepts = 0 /\ tcp_listener = "Init"
  BY DEF Init, UringInit
<1> DEFINE e == RunQueueEvent(Spawn, TcpHandle)
<1>2. e \notin LastEvents /\ e \notin UnendedEvents
  BY DEF LastEvents, UnendedEvents, Rearms, RunQueueEvent, Spawn
<1>3. FailuresEnd
  BY <1>1, <1>2 DEF FailuresEnd, Neither, NoneIn
<1> HIDE DEF e
<1>4. /\ Count(intents, ArmingIntents) = 0 /\ Count(sq, AcceptSqes) = 0
      /\ Count(cq, LastCqes) = 0 /\ Count(run_queues[1], LastEvents) = 0
  BY <1>1, CountShort
<1>5. Count(run_queues[0], LastEvents) = 0
  <2>1. run_queues[0] = <<e>>
    BY <1>1 DEF e
  <2> DEFINE T == {e}
  <2>2. e \in T
    OBVIOUS
  <2> HIDE DEF T
  <2>3. Count(<<e>>, LastEvents) = IF e \in LastEvents THEN 1 ELSE 0
    BY <2>2, CountShort
  <2> QED
    BY <1>2, <2>1, <2>3
<1>6. Armed = 0
  BY <1>1, <1>4, <1>5 DEF Armed, OfQueues
<1> QED
  BY <1>1, <1>3, <1>6 DEF ArmedOnce

(* While the listener accepts, one multishot accept is asked for, armed or *)
(* on its way back, and none when it does not: the server neither goes     *)
(* deaf nor takes a connection twice (tcp_server.rs:41-67), whatever the   *)
(* order in which the kernel completes and ends accepts.                   *)
THEOREM ExecListenerArmed == Spec => []ListenerArmed
<1>1. Init => FailuresEnd /\ ArmedOnce
  BY InitArmed
<1>2. TypeOK /\ TypeOK' /\ FailuresEnd /\ ArmedOnce /\ [Next]_vars => FailuresEnd' /\ ArmedOnce'
  BY NextArmed
<1>3. TypeOK /\ ArmedOnce => ListenerArmed
  BY ArmedTokens DEF ArmedOnce, ListenerArmed
<1> QED
  BY <1>1, <1>2, <1>3, ExecTypeOK, PTL DEF Spec

-----------------------------------------------------------------------------
(* No connection is forgotten in its file slot.  A completion of the       *)
(* accept is not lost on the way because the one that ends the multishot   *)
(* accept is the last: the listener arms it again, or gives up, when no    *)
(* other is behind.                                                        *)

(* The way of a completion: the completion queue, the next run queue, the  *)
(* current one.                                                            *)
EventOf(r) == RunQueueEvent(IoCompleted(r.res, r.more), r.user)

Posted == [k \in DOMAIN cq |-> EventOf(cq[k])]

ThisQueue == run_queues[current_run_queue]

NextQueue == run_queues[next_run_queue_idx]

(* In a sequence, nothing of B is behind something of A. *)
Sorted(s, A, B) == \A j, k \in DOMAIN s : j < k /\ s[j] \in A => s[k] \notin B

(* Nothing of B is on its way behind something of A. *)
InOrder(A, B) ==
  /\ Sorted(ThisQueue, A, B) /\ Sorted(NextQueue, A, B) /\ Sorted(Posted, A, B)
  /\ NoneIn(ThisQueue, A) \/ (NoneIn(NextQueue, B) /\ NoneIn(Posted, B))
  /\ NoneIn(NextQueue, A) \/ NoneIn(Posted, B)

Nowhere(A) == NoneIn(ThisQueue, A) /\ NoneIn(NextQueue, A) /\ NoneIn(Posted, A)

(* While the executor waits for completions, the queue it drained is empty. *)
QueueDrained == pc \in {"submit", "enter", "reap"} => ThisQueue = << >>

(* A completion becomes an event of its user. *)
LEMMA EventOfType ==
  ASSUME NEW r \in Cqes
  PROVE  /\ EventOf(r) \in RunQueueEvents /\ ~IsSpawn(EventOf(r))
         /\ EventOf(r).handle = r.user
         /\ EventOf(r).reason = IoCompleted(r.res, r.more)
         /\ EventOf(r).reason.res = r.res /\ EventOf(r).reason.more = r.more
         /\ EventOf(r).reason.kind = "IoCompleted"
  BY DEF EventOf, RunQueueEvent, RunQueueEvents, IoCompleted, Events, Cqes, AcceptResults, IsSpawn

(* The three parts of the way. *)
LEMMA WayTypes ==
  TypeOK => /\ ThisQueue \in Seq(RunQueueEvents) /\ NextQueue \in Seq(RunQueueEvents)
            /\ Posted \in Seq(RunQueueEvents) /\ DOMAIN Posted = DOMAIN cq
            /\ current_run_queue \in {0, 1} /\ next_run_queue_idx \in {0, 1}
            /\ next_run_queue_idx # current_run_queue
<1> SUFFICES ASSUME TypeOK
             PROVE  /\ ThisQueue \in Seq(RunQueueEvents) /\ NextQueue \in Seq(RunQueueEvents)
                    /\ Posted \in Seq(RunQueueEvents) /\ DOMAIN Posted = DOMAIN cq
                    /\ current_run_queue \in {0, 1} /\ next_run_queue_idx \in {0, 1}
                    /\ next_run_queue_idx # current_run_queue
  OBVIOUS
<1>1. /\ current_run_queue \in {0, 1} /\ cq \in Seq(Cqes)
      /\ run_queues \in [{0, 1} -> Seq(RunQueueEvents)]
  BY Zenon DEF TypeOK
<1>2. next_run_queue_idx \in {0, 1} /\ next_run_queue_idx # current_run_queue
  BY <1>1 DEF next_run_queue_idx
<1>3. \A k \in DOMAIN cq : EventOf(cq[k]) \in RunQueueEvents
  BY <1>1, EventOfType
<1>4. Posted \in Seq(RunQueueEvents) /\ DOMAIN Posted = DOMAIN cq
  <2>1. Len(cq) \in Nat /\ DOMAIN cq = 1 .. Len(cq)
    BY <1>1
  <2> QED
    BY <1>3, <2>1 DEF Posted
<1> QED
  BY <1>1, <1>2, <1>4 DEF ThisQueue, NextQueue

(* A completion that is posted, and one that is reaped. *)
LEMMA EventsOfType ==
  ASSUME NEW s \in Seq(Cqes), NEW t, t = [k \in DOMAIN s |-> EventOf(s[k])]
  PROVE  /\ t \in Seq(RunQueueEvents) /\ Len(t) = Len(s)
         /\ \A k \in 1 .. Len(s) : t[k] = EventOf(s[k])
<1>1. Len(s) \in Nat /\ DOMAIN s = 1 .. Len(s)
  OBVIOUS
<1>2. \A k \in DOMAIN s : EventOf(s[k]) \in RunQueueEvents
  BY EventOfType
<1> HIDE DEF EventOf
<1>3. t \in Seq(RunQueueEvents)
  BY <1>1, <1>2
<1>4. DOMAIN t = 1 .. Len(s) /\ \A k \in 1 .. Len(s) : t[k] = EventOf(s[k])
  BY <1>1
<1>5. Len(t) = Len(s)
  BY <1>1, <1>3, <1>4
<1> QED
  BY <1>3, <1>4, <1>5

LEMMA PostedAppend ==
  ASSUME TypeOK, NEW r \in Cqes, cq' = Append(cq, r)
  PROVE  Posted' = Append(Posted, EventOf(r))
<1> DEFINE e == EventOf(r)
           s == Append(Posted, e)
<1>1. cq \in Seq(Cqes) /\ cq' \in Seq(Cqes)
  BY PushType DEF TypeOK
<1>2. /\ Posted \in Seq(RunQueueEvents) /\ Len(Posted) = Len(cq)
      /\ \A k \in 1 .. Len(cq) : Posted[k] = EventOf(cq[k])
  BY <1>1, EventsOfType DEF Posted
<1>3. /\ Posted' \in Seq(RunQueueEvents) /\ Len(Posted') = Len(cq')
      /\ \A k \in 1 .. Len(cq') : Posted'[k] = EventOf(cq'[k])
  BY <1>1, EventsOfType DEF Posted
<1>4. e \in RunQueueEvents
  BY EventOfType
<1> HIDE DEF e
<1>5. /\ Len(cq') = Len(cq) + 1 /\ Len(cq) \in Nat
      /\ \A k \in 1 .. Len(cq) + 1 : cq'[k] = IF k = Len(cq) + 1 THEN r ELSE cq[k]
  BY <1>1
<1>6. /\ s \in Seq(RunQueueEvents) /\ Len(s) = Len(cq) + 1
      /\ \A k \in 1 .. Len(cq) + 1 : s[k] = IF k = Len(cq) + 1 THEN e ELSE Posted[k]
  BY <1>2, <1>4
<1> HIDE DEF s
<1>7. \A k \in 1 .. Len(Posted') : Posted'[k] = s[k]
  <2> SUFFICES ASSUME NEW k \in 1 .. Len(cq) + 1 PROVE Posted'[k] = s[k]
    BY <1>3, <1>5
  <2>1. CASE k = Len(cq) + 1
    BY <1>3, <1>5, <1>6, <2>1 DEF e
  <2>2. CASE k # Len(cq) + 1
    <3>1. k \in 1 .. Len(cq)
      BY <1>5, <2>2
    <3> QED
      BY <1>2, <1>3, <1>5, <1>6, <2>2, <3>1
  <2> QED
    BY <2>1, <2>2
<1>8. Posted' = s
  BY <1>3, <1>5, <1>6, <1>7, SeqEqual
<1> QED
  BY <1>8 DEF s, e

LEMMA PostedTail ==
  ASSUME TypeOK, cq # << >>, cq' = Tail(cq)
  PROVE  /\ Posted # << >> /\ Head(Posted) = EventOf(Head(cq))
         /\ Posted' = Tail(Posted)
<1> DEFINE s == Tail(Posted)
<1>1. cq \in Seq(Cqes) /\ cq' \in Seq(Cqes)
  BY PopType DEF TypeOK
<1>2. /\ Posted \in Seq(RunQueueEvents) /\ Len(Posted) = Len(cq)
      /\ \A k \in 1 .. Len(cq) : Posted[k] = EventOf(cq[k])
  BY <1>1, EventsOfType DEF Posted
<1>3. /\ Posted' \in Seq(RunQueueEvents) /\ Len(Posted') = Len(cq')
      /\ \A k \in 1 .. Len(cq') : Posted'[k] = EventOf(cq'[k])
  BY <1>1, EventsOfType DEF Posted
<1>4. /\ Len(cq') = Len(cq) - 1 /\ Len(cq) \in Nat \ {0} /\ Head(cq) = cq[1]
      /\ \A k \in 1 .. Len(cq) - 1 : cq'[k] = cq[k + 1]
  BY <1>1
<1>5. Posted # << >> /\ Head(Posted) = Posted[1]
  BY <1>2, <1>4
<1>6. /\ s \in Seq(RunQueueEvents) /\ Len(s) = Len(cq) - 1
      /\ \A k \in 1 .. Len(cq) - 1 : s[k] = Posted[k + 1]
  BY <1>2, <1>4
<1>7. Head(Posted) = EventOf(Head(cq))
  BY <1>2, <1>4, <1>5
<1> HIDE DEF s
<1>8. \A k \in 1 .. Len(Posted') : Posted'[k] = s[k]
  <2> SUFFICES ASSUME NEW k \in 1 .. Len(cq) - 1 PROVE Posted'[k] = s[k]
    BY <1>3, <1>4
  <2>1. k + 1 \in 1 .. Len(cq)
    BY <1>4
  <2> QED
    BY <1>2, <1>3, <1>4, <1>6, <2>1
<1>9. Posted' = s
  <2>1. Len(Posted') = Len(s)
    BY <1>3, <1>4, <1>6
  <2> QED
    BY <1>3, <1>6, <1>8, <2>1, SeqEqual, Zenon
<1> QED
  BY <1>5, <1>7, <1>9 DEF s

LEMMA TailShorter == \A T : \A s \in Seq(T) : s # << >> => Tail(s) # s
<1> SUFFICES ASSUME NEW T, NEW s \in Seq(T), s # << >> PROVE Tail(s) # s
  OBVIOUS
<1>1. Len(Tail(s)) = Len(s) - 1 /\ Len(s) \in Nat
  OBVIOUS
<1>2. \A n \in Nat : n - 1 # n
  BY ONLY SMT
<1>3. Len(s) - 1 # Len(s)
  BY <1>1, <1>2, Zenon
<1> QED
  BY <1>1, <1>3

(* Order in what is left of a sequence, and in what is added to.           *)
LEMMA SortedTail ==
  \A T : \A s \in Seq(T) : \A A, B : s # << >> /\ Sorted(s, A, B) =>
    Sorted(Tail(s), A, B) /\ (Head(s) \in A => NoneIn(Tail(s), B))
<1> SUFFICES ASSUME NEW T, NEW s \in Seq(T), NEW A, NEW B, s # << >>, Sorted(s, A, B)
             PROVE  Sorted(Tail(s), A, B) /\ (Head(s) \in A => NoneIn(Tail(s), B))
  OBVIOUS
<1>1. /\ 1 \in DOMAIN s /\ Head(s) = s[1] /\ DOMAIN Tail(s) \subseteq Nat \ {0}
      /\ \A k \in DOMAIN Tail(s) : k + 1 \in DOMAIN s /\ Tail(s)[k] = s[k + 1]
  OBVIOUS
<1>2. \A k \in Nat \ {0} : 1 < k + 1
  OBVIOUS
<1>3. \A j, k \in Nat : j < k => j + 1 < k + 1
  OBVIOUS
<1>4. ASSUME Head(s) \in A PROVE NoneIn(Tail(s), B)
  BY <1>1, <1>2, <1>4 DEF Sorted, NoneIn
<1>5. Sorted(Tail(s), A, B)
  <2> SUFFICES ASSUME NEW j \in DOMAIN Tail(s), NEW k \in DOMAIN Tail(s), j < k, Tail(s)[j] \in A
               PROVE  Tail(s)[k] \notin B
    BY DEF Sorted
  <2>1. j + 1 < k + 1
    BY <1>1, <1>3
  <2> QED
    BY <1>1, <2>1 DEF Sorted
<1> QED
  BY <1>4, <1>5

LEMMA SortedAppend ==
  \A T : \A s \in Seq(T) : \A e \in T : \A A, B :
    Sorted(s, A, B) /\ (e \in B => NoneIn(s, A)) => Sorted(Append(s, e), A, B)
<1> SUFFICES ASSUME NEW T, NEW s \in Seq(T), NEW e \in T, NEW A, NEW B,
                    Sorted(s, A, B), e \in B => NoneIn(s, A)
             PROVE  Sorted(Append(s, e), A, B)
  OBVIOUS
<1> SUFFICES ASSUME NEW j \in DOMAIN Append(s, e), NEW k \in DOMAIN Append(s, e), j < k,
                    Append(s, e)[j] \in A
             PROVE  Append(s, e)[k] \notin B
  BY DEF Sorted
<1>1. /\ j \in DOMAIN s /\ Append(s, e)[j] = s[j]
      /\ (k \in DOMAIN s /\ Append(s, e)[k] = s[k]) \/ Append(s, e)[k] = e
  OBVIOUS
<1> QED
  BY <1>1 DEF Sorted, NoneIn

(* What is in a queue is in what is left of it, or its head.               *)
LEMMA NoneOfTail ==
  \A T : \A s \in Seq(T) : \A S : s # << >> /\ NoneIn(Tail(s), S) /\ Head(s) \notin S => NoneIn(s, S)
<1> SUFFICES ASSUME NEW T, NEW s \in Seq(T), NEW S, s # << >>, NoneIn(Tail(s), S), Head(s) \notin S,
                    NEW k \in DOMAIN s
             PROVE  s[k] \notin S
  BY DEF NoneIn
<1>1. CASE k = 1
  BY <1>1
<1>2. CASE k # 1
  <2>1. k - 1 \in DOMAIN Tail(s) /\ Tail(s)[k - 1] = s[k]
    BY <1>2
  <2> QED
    BY <2>1 DEF NoneIn
<1> QED
  BY <1>1, <1>2

(* What is in a queue is in what is left of it and the head.               *)
LEMMA NoneAppended ==
  \A T : \A s \in Seq(T) : \A e \in T : \A S : NoneIn(Append(s, e), S) => NoneIn(s, S) /\ e \notin S
<1> SUFFICES ASSUME NEW T, NEW s \in Seq(T), NEW e \in T, NEW S, NoneIn(Append(s, e), S)
             PROVE  NoneIn(s, S) /\ e \notin S
  OBVIOUS
<1>1. /\ \A k \in DOMAIN s : k \in DOMAIN Append(s, e) /\ Append(s, e)[k] = s[k]
      /\ Len(s) + 1 \in DOMAIN Append(s, e) /\ Append(s, e)[Len(s) + 1] = e
  OBVIOUS
<1> QED
  BY <1>1 DEF NoneIn

-----------------------------------------------------------------------------
(* What a step does to the way. *)
WayKept == ThisQueue' = ThisQueue /\ NextQueue' = NextQueue /\ Posted' = Posted

PopsEvent ==
  /\ Pop /\ ThisQueue # << >> /\ NextEvent = Head(ThisQueue) /\ ThisQueue' = Tail(ThisQueue)
  /\ NextQueue' = NextQueue /\ Posted' = Posted

PushesSpawn ==
  \E e \in RunQueueEvents :
    /\ IsSpawn(e) /\ Posted' = Posted
    /\ \/ ThisQueue' = Append(ThisQueue, e) /\ NextQueue' = NextQueue
       \/ ThisQueue' = ThisQueue /\ NextQueue' = Append(NextQueue, e)

ReapsEvent ==
  /\ Posted # << >> /\ ThisQueue = << >> /\ ThisQueue' = << >>
  /\ NextQueue' = Append(NextQueue, Head(Posted)) /\ Posted' = Tail(Posted)

SwapsQueues ==
  /\ ThisQueue = << >> /\ ThisQueue' = NextQueue /\ NextQueue' = << >>
  /\ Posted = << >> /\ Posted' = << >>

PostsEvent(r) ==
  /\ ThisQueue' = ThisQueue /\ NextQueue' = NextQueue
  /\ cq' = Append(cq, r) /\ Posted' = Append(Posted, EventOf(r))

(* The queues when one of them is pushed to. *)
LEMMA PushWay ==
  ASSUME TypeOK, NEW q \in {0, 1}, NEW e, Push(q, e), current_run_queue' = current_run_queue
  PROVE  IF q = current_run_queue
         THEN ThisQueue' = Append(ThisQueue, e) /\ NextQueue' = NextQueue
         ELSE ThisQueue' = ThisQueue /\ NextQueue' = Append(NextQueue, e)
<1>1. /\ run_queues \in [{0, 1} -> Seq(RunQueueEvents)]
      /\ run_queues' = [run_queues EXCEPT ![q] = Append(run_queues[q], e)]
      /\ current_run_queue \in {0, 1} /\ next_run_queue_idx \in {0, 1}
      /\ next_run_queue_idx # current_run_queue
  BY WayTypes DEF TypeOK, Push
<1>2. \A p \in {0, 1} :
        run_queues'[p] = IF p = q THEN Append(run_queues[q], e) ELSE run_queues[p]
  BY <1>1
<1>3. next_run_queue_idx' = next_run_queue_idx
  BY DEF next_run_queue_idx
<1>4. q = current_run_queue \/ q = next_run_queue_idx
  BY <1>1
<1> HIDE DEF next_run_queue_idx
<1> QED
  BY <1>1, <1>2, <1>3, <1>4 DEF ThisQueue, NextQueue

(* The kernel's steps leave the queues alone and post one completion at    *)
(* most.                                                                   *)
LEMMA KernelWay ==
  ASSUME TypeOK, KernelStep
  PROVE  WayKept \/ \E r \in Cqes : PostsEvent(r)
<1>1. UNCHANGED <<run_queues, current_run_queue>>
  BY DEF KernelStep, EnterIssues, KernelAccepts, KernelRefuses, KernelReads, KernelFails,
         KernelEnds, ProgramUnchanged, loopVars
<1>2. ThisQueue' = ThisQueue /\ NextQueue' = NextQueue
  BY <1>1 DEF ThisQueue, NextQueue, next_run_queue_idx
<1>3. ASSUME cq' = cq PROVE Posted' = Posted
  BY <1>3 DEF Posted
<1>4. cq' = cq \/ \E r \in Cqes : cq' = Append(cq, r)
  <2>1. CASE EnterIssues
    <3> DEFINE e == Head(sq)
    <3>1. e \in Sqes /\ (IssueAccept \/ IssueRecv \/ IssueClose)
      BY <2>1, PopType DEF TypeOK, EnterIssues, Issue
    <3>2. e.op # "accept" => e.user \in ConnHandles
      BY <3>1 DEF Sqes, AcceptMulti
    <3>3. \A u \in ConnHandles : \A res \in Int : Cqe(u, res, FALSE) \in Cqes
      BY DEF Cqe, Cqes
    <3>4. -EFAULT \in Int /\ -EBADF \in Int /\ 0 \in Int
      BY DEF EFAULT, EBADF
    <3>5. CASE IssueAccept
      BY <3>5 DEF IssueAccept
    <3>6. CASE IssueRecv \/ IssueClose
      <4>1. e.user \in ConnHandles
        BY <3>2, <3>6 DEF IssueRecv, IssueClose
      <4> HIDE DEF e
      <4>2. \/ cq' = cq
            \/ cq' = Append(cq, Cqe(e.user, -EFAULT, FALSE))
            \/ cq' = Append(cq, Cqe(e.user, -EBADF, FALSE))
            \/ cq' = Append(cq, Cqe(e.user, 0, FALSE))
        BY <3>6 DEF IssueRecv, IssueClose, Post, e
      <4> QED
        BY <3>3, <3>4, <4>1, <4>2
    <3> QED
      BY <3>1, <3>5, <3>6
  <2>2. CASE KernelAccepts \/ KernelRefuses
    <3>1. \E res \in AcceptResults : \E more \in BOOLEAN : cq' = Append(cq, Cqe(TcpHandle, res, more))
      <4>1. -ENFILE \in AcceptResults
        BY DEF ENFILE, AcceptResults
      <4>2. Slots \subseteq AcceptResults
        BY DEF Slots, AcceptResults
      <4> QED
        BY <2>2, <4>1, <4>2 DEF KernelAccepts, KernelRefuses, AcceptCompletes, AcceptOverflows, Post
    <3>2. \A res \in AcceptResults : \A more \in BOOLEAN : Cqe(TcpHandle, res, more) \in Cqes
      BY DEF Cqe, Cqes
    <3> QED
      BY <3>1, <3>2
  <2>3. CASE KernelReads \/ KernelFails \/ \E c \in Conns : KernelEnds(c)
    <3>1. \E k \in DOMAIN reads : \E res \in Int : Completes(k, res)
      <4>1. \A n \in 1 .. BufSize : n \in Int
        OBVIOUS
      <4>2. \A errno \in RecvErrnos : -errno \in Int
        BY DEF Errnos
      <4> QED
        BY <2>3, <4>1, <4>2 DEF KernelReads, KernelFails, KernelEnds, ReadCompletes, ReadEnds,
                                ReadFails
    <3>2. PICK k \in DOMAIN reads : \E res \in Int : Completes(k, res)
      BY <3>1
    <3>3. PICK res \in Int : Completes(k, res)
      BY <3>2
    <3>4. reads[k] \in Reads /\ cq' = Append(cq, Cqe(reads[k].user, res, FALSE))
      BY <3>3, CompletesType DEF Completes, Post
    <3>5. Cqe(reads[k].user, res, FALSE) \in Cqes
      BY <3>4 DEF Cqe, Cqes, Reads
    <3> QED
      BY <3>4, <3>5
  <2> QED
    BY <2>1, <2>2, <2>3 DEF KernelStep
<1>5. ASSUME NEW r \in Cqes, cq' = Append(cq, r) PROVE PostsEvent(r)
  BY <1>2, <1>5, PostedAppend DEF PostsEvent
<1> QED
  BY <1>2, <1>3, <1>4, <1>5 DEF WayKept

LEMMA PopWay ==
  ASSUME TypeOK, Pop
  PROVE  PopsEvent
<1> DEFINE c == current_run_queue
<1>1. /\ c \in {0, 1} /\ run_queues \in [{0, 1} -> Seq(RunQueueEvents)]
      /\ next_run_queue_idx \in {0, 1} /\ next_run_queue_idx # c
  BY WayTypes DEF TypeOK
<1>2. /\ run_queues[c] # << >> /\ run_queues' = [run_queues EXCEPT ![c] = Tail(run_queues[c])]
      /\ c' = c /\ cq' = cq
  BY Zenon DEF Pop, ringVars
<1>3. next_run_queue_idx' = next_run_queue_idx /\ Posted' = Posted
  BY <1>2 DEF next_run_queue_idx, Posted
<1>4. ThisQueue' = Tail(ThisQueue) /\ NextQueue' = NextQueue
  BY <1>1, <1>2, <1>3 DEF ThisQueue, NextQueue
<1> QED
  BY <1>2, <1>3, <1>4 DEF PopsEvent, ThisQueue, NextEvent

(* Every step. *)
LEMMA NextWay ==
  ASSUME TypeOK, QueueDrained, [Next]_vars
  PROVE  \/ WayKept \/ PopsEvent \/ PushesSpawn \/ ReapsEvent \/ SwapsQueues
         \/ KernelStep /\ \E r \in Cqes : PostsEvent(r)
<1>1. ASSUME UNCHANGED <<run_queues, current_run_queue, cq>> PROVE WayKept
  BY <1>1 DEF WayKept, ThisQueue, NextQueue, Posted, next_run_queue_idx
<1>2. ASSUME NEW site, Crash(site) PROVE WayKept
  BY <1>1, <1>2 DEF Crash, loopVars, ringVars
<1>3. ASSUME cq' = cq PROVE Posted' = Posted
  BY <1>3 DEF Posted
<1>4. CASE UNCHANGED vars
  BY <1>1, <1>4 DEF vars, loopVars, ringVars
<1>5. CASE DrainDone \/ IntentsDone \/ SubmitShortcut \/ SubmitEnter \/ EnterReturns
  BY <1>1, <1>5 DEF DrainDone, IntentsDone, SubmitShortcut, SubmitEnter, EnterReturns, ringVars
<1>6. CASE KernelStep
  BY <1>6, KernelWay
<1>7. CASE DispatchTcp \/ DispatchConn \/ DispatchMissing
  BY <1>7, PopWay DEF DispatchTcp, DispatchConn, DispatchMissing
<1>8. CASE Reap
  <2> DEFINE e == RunQueueEvent(IoCompleted(Head(cq).res, Head(cq).more), Head(cq).user)
  <2>1. CASE CanPush(next_run_queue_idx)
    <3>1. /\ cq # << >> /\ Push(next_run_queue_idx, e) /\ cq' = Tail(cq)
          /\ current_run_queue' = current_run_queue /\ pc = "reap" /\ pc' = pc
      BY <1>8, <2>1, Zenon DEF Reap, At
    <3>2. e = EventOf(Head(cq))
      BY DEF EventOf
    <3> HIDE DEF e
    <3>3. ThisQueue' = ThisQueue /\ NextQueue' = Append(NextQueue, e)
      BY <3>1, WayTypes, PushWay
    <3>4. Posted # << >> /\ Head(Posted) = e /\ Posted' = Tail(Posted)
      BY <3>1, <3>2, PostedTail
    <3>5. ThisQueue = << >>
      BY <3>1 DEF QueueDrained
    <3> QED
      BY <3>3, <3>4, <3>5 DEF ReapsEvent
  <2>2. CASE ~CanPush(next_run_queue_idx)
    BY <1>2, <1>8, <2>2 DEF Reap
  <2> QED
    BY <2>1, <2>2
<1>9. CASE ReapDone
  <2>1. /\ cq = << >> /\ cq' = cq /\ run_queues' = run_queues /\ pc = "reap"
        /\ current_run_queue' = 1 - current_run_queue
    BY <1>9 DEF ReapDone, At, ringVars
  <2>2. ThisQueue = << >> /\ current_run_queue \in {0, 1}
    BY <2>1, WayTypes DEF QueueDrained
  <2>3. next_run_queue_idx' = current_run_queue
    BY <2>1, <2>2 DEF next_run_queue_idx
  <2>4. Posted = << >>
    <3>1. Posted \in Seq(RunQueueEvents) /\ DOMAIN Posted = {}
      BY <2>1, WayTypes
    <3>2. \A T : \A s \in Seq(T) : DOMAIN s = {} => s = << >>
      OBVIOUS
    <3> QED
      BY <3>1, <3>2
  <2> QED
    BY <1>3, <2>1, <2>2, <2>3, <2>4 DEF SwapsQueues, ThisQueue, NextQueue, next_run_queue_idx
<1>10. CASE CompleteAccept \/ CompleteRecv \/ CompleteClose
  <2>1. ASSUME NEW sqe, EnqueueFor(sqe) PROVE WayKept
    <3>1. CASE CanEnqueue
      <4>1. IntentDone /\ UNCHANGED <<io_bufs, run_queues, conn_alloc, conn_data>>
        BY <2>1, <3>1, Zenon DEF EnqueueFor
      <4> QED
        BY <1>1, <4>1 DEF IntentDone
    <3>2. CASE ~CanEnqueue
      BY <1>2, <2>1, <3>2 DEF EnqueueFor
    <3> QED
      BY <3>1, <3>2
  <2> QED
    BY <1>2, <1>10, <2>1, Zenon DEF CompleteAccept, CompleteRecv, CompleteClose
<1>11. CASE CompleteRetry
  <2> DEFINE e == RunQueueEvent(Spawn, current)
  <2>1. CASE CanPush(next_run_queue_idx)
    <3>1. Push(next_run_queue_idx, e) /\ IntentDone
      BY <1>11, <2>1, Zenon DEF CompleteRetry
    <3>2. current \in ConnHandles
      BY <1>11, IntentKinds DEF CompleteRetry, AtIntent
    <3>3. e \in RunQueueEvents /\ IsSpawn(e)
      BY <3>2 DEF RunQueueEvent, RunQueueEvents, Spawn, Events, IsSpawn
    <3>4. cq' = cq /\ current_run_queue' = current_run_queue
      BY <3>1 DEF IntentDone
    <3> HIDE DEF e
    <3> QED
      BY <1>3, <3>1, <3>3, <3>4, WayTypes, PushWay DEF PushesSpawn
  <2>2. CASE ~CanPush(next_run_queue_idx)
    BY <1>2, <1>11, <2>2 DEF CompleteRetry
  <2> QED
    BY <2>1, <2>2
<1>12. CASE CompleteSpawn
  <2> DEFINE id == AllocId(conn_alloc)
             e == RunQueueEvent(Spawn, ObjectHandle(CONN_HANDLER, id))
  <2>1. \/ \E site : Crash(site)
        \/ CanAlloc(conn_alloc) /\ Push(current_run_queue, e) /\ IntentDone
    BY <1>12, Zenon DEF CompleteSpawn
  <2>2. CASE CanAlloc(conn_alloc) /\ Push(current_run_queue, e) /\ IntentDone
    <3>1. id \in [index : 0 .. NHandlers - 1, generation : 0 .. GenSpan - 1]
      BY <2>2, AllocType DEF TypeOK
    <3>2. ObjectHandle(CONN_HANDLER, id) \in ConnHandles
      BY <3>1 DEF ObjectHandle, ConnHandles
    <3>3. e \in RunQueueEvents /\ IsSpawn(e)
      BY <3>2 DEF RunQueueEvent, RunQueueEvents, Spawn, Events, IsSpawn
    <3>4. cq' = cq /\ current_run_queue' = current_run_queue
      BY <2>2 DEF IntentDone
    <3> HIDE DEF e
    <3> QED
      BY <1>3, <2>2, <3>3, <3>4, WayTypes, PushWay DEF PushesSpawn
  <2> QED
    BY <1>2, <2>1, <2>2
<1>13. CASE CompleteTerminate
  <2>1. CASE FreePanics(conn_alloc, current)
    BY <1>2, <1>13, <2>1 DEF CompleteTerminate
  <2>2. CASE ~FreePanics(conn_alloc, current)
    <3>1. IntentDone /\ UNCHANGED <<io_bufs, run_queues, sq>>
      BY <1>13, <2>2, Zenon DEF CompleteTerminate
    <3> QED
      BY <1>1, <3>1 DEF IntentDone
  <2> QED
    BY <2>1, <2>2
<1>14. CASE EnterError
  BY <1>2, <1>14 DEF EnterError
<1> QED
  BY <1>4, <1>5, <1>6, <1>7, <1>8, <1>9, <1>10, <1>11, <1>12, <1>13, <1>14, Zenon
     DEF Next, Thread, KernelStep

(* A queue that is drained stays so until the queues are switched.         *)
LEMMA NextDrained ==
  ASSUME TypeOK, QueueDrained, [Next]_vars
  PROVE  QueueDrained'
<1>1. ASSUME pc' \notin {"submit", "enter", "reap"} PROVE QueueDrained'
  BY <1>1 DEF QueueDrained
<1>2. ASSUME UNCHANGED <<pc, run_queues, current_run_queue>> PROVE QueueDrained'
  BY <1>2 DEF QueueDrained, ThisQueue
<1>3. CASE UNCHANGED vars
  BY <1>2, <1>3 DEF vars, loopVars
<1>4. ASSUME NEW site, Crash(site) PROVE QueueDrained'
  BY <1>2, <1>4 DEF Crash, loopVars
<1>5. CASE DispatchTcp \/ DispatchConn \/ DispatchMissing \/ IntentsDone \/ ReapDone
  BY <1>1, <1>5 DEF DispatchTcp, DispatchConn, DispatchMissing, IntentsDone, ReapDone, Pop
<1>6. CASE DrainDone
  BY <1>6 DEF DrainDone, QueueDrained, ThisQueue
<1>7. CASE SubmitShortcut \/ SubmitEnter \/ EnterReturns
  BY <1>7 DEF SubmitShortcut, SubmitEnter, EnterReturns, At, QueueDrained, ThisQueue
<1>8. CASE EnterError
  BY <1>4, <1>8 DEF EnterError
<1>9. CASE KernelStep
  BY <1>2, <1>9 DEF KernelStep, EnterIssues, KernelAccepts, KernelRefuses, KernelReads,
                    KernelFails, KernelEnds, ProgramUnchanged, loopVars
<1>10. CASE CompleteRetry \/ CompleteAccept \/ CompleteSpawn \/ CompleteRecv
            \/ CompleteClose \/ CompleteTerminate
  <2>1. pc = "intents"
    BY <1>10 DEF CompleteRetry, CompleteAccept, CompleteSpawn, CompleteRecv, CompleteClose,
                 CompleteTerminate, AtIntent
  <2>2. ASSUME IntentDone PROVE QueueDrained'
    BY <1>1, <2>1, <2>2 DEF IntentDone
  <2>3. ASSUME NEW sqe, EnqueueFor(sqe) PROVE QueueDrained'
    BY <1>4, <2>2, <2>3, Zenon DEF EnqueueFor
  <2>4. CASE CompleteAccept \/ CompleteRecv \/ CompleteClose
    BY <1>4, <2>3, <2>4, Zenon DEF CompleteAccept, CompleteRecv, CompleteClose
  <2>5. CASE CompleteRetry \/ CompleteSpawn \/ CompleteTerminate
    BY <1>4, <2>2, <2>5, Zenon DEF CompleteRetry, CompleteSpawn, CompleteTerminate
  <2> QED
    BY <1>10, <2>4, <2>5
<1>11. CASE Reap
  <2>1. pc = "reap" /\ (Push(next_run_queue_idx, EventOf(Head(cq))) \/ \E site : Crash(site))
    BY <1>11, Zenon DEF Reap, At, EventOf
  <2>2. ASSUME Push(next_run_queue_idx, EventOf(Head(cq))), current_run_queue' = current_run_queue
        PROVE  QueueDrained'
    <3>1. ThisQueue' = ThisQueue
      BY <2>2, WayTypes, PushWay
    <3>2. ThisQueue = << >>
      BY <2>1 DEF QueueDrained
    <3> QED
      BY <3>1, <3>2 DEF QueueDrained
  <2>3. \/ \E site : Crash(site)
        \/ Push(next_run_queue_idx, EventOf(Head(cq))) /\ current_run_queue' = current_run_queue
    BY <1>11, Zenon DEF Reap, EventOf
  <2> QED
    BY <1>4, <2>2, <2>3
<1> QED
  BY <1>3, <1>5, <1>6, <1>7, <1>8, <1>9, <1>10, <1>11, Zenon DEF Next, Thread, KernelStep

(* Order on the way is kept, unless the kernel posts something of B behind *)
(* something of A; and nothing of B is left behind something of A that is  *)
(* popped.                                                                 *)
LEMMA NextInOrder ==
  ASSUME TypeOK, QueueDrained, [Next]_vars, NEW A, NEW B, InOrder(A, B),
         \A e : IsSpawn(e) => e \notin A /\ e \notin B,
         \A r \in Cqes : KernelStep /\ PostsEvent(r) /\ EventOf(r) \in B => Nowhere(A)
  PROVE  /\ InOrder(A, B)'
         /\ PopsEvent /\ NextEvent \in A => Nowhere(B)'
<1> DEFINE t == ThisQueue
           n == NextQueue
           p == Posted
<1>1. t \in Seq(RunQueueEvents) /\ n \in Seq(RunQueueEvents) /\ p \in Seq(RunQueueEvents)
  BY WayTypes
<1>2. /\ Sorted(t, A, B) /\ Sorted(n, A, B) /\ Sorted(p, A, B)
      /\ NoneIn(t, A) \/ (NoneIn(n, B) /\ NoneIn(p, B))
      /\ NoneIn(n, A) \/ NoneIn(p, B)
  BY DEF InOrder
<1>3. \A S : Sorted(<< >>, S, B) /\ NoneIn(<< >>, S)
  BY DEF Sorted, NoneIn
<1>i. /\ InOrder(A, B)' <=>
           /\ Sorted(t', A, B) /\ Sorted(n', A, B) /\ Sorted(p', A, B)
           /\ NoneIn(t', A) \/ (NoneIn(n', B) /\ NoneIn(p', B))
           /\ NoneIn(n', A) \/ NoneIn(p', B)
      /\ \A S : Nowhere(S)' <=> NoneIn(t', S) /\ NoneIn(n', S) /\ NoneIn(p', S)
  BY DEF InOrder, Nowhere
<1>4. CASE WayKept \/ PopsEvent
  <2>1. CASE WayKept
    <3>1. t' = t /\ n' = n /\ p' = p
      BY <2>1 DEF WayKept
    <3>2. ~PopsEvent
      BY <1>1, <3>1, TailShorter DEF PopsEvent
    <3> HIDE DEF t, n, p
    <3> QED
      BY <1>2, <1>i, <3>1, <3>2
  <2>2. CASE PopsEvent
    <3>1. t # << >> /\ NextEvent = Head(t) /\ t' = Tail(t) /\ n' = n /\ p' = p
      BY <2>2 DEF PopsEvent
    <3> HIDE DEF t, n, p
    <3>2. Sorted(Tail(t), A, B) /\ (Head(t) \in A => NoneIn(Tail(t), B))
      BY <1>1, <1>2, <3>1, SortedTail
    <3>3. NoneIn(t, A) => NoneIn(Tail(t), A) /\ Head(t) \notin A
      BY <1>1, <3>1, NoneTail
    <3> QED
      BY <1>2, <1>i, <3>1, <3>2, <3>3
  <2> QED
    BY <1>4, <2>1, <2>2
<1>x. ASSUME t' = Tail(t), t # << >> PROVE Len(t') < Len(t)
  BY <1>1, <1>x
<1>5. CASE PushesSpawn
  <2>1. PICK e \in RunQueueEvents :
          /\ IsSpawn(e) /\ p' = p
          /\ \/ t' = Append(t, e) /\ n' = n
             \/ t' = t /\ n' = Append(n, e)
    BY <1>5 DEF PushesSpawn
  <2>2. e \notin A /\ e \notin B
    BY <2>1
  <2>3. ~(PopsEvent)
    <3>1. Len(t') >= Len(t) /\ Len(t) \in Nat /\ Len(t') \in Nat
      BY <1>1, <2>1
    <3> QED
      BY <1>x, <3>1 DEF PopsEvent
  <2> HIDE DEF t, n, p
  <2>4. \A s \in Seq(RunQueueEvents) :
          /\ Sorted(s, A, B) => Sorted(Append(s, e), A, B)
          /\ NoneIn(s, A) => NoneIn(Append(s, e), A)
          /\ NoneIn(s, B) => NoneIn(Append(s, e), B)
    BY <2>2, SortedAppend, NoneAppend
  <2> QED
    BY <1>1, <1>2, <1>i, <2>1, <2>3, <2>4
<1>6. CASE ReapsEvent
  <2>1. /\ p # << >> /\ t = << >> /\ t' = << >>
        /\ n' = Append(n, Head(p)) /\ p' = Tail(p)
    BY <1>6 DEF ReapsEvent
  <2>2. ~PopsEvent
    BY <2>1 DEF PopsEvent
  <2> HIDE DEF t, n, p
  <2>3. Head(p) \in RunQueueEvents
    BY <1>1, <2>1, PopType
  <2>4. /\ Sorted(Tail(p), A, B) /\ (Head(p) \in A => NoneIn(Tail(p), B))
        /\ NoneIn(p, B) => NoneIn(Tail(p), B) /\ Head(p) \notin B
    BY <1>1, <1>2, <2>1, SortedTail, NoneTail
  <2>5. NoneIn(n, A) \/ (NoneIn(p, B) /\ Head(p) \notin B)
    BY <1>2, <2>4
  <2>6. Sorted(Append(n, Head(p)), A, B)
    BY <1>1, <1>2, <2>3, <2>5, SortedAppend
  <2>7. NoneIn(Append(n, Head(p)), A) \/ NoneIn(Tail(p), B)
    BY <1>1, <1>2, <2>3, <2>4, NoneAppend
  <2> QED
    BY <1>3, <1>i, <2>1, <2>2, <2>4, <2>6, <2>7
<1>7. CASE SwapsQueues
  <2>1. t' = n /\ n' = << >> /\ p = << >> /\ p' = << >>
    BY <1>7 DEF SwapsQueues
  <2> HIDE DEF t, n, p
  <2>2. InOrder(A, B)'
    BY <1>2, <1>3, <1>i, <2>1
  <2>3. PopsEvent /\ NextEvent \in A => Nowhere(B)'
    <3> SUFFICES ASSUME PopsEvent, NextEvent \in A PROVE Nowhere(B)'
      OBVIOUS
    <3>1. t # << >> /\ NextEvent = Head(t) /\ t' = Tail(t) /\ n' = n /\ p' = p
      BY DEF PopsEvent, t, n, p
    <3>2. Head(t) \in A => NoneIn(Tail(t), B)
      BY <1>1, <1>2, <3>1, SortedTail
    <3> QED
      BY <1>3, <1>i, <2>1, <3>1, <3>2
  <2> QED
    BY <2>2, <2>3
<1>8. CASE KernelStep /\ \E r \in Cqes : PostsEvent(r)
  <2>1. PICK r \in Cqes : PostsEvent(r)
    BY <1>8
  <2>2. t' = t /\ n' = n /\ p' = Append(p, EventOf(r)) /\ EventOf(r) \in RunQueueEvents
    BY <2>1, EventOfType DEF PostsEvent
  <2>3. ~PopsEvent
    <3>1. Len(p') # Len(p)
      BY <1>1, <2>2
    <3> QED
      BY <3>1 DEF PopsEvent
  <2>4. EventOf(r) \in B => NoneIn(t, A) /\ NoneIn(n, A) /\ NoneIn(p, A)
    BY <1>8, <2>1 DEF Nowhere
  <2> HIDE DEF t, n, p, EventOf
  <2>5. Sorted(p', A, B)
    BY <1>1, <1>2, <2>2, <2>4, SortedAppend
  <2>6. EventOf(r) \notin B => (NoneIn(p, B) => NoneIn(p', B))
    BY <1>1, <2>2, NoneAppend
  <2> QED
    BY <1>2, <1>i, <2>2, <2>3, <2>4, <2>5, <2>6
<1> HIDE DEF t, n, p
<1> QED
  BY <1>4, <1>5, <1>6, <1>7, <1>8, NextWay

-----------------------------------------------------------------------------
(* The completions of the accept.                                          *)
TcpCompletions == {e \in RunQueueEvents : e.handle = TcpHandle /\ e.reason.kind = "IoCompleted"}

(* Nothing is behind the completion that ends the multishot accept, and    *)
(* nothing is on its way to a listener that does not accept.               *)
ListenerOrder ==
  /\ InOrder(LastEvents, TcpCompletions)
  /\ tcp_listener # "Accepting" => Nowhere(TcpCompletions)

LEMMA AppendOnce ==
  \A T : \A s \in Seq(T) : \A x, y \in T :
    Append(s, x) # s /\ (Append(s, x) = Append(s, y) => x = y)
<1> SUFFICES ASSUME NEW T, NEW s \in Seq(T), NEW x \in T, NEW y \in T
             PROVE  Append(s, x) # s /\ (Append(s, x) = Append(s, y) => x = y)
  OBVIOUS
<1>1. Len(s) \in Nat /\ Len(Append(s, x)) = Len(s) + 1
  OBVIOUS
<1>2. \A n \in Nat : n + 1 # n
  BY ONLY SMT
<1>3. Len(Append(s, x)) # Len(s)
  BY <1>1, <1>2, Zenon
<1>4. Append(s, x)[Len(s) + 1] = x /\ Append(s, y)[Len(s) + 1] = y
  OBVIOUS
<1> QED
  BY <1>3, <1>4, Zenon

(* What the kernel posts: a completion of the accept while one is armed,   *)
(* else one of a machine's request, which it takes from where it was.      *)
LEMMA KernelPosts ==
  ASSUME TypeOK, KernelStep, NEW r \in Cqes, cq' = Append(cq, r)
  PROVE  IF r.user = TcpHandle THEN accepts > 0 /\ (KernelAccepts \/ KernelRefuses)
         ELSE ~KernelAccepts /\ ~KernelRefuses
<1>1. cq \in Seq(Cqes) /\ cq' # cq /\ \A x \in Cqes : cq' = Append(cq, x) => x = r
  BY AppendOnce, Zenon DEF TypeOK
<1>2. ASSUME KernelAccepts \/ KernelRefuses
      PROVE  r.user = TcpHandle /\ accepts > 0
  <2>1. \E res \in AcceptResults : \E more \in BOOLEAN : cq' = Append(cq, Cqe(TcpHandle, res, more))
    <3>1. -ENFILE \in AcceptResults
      BY DEF ENFILE, AcceptResults
    <3>2. Slots \subseteq AcceptResults
      BY DEF Slots, AcceptResults
    <3> QED
      BY <1>2, <3>1, <3>2 DEF KernelAccepts, KernelRefuses, AcceptCompletes, AcceptOverflows, Post
  <2>2. \A res \in AcceptResults : \A more \in BOOLEAN :
          Cqe(TcpHandle, res, more) \in Cqes /\ Cqe(TcpHandle, res, more).user = TcpHandle
    BY DEF Cqe, Cqes
  <2>3. accepts > 0
    BY <1>2 DEF KernelAccepts, KernelRefuses, AcceptCompletes, AcceptOverflows
  <2> QED
    BY <1>1, <2>1, <2>2, <2>3, Zenon
<1>3. ASSUME ~KernelAccepts, ~KernelRefuses
      PROVE  r.user # TcpHandle
  <2>1. \E u \in ConnHandles : \E res \in Int : cq' = Append(cq, Cqe(u, res, FALSE))
    <3>1. CASE EnterIssues
      <4> DEFINE e == Head(sq)
      <4>1. e \in Sqes /\ (IssueRecv \/ IssueClose)
        BY <1>1, <3>1, PopType DEF TypeOK, EnterIssues, Issue, IssueAccept
      <4>2. e.user \in ConnHandles
        <5>1. e.op # "accept" => e.user \in ConnHandles
          BY <4>1 DEF Sqes, AcceptMulti
        <5> QED
          BY <4>1, <5>1 DEF IssueRecv, IssueClose
      <4>3. -EFAULT \in Int /\ -EBADF \in Int /\ 0 \in Int
        BY DEF EFAULT, EBADF
      <4> HIDE DEF e
      <4>4. \/ cq' = cq
            \/ cq' = Append(cq, Cqe(e.user, -EFAULT, FALSE))
            \/ cq' = Append(cq, Cqe(e.user, -EBADF, FALSE))
            \/ cq' = Append(cq, Cqe(e.user, 0, FALSE))
        BY <4>1 DEF IssueRecv, IssueClose, Post, e
      <4> QED
        BY <1>1, <4>2, <4>3, <4>4
    <3>2. CASE KernelReads \/ KernelFails \/ \E c \in Conns : KernelEnds(c)
      <4>1. \E k \in DOMAIN reads : \E res \in Int : Completes(k, res)
        <5>1. \A n \in 1 .. BufSize : n \in Int
          OBVIOUS
        <5>2. \A errno \in RecvErrnos : -errno \in Int
          BY DEF Errnos
        <5> QED
          BY <3>2, <5>1, <5>2 DEF KernelReads, KernelFails, KernelEnds, ReadCompletes, ReadEnds,
                                  ReadFails
      <4>2. PICK k \in DOMAIN reads : \E res \in Int : Completes(k, res)
        BY <4>1
      <4>3. PICK res \in Int : Completes(k, res)
        BY <4>2
      <4>4. reads[k] \in Reads /\ cq' = Append(cq, Cqe(reads[k].user, res, FALSE))
        BY <4>3, CompletesType DEF Completes, Post
      <4>5. reads[k].user \in ConnHandles
        BY <4>4 DEF Reads
      <4> QED
        BY <4>4, <4>5
    <3> QED
      BY <1>3, <3>1, <3>2 DEF KernelStep
  <2>2. \A u \in ConnHandles : \A res \in Int :
          Cqe(u, res, FALSE) \in Cqes /\ Cqe(u, res, FALSE).user = u
    BY DEF Cqe, Cqes
  <2>3. PICK u \in ConnHandles : \E res \in Int : cq' = Append(cq, Cqe(u, res, FALSE))
    BY <2>1
  <2>4. r.user = u
    BY <1>1, <2>2, <2>3, Zenon
  <2> QED
    BY <2>4, HandleKinds
<1> QED
  BY <1>2, <1>3

(* While an accept is armed, its end is not on its way.                    *)
LEMMA ArmedNowhere ==
  ASSUME TypeOK, panic = "no", ArmedOnce, accepts > 0
  PROVE  Nowhere(LastEvents) /\ tcp_listener = "Accepting"
<1>1. Armed = (IF tcp_listener = "Accepting" THEN 1 ELSE 0)
  BY DEF ArmedOnce
<1>2. /\ Count(intents, ArmingIntents) \in Nat /\ Count(sq, AcceptSqes) \in Nat
      /\ accepts \in Nat /\ Count(cq, LastCqes) \in Nat /\ OfQueues(LastEvents) \in Nat
  BY ArmedType
<1>3. Count(cq, LastCqes) = 0 /\ OfQueues(LastEvents) = 0 /\ tcp_listener = "Accepting"
  <2>1. \A a, b, c, d, e \in Nat : c > 0 /\ a + b + c + d + e \in {0, 1} =>
          d = 0 /\ e = 0 /\ a + b + c + d + e = 1
    BY ONLY SMT
  <2>2. Armed \in {0, 1} /\ (Armed = 1 => tcp_listener = "Accepting")
    BY <1>1
  <2> QED
    BY <1>2, <2>1, <2>2 DEF Armed
<1>4. cq \in Seq(Cqes) /\ run_queues \in [{0, 1} -> Seq(RunQueueEvents)]
  BY Zenon DEF TypeOK
<1>5. run_queues[0] \in Seq(RunQueueEvents) /\ run_queues[1] \in Seq(RunQueueEvents)
  BY <1>4
<1>6. NoneIn(run_queues[0], LastEvents) /\ NoneIn(run_queues[1], LastEvents)
  <2>1. Count(run_queues[0], LastEvents) \in Nat /\ Count(run_queues[1], LastEvents) \in Nat
    BY <1>5, CountType
  <2>2. Count(run_queues[0], LastEvents) = 0 /\ Count(run_queues[1], LastEvents) = 0
    BY <1>3, <2>1 DEF OfQueues
  <2> QED
    BY <1>5, <2>2, CountType DEF NoneIn
<1>7. \A k \in DOMAIN cq : cq[k] \notin LastCqes
  BY <1>3, <1>4, CountType
<1>8. NoneIn(Posted, LastEvents)
  <2>1. \A k \in DOMAIN cq : cq[k] \in Cqes
    BY <1>4
  <2>2. \A r \in Cqes : EventOf(r) \in LastEvents => r \in LastCqes
    BY EventOfType, Zenon DEF LastEvents, LastCqes, Rearms
  <2>3. \A k \in DOMAIN cq : EventOf(cq[k]) \notin LastEvents
    BY <1>7, <2>1, <2>2, Zenon
  <2> QED
    BY <2>3 DEF NoneIn, Posted
<1> QED
  BY <1>3, <1>6, <1>8, WayTypes DEF Nowhere, ThisQueue, NextQueue

(* What is on its way stays there until it is popped, and what is nowhere  *)
(* stays so until it is pushed or posted.                                  *)
LEMMA StaysOnTheWay ==
  ASSUME TypeOK, QueueDrained, [Next]_vars, NEW A
  PROVE  /\ Nowhere(A) \/ ~Nowhere(A)' \/ (PopsEvent /\ NextEvent \in A)
         /\ /\ Nowhere(A) /\ (\A e : IsSpawn(e) => e \notin A)
            /\ \A r \in Cqes : KernelStep /\ PostsEvent(r) => EventOf(r) \notin A
            => Nowhere(A)'
<1> DEFINE t == ThisQueue
           n == NextQueue
           p == Posted
<1>1. t \in Seq(RunQueueEvents) /\ n \in Seq(RunQueueEvents) /\ p \in Seq(RunQueueEvents)
  BY WayTypes
<1>2. /\ Nowhere(A) <=> NoneIn(t, A) /\ NoneIn(n, A) /\ NoneIn(p, A)
      /\ Nowhere(A)' <=> NoneIn(t', A) /\ NoneIn(n', A) /\ NoneIn(p', A)
  BY DEF Nowhere
<1>3. \A s \in Seq(RunQueueEvents) :
        /\ s # << >> => (NoneIn(s, A) <=> NoneIn(Tail(s), A) /\ Head(s) \notin A)
        /\ \A e \in RunQueueEvents : NoneIn(Append(s, e), A) <=> NoneIn(s, A) /\ e \notin A
  <2>1. \A s \in Seq(RunQueueEvents) : s # << >> /\ NoneIn(Tail(s), A) /\ Head(s) \notin A =>
          NoneIn(s, A)
    BY NoneOfTail
  <2> QED
    BY <2>1, NoneTail, NoneAppend, NoneAppended
<1>4. NoneIn(<< >>, A)
  BY DEF NoneIn
<1>5. CASE WayKept
  BY <1>2, <1>5 DEF WayKept
<1>6. CASE PopsEvent
  BY <1>1, <1>2, <1>3, <1>6 DEF PopsEvent
<1>7. CASE PushesSpawn
  <2>1. PICK e \in RunQueueEvents :
          /\ IsSpawn(e) /\ p' = p
          /\ \/ t' = Append(t, e) /\ n' = n
             \/ t' = t /\ n' = Append(n, e)
    BY <1>7 DEF PushesSpawn
  <2> HIDE DEF t, n, p, IsSpawn
  <2>2. CASE t' = Append(t, e) /\ n' = n
    BY <1>1, <1>2, <1>3, <2>1, <2>2
  <2>3. CASE t' = t /\ n' = Append(n, e)
    BY <1>1, <1>2, <1>3, <2>1, <2>3
  <2> QED
    BY <2>1, <2>2, <2>3
<1>8. CASE ReapsEvent
  <2>1. Head(p) \in RunQueueEvents
    BY <1>1, <1>8, PopType DEF ReapsEvent
  <2> QED
    BY <1>1, <1>2, <1>3, <1>4, <1>8, <2>1 DEF ReapsEvent
<1>9. CASE SwapsQueues
  <2>1. t = << >> /\ t' = n /\ n' = << >> /\ p = << >> /\ p' = << >>
    BY <1>9 DEF SwapsQueues
  <2> QED
    BY <1>2, <1>4, <2>1
<1>10. CASE KernelStep /\ \E r \in Cqes : PostsEvent(r)
  <2>1. PICK r \in Cqes : PostsEvent(r)
    BY <1>10
  <2>2. t' = t /\ n' = n /\ p' = Append(p, EventOf(r)) /\ EventOf(r) \in RunQueueEvents
    BY <2>1, EventOfType DEF PostsEvent
  <2> HIDE DEF EventOf
  <2> QED
    BY <1>1, <1>2, <1>3, <1>10, <2>1, <2>2
<1> HIDE DEF t, n, p
<1> QED
  BY <1>5, <1>6, <1>7, <1>8, <1>9, <1>10, NextWay

(* The order of the listener's completions is kept.                        *)
LEMMA NextListenerOrder ==
  ASSUME TypeOK, QueueDrained, FailuresEnd, ArmedOnce, panic = "no", ListenerOrder, [Next]_vars
  PROVE  ListenerOrder'
<1>1. \A e : IsSpawn(e) => e \notin LastEvents /\ e \notin TcpCompletions
  BY DEF IsSpawn, LastEvents, TcpCompletions, Rearms
<1>2. \A r \in Cqes : KernelStep /\ PostsEvent(r) /\ EventOf(r) \in TcpCompletions =>
        accepts > 0
  <2> SUFFICES ASSUME NEW r \in Cqes, KernelStep, PostsEvent(r), EventOf(r) \in TcpCompletions
               PROVE  accepts > 0
    OBVIOUS
  <2>1. r.user = TcpHandle
    BY EventOfType DEF TcpCompletions
  <2> QED
    BY <2>1, KernelPosts DEF PostsEvent
<1>3. accepts > 0 => Nowhere(LastEvents) /\ tcp_listener = "Accepting"
  BY ArmedNowhere
<1>4. /\ InOrder(LastEvents, TcpCompletions)'
      /\ PopsEvent /\ NextEvent \in LastEvents => Nowhere(TcpCompletions)'
  BY <1>1, <1>2, <1>3, NextInOrder DEF ListenerOrder
<1>5. ASSUME tcp_listener # "Accepting"
      PROVE  Nowhere(TcpCompletions)'
  BY <1>1, <1>2, <1>3, <1>5, StaysOnTheWay DEF ListenerOrder
<1>6. ASSUME tcp_listener = "Accepting", tcp_listener' # "Accepting"
      PROVE  Nowhere(TcpCompletions)'
  <2>1. DispatchTcp
    BY <1>6, Zenon DEF Next, Thread, vars, machineVars, ringVars, kernelVars, contextVars, loopVars, DispatchConn,
       DispatchMissing, DrainDone, CompleteRetry, CompleteAccept, CompleteSpawn, CompleteRecv,
       CompleteClose, CompleteTerminate, IntentsDone, SubmitShortcut, SubmitEnter, EnterIssues,
       EnterReturns, EnterError, Reap, ReapDone, KernelAccepts, KernelRefuses, KernelReads,
       KernelFails, KernelEnds, ProgramUnchanged, Crash, EnqueueFor, IntentDone
  <2>2. Pop /\ NextEvent.handle.pool = TCP_SERVER
    BY <2>1 DEF DispatchTcp
  <2>3. NextEvent \in RunQueueEvents /\ NextEvent.handle = TcpHandle
    BY <2>2, PopEventType, EventKinds
  <2>4. NextEvent.reason.kind = "IoCompleted" /\ NextEvent.reason.res < 0
    BY <1>6, <2>1 DEF DispatchTcp, TcpProcessEvent, TcpExpects, OnListen, OnAccepted, OnAcceptErr,
                      OnTcpUnexpected
  <2>5. NextEvent \notin UnendedEvents
    BY <2>2, PopNeither DEF FailuresEnd
  <2>6. NextEvent \in LastEvents
    BY <2>3, <2>4, <2>5 DEF UnendedEvents, LastEvents, Rearms
  <2>7. PopsEvent
    BY <2>2, PopWay
  <2> QED
    BY <1>4, <2>6, <2>7
<1> QED
  BY <1>4, <1>5, <1>6 DEF ListenerOrder

-----------------------------------------------------------------------------
(* What a machine h becomes, g, when it handles an event, and what it asks *)
(* for.                                                                    *)
GetsBuffer(h, g, event) ==
  /\ h.state = "Init" /\ event.kind = "Spawn" /\ CanAlloc(io_bufs)
  /\ g = [h EXCEPT !.state = "Recv", !.phase = "ReceivingHeader", !.buf_handle = AllocId(io_bufs)]
  /\ intents' = <<Recv(g)>> /\ io_bufs' = AfterAlloc(io_bufs)

TriesAgain(h, g, event) ==
  /\ h.state = "Init" /\ event.kind = "Spawn" /\ g = h
  /\ intents' = <<Retry>> /\ io_bufs' = io_bufs

HasReceived(h, g, event) ==
  /\ h.state = "Recv" /\ event.kind = "IoCompleted" /\ event.res > 0
  /\ g = AfterData(h, event.res)
  /\ intents' = <<Recv(g)>> /\ io_bufs' = io_bufs

ReadsAgain(h, g, event) ==
  /\ h.state = "Recv" /\ event.kind = "IoCompleted" /\ event.res < 0 /\ g = h
  /\ \/ intents' = <<Recv(g)>>
     \/ intents' = <<Recv(g), Recv(g)>> /\ ~Calm(event.res)
  /\ io_bufs' = io_bufs

StartsClose(h, g, event) ==
  /\ event.kind = "IoCompleted" /\ g = Closing(h)
  /\ ~ClosePanics(h) /\ io_bufs' = FreeBuf(h)
  /\ \/ h.state = "Recv" /\ event.res = 0 /\ intents' = <<CloseFixed(h.socket)>>
     \/ h.state = "Closing" /\ event.res # 0 /\ intents' = <<CloseFixed(h.socket)>>
     \/ /\ h.state = "Recv" /\ ~Calm(event.res)
        /\ intents' = <<CloseFixed(h.socket), Recv(Closing(h))>>

Finishes(h, g, event) ==
  /\ h.state = "Closing" /\ event.kind = "IoCompleted" /\ event.res = 0
  /\ g = [h EXCEPT !.state = "Closed"]
  /\ intents' = <<Terminate>> /\ io_bufs' = io_bufs

Ignores(h, g, event) ==
  /\ h.state = "Closed" /\ g = h /\ intents' = << >> /\ io_bufs' = io_bufs

Answers(h, g, event) ==
  \/ GetsBuffer(h, g, event) \/ TriesAgain(h, g, event) \/ HasReceived(h, g, event)
  \/ ReadsAgain(h, g, event) \/ StartsClose(h, g, event) \/ Finishes(h, g, event)
  \/ Ignores(h, g, event)

(* The arms of process_event are these.                                    *)
LEMMA ArmAnswers ==
  ASSUME TypeOK, NEW i \in 0 .. NHandlers - 1, conn_data[i] \in ConnHandlers,
         NEW event \in Events(Int), ConnProcessEvent(i, event), panic' = "no"
  PROVE  \E g \in ConnHandlers :
           /\ conn_data' = [conn_data EXCEPT ![i] = g] /\ mem' = mem
           /\ g.socket = conn_data[i].socket /\ g.peer = conn_data[i].peer
           /\ Answers(conn_data[i], g, event)
<1> DEFINE h == conn_data[i]
           res == event.res
           P == \E g \in ConnHandlers :
                  /\ conn_data' = [conn_data EXCEPT ![i] = g] /\ mem' = mem
                  /\ g.socket = h.socket /\ g.peer = h.peer
                  /\ Answers(h, g, event)
<1>1. /\ res \in Int /\ event.kind \in {"Spawn", "IoCompleted"}
      /\ h.state \in {"Init", "Recv", "Closing", "Closed"}
      /\ conn_data = [conn_data EXCEPT ![i] = h]
  BY DEF Events, ConnHandlers, Machines, TypeOK
<1>2. ASSUME NEW g \in ConnHandlers, conn_data' = [conn_data EXCEPT ![i] = g], mem' = mem,
             g.socket = h.socket, g.peer = h.peer, Answers(h, g, event)
      PROVE  P
  BY <1>2
<1>3. CASE ~ConnExpects(i, event)
  <2>1. OnUnexpected(i)
    BY <1>3 DEF ConnProcessEvent
  <2>2. /\ h.state = "Closed" /\ intents' = << >> /\ io_bufs' = io_bufs
        /\ conn_data' = conn_data /\ mem' = mem
    BY <2>1 DEF OnUnexpected
  <2>3. Answers(h, h, event)
    BY <2>2 DEF Answers, Ignores
  <2> QED
    BY <1>1, <1>2, <2>2, <2>3
<1>4. CASE ConnExpects(i, event) /\ OnInit(i)
  <2>1. h.state = "Init" /\ event.kind = "Spawn" /\ mem' = mem
    BY <1>4 DEF ConnExpects, OnInit
  <2>2. CASE CanAlloc(io_bufs)
    <3> DEFINE g == [h EXCEPT !.state = "Recv", !.phase = "ReceivingHeader",
                              !.buf_handle = AllocId(io_bufs)]
    <3>1. /\ conn_data' = [conn_data EXCEPT ![i] = g] /\ intents' = <<Recv(g)>>
          /\ io_bufs' = AfterAlloc(io_bufs)
      BY <1>4, <2>2 DEF OnInit
    <3>2. g \in ConnHandlers /\ g.socket = h.socket /\ g.peer = h.peer
      <4>1. AllocId(io_bufs) \in GenId
        BY <2>2, AllocType DEF TypeOK
      <4>2. g \in Machines({"Recv"}, GenId) /\ g.socket = h.socket /\ g.peer = h.peer
        BY <4>1 DEF ConnHandlers, Machines
      <4> QED
        BY <4>2 DEF ConnHandlers, Machines
    <3>3. Answers(h, g, event)
      BY <2>1, <2>2, <3>1 DEF Answers, GetsBuffer
    <3> HIDE DEF g
    <3> QED
      BY <1>2, <2>1, <3>1, <3>2, <3>3
  <2>3. CASE ~CanAlloc(io_bufs)
    <3>1. conn_data' = conn_data /\ intents' = <<Retry>> /\ io_bufs' = io_bufs
      BY <1>4, <2>3 DEF OnInit
    <3>2. Answers(h, h, event)
      BY <2>1, <3>1 DEF Answers, TriesAgain
    <3> QED
      BY <1>1, <1>2, <2>1, <3>1, <3>2
  <2> QED
    BY <2>2, <2>3
<1>5. CASE ConnExpects(i, event) /\ (OnRecvEof(i, res) \/ OnCloseFailed(i, res) \/ OnRecvCloseErr(i, res))
  <2>1. /\ Close(i) /\ mem' = mem
        /\ \/ h.state = "Recv" /\ event.res = 0 /\ intents' = <<CloseFixed(h.socket)>>
           \/ h.state = "Closing" /\ event.res # 0 /\ intents' = <<CloseFixed(h.socket)>>
           \/ /\ h.state = "Recv" /\ event.res < 0 /\ from_raw_syscall_error(event.res) \in CloseErrnos
              /\ intents' = <<CloseFixed(h.socket), Recv(Closing(h))>>
    BY <1>5 DEF OnRecvEof, OnCloseFailed, OnRecvCloseErr
  <2>2. event.kind = "IoCompleted" /\ h.state \in {"Recv", "Closing"}
    BY <1>5, <2>1 DEF ConnExpects
  <2>3. /\ conn_data' = [conn_data EXCEPT ![i] = Closing(h)]
        /\ ~ClosePanics(h) /\ io_bufs' = FreeBuf(h)
    BY <2>1 DEF Close
  <2>4. /\ Closing(h) \in ConnHandlers /\ Closing(h).socket = h.socket /\ Closing(h).peer = h.peer
    <3>1. Closing(h) \in ConnHandlers
      BY <2>2, RecvType
    <3> QED
      BY <3>1 DEF Closing, ConnHandlers, Machines
  <2>5. event.res < 0 /\ from_raw_syscall_error(event.res) \in CloseErrnos => ~Calm(event.res)
    BY <1>1 DEF Calm
  <2>6. Answers(h, Closing(h), event)
    BY <2>1, <2>2, <2>3, <2>5 DEF Answers, StartsClose
  <2> QED
    BY <1>2, <2>1, <2>3, <2>4, <2>6
<1>6. CASE ConnExpects(i, event) /\ OnRecvData(i, res)
  <2>1. /\ h.state = "Recv" /\ res > 0 /\ event.kind = "IoCompleted"
        /\ ~(h.offset + res >= HdrSize /\ ~IsValid(io_bufs, h.buf_handle))
        /\ io_bufs' = io_bufs /\ mem' = mem
    BY <1>6 DEF OnRecvData, ConnExpects
  <2>2. /\ conn_data' = [conn_data EXCEPT ![i] = AfterData(h, res)]
        /\ intents' = <<Recv(AfterData(h, res))>>
    BY <1>6, <2>1 DEF OnRecvData
  <2>3. res \in Nat /\ (h.offset + res >= HdrSize => IsValid(io_bufs, h.buf_handle))
    BY <1>1, <2>1
  <2>4. AfterData(h, res) \in ConnHandlers
    BY <2>1, <2>3, AfterDataType
  <2>5. AfterData(h, res).socket = h.socket /\ AfterData(h, res).peer = h.peer
    BY DEF AfterData, ConnHandlers, Machines
  <2>6. Answers(h, AfterData(h, res), event)
    BY <2>1, <2>2 DEF Answers, HasReceived
  <2> QED
    BY <1>2, <2>1, <2>2, <2>4, <2>5, <2>6
<1>7. CASE ConnExpects(i, event)
           /\ (OnRecvRetryErr(i, res) \/ OnRecvFatalErr(i, res) \/ OnRecvOtherErr(i, res))
  <2>1. /\ h.state = "Recv" /\ conn_data' = conn_data /\ mem' = mem /\ io_bufs' = io_bufs
        /\ res < 0 /\ event.kind = "IoCompleted"
        /\ \/ intents' = <<Recv(h)>>
           \/ intents' = <<Recv(h), Recv(h)>> /\ from_raw_syscall_error(res) \in RetryErrnos
    BY <1>7 DEF OnRecvRetryErr, OnRecvFatalErr, OnRecvOtherErr, ConnExpects
  <2>2. from_raw_syscall_error(res) \in RetryErrnos => ~Calm(res)
    BY <1>1, <2>1 DEF Calm
  <2>3. Answers(h, h, event)
    BY <2>1, <2>2 DEF Answers, ReadsAgain
  <2> QED
    BY <1>1, <1>2, <2>1, <2>3
<1>8. CASE ConnExpects(i, event) /\ OnClosed(i, res)
  <2> DEFINE g == [h EXCEPT !.state = "Closed"]
  <2>1. /\ h.state = "Closing" /\ res = 0 /\ event.kind = "IoCompleted"
        /\ conn_data' = [conn_data EXCEPT ![i] = g]
        /\ intents' = <<Terminate>> /\ mem' = mem /\ io_bufs' = io_bufs
    BY <1>8 DEF OnClosed, ConnExpects
  <2>2. g \in ConnHandlers /\ g.socket = h.socket /\ g.peer = h.peer
    <3>1. g \in Machines({"Closed"}, GenId) /\ g.socket = h.socket /\ g.peer = h.peer
      BY <2>1 DEF ConnHandlers, Machines
    <3> QED
      BY <3>1 DEF ConnHandlers, Machines
  <2>3. Answers(h, g, event)
    BY <2>1 DEF Answers, Finishes
  <2> HIDE DEF g
  <2> QED
    BY <1>2, <2>1, <2>2, <2>3
<1> QED
  BY <1>3, <1>4, <1>5, <1>6, <1>7, <1>8, Zenon DEF ConnProcessEvent

-----------------------------------------------------------------------------
(* Which connection handlers still have their slot: those that have not    *)
(* started to close.                                                       *)
Fresh(i) == Live(i) /\ conn_data[i].state \in {"Init", "Recv"}

(* The completion that puts a connection into slot s, the intents that     *)
(* carry the slot on, and the requests that give it back.                  *)
AcceptEvents(s) == {e \in TcpCompletions : e.reason.res = s}

SlotIntents(s) == {SpawnConnHandler(s), CloseFixed(s)}

CloseSqes(s) == {r \in Sqes : r.op = "close" /\ r.fixed = s}

ServesSlot(i, s) == Fresh(i) /\ conn_data[i].socket = s /\ conn_data[i].peer = files[s]

Held(s) ==
  \/ ~Nowhere(AcceptEvents(s))
  \/ ~NoneIn(intents, SlotIntents(s))
  \/ \E i \in 0 .. NHandlers - 1 : ServesSlot(i, s)
  \/ ~NoneIn(sq, CloseSqes(s))

(* A machine that terminates has nothing left to give back.                *)
TerminatesUnserving ==
  ~NoneIn(intents, {Terminate}) => (IsValid(conn_alloc, current) => ~Fresh(current.index))

SlotsHeld ==
  /\ \A s \in Slots : files[s] # None => Held(s)
  /\ TerminatesUnserving

(* Nothing in a short sequence.                                            *)
LEMMA NoneOfShort ==
  \A S : /\ NoneIn(<< >>, S)
         /\ \A x : NoneIn(<<x>>, S) <=> x \notin S
         /\ \A x, y : NoneIn(<<x, y>>, S) <=> x \notin S /\ y \notin S
<1> SUFFICES ASSUME NEW S, NEW x, NEW y
             PROVE  /\ NoneIn(<< >>, S)
                    /\ NoneIn(<<x>>, S) <=> x \notin S
                    /\ NoneIn(<<x, y>>, S) <=> x \notin S /\ y \notin S
  OBVIOUS
<1>1. DOMAIN << >> = {} /\ DOMAIN <<x>> = {1} /\ DOMAIN <<x, y>> = {1, 2}
  OBVIOUS
<1>2. <<x>>[1] = x /\ <<x, y>>[1] = x /\ <<x, y>>[2] = y
  OBVIOUS
<1>3. NoneIn(<< >>, S)
  BY <1>1 DEF NoneIn
<1>4. NoneIn(<<x>>, S) <=> x \notin S
  BY <1>1, <1>2 DEF NoneIn
<1>5. NoneIn(<<x, y>>, S) <=> x \notin S /\ y \notin S
  BY <1>1, <1>2 DEF NoneIn
<1> QED
  BY <1>3, <1>4, <1>5

(* What the arms of process_event do for slots.                            *)
LEMMA ArmSlots ==
  ASSUME TypeOK, NEW h \in ConnHandlers, NEW g \in ConnHandlers, NEW event, Answers(h, g, event)
  PROVE  /\ h.state \in {"Init", "Recv"} /\ g.state \notin {"Init", "Recv"} =>
              ~NoneIn(intents', SlotIntents(h.socket))
         /\ h.state \notin {"Init", "Recv"} => g.state \notin {"Init", "Recv"}
         /\ ~NoneIn(intents', {Terminate}) => g.state = "Closed"
<1>2. CloseFixed(h.socket) \in SlotIntents(h.socket)
  BY DEF SlotIntents
<1>t. \A x : x \in {Terminate} <=> x = Terminate
  OBVIOUS
<1>3. CASE GetsBuffer(h, g, event) \/ HasReceived(h, g, event)
  <2>1. g.state \in {"Init", "Recv"} /\ intents' = <<Recv(g)>> /\ h.state \in {"Init", "Recv"}
    BY <1>3 DEF GetsBuffer, HasReceived, AfterData, ConnHandlers, Machines
  <2> QED
    BY <1>t, <2>1, NotTerminate, NoneOfShort
<1>4. CASE TriesAgain(h, g, event) \/ ReadsAgain(h, g, event) \/ Ignores(h, g, event)
  <2>1. /\ g = h
        /\ \/ intents' = << >> \/ intents' = <<Retry>>
           \/ intents' = <<Recv(g)>> \/ intents' = <<Recv(g), Recv(g)>>
    BY <1>4 DEF TriesAgain, ReadsAgain, Ignores
  <2>2. NoneIn(intents', {Terminate})
    <3>1. Retry \notin {Terminate} /\ Recv(g) \notin {Terminate}
      BY NotTerminate
    <3>2. /\ NoneIn(<< >>, {Terminate}) /\ NoneIn(<<Retry>>, {Terminate})
          /\ NoneIn(<<Recv(g)>>, {Terminate}) /\ NoneIn(<<Recv(g), Recv(g)>>, {Terminate})
      BY <3>1, NoneOfShort
    <3> QED
      BY <2>1, <3>2, Zenon
  <2> QED
    BY <2>1, <2>2
<1>5. CASE StartsClose(h, g, event)
  <2>1. g.state = "Closing" /\ h.state \in {"Recv", "Closing"}
    BY <1>5 DEF StartsClose, Closing, ConnHandlers, Machines
  <2>2. /\ ~NoneIn(intents', SlotIntents(h.socket))
        /\ NoneIn(intents', {Terminate})
    <3>1. CASE intents' = <<CloseFixed(h.socket)>>
      BY <1>2, <1>t, <3>1, NotTerminate, NoneOfShort
    <3>2. CASE intents' = <<CloseFixed(h.socket), Recv(Closing(h))>>
      BY <1>2, <1>t, <3>2, NotTerminate, NoneOfShort
    <3> QED
      BY <1>5, <3>1, <3>2 DEF StartsClose
  <2> QED
    BY <2>1, <2>2
<1>6. CASE Finishes(h, g, event)
  BY <1>6 DEF Finishes, ConnHandlers, Machines
<1> QED
  BY <1>3, <1>4, <1>5, <1>6 DEF Answers

(* A step that leaves machines and intents alone.                          *)
LEMMA QuietHeld ==
  ASSUME TypeOK, QueueDrained, [Next]_vars, SlotsHeld, ~Pop,
         UNCHANGED <<intents, current, conn_alloc, conn_data>>,
         \A s \in Slots : files'[s] # None =>
           \/ ~Nowhere(AcceptEvents(s))'
           \/ files'[s] = files[s] /\ (NoneIn(sq', CloseSqes(s)) => NoneIn(sq, CloseSqes(s)))
  PROVE  SlotsHeld'
<1>1. TerminatesUnserving'
  BY DEF SlotsHeld, TerminatesUnserving, Fresh, Live
<1>2. ASSUME NEW s \in Slots, files'[s] # None PROVE Held(s)'
  <2>1. CASE ~Nowhere(AcceptEvents(s))'
    BY <2>1 DEF Held
  <2>2. CASE files'[s] = files[s] /\ (NoneIn(sq', CloseSqes(s)) => NoneIn(sq, CloseSqes(s)))
    <3>1. Nowhere(AcceptEvents(s)) \/ ~Nowhere(AcceptEvents(s))'
      BY StaysOnTheWay DEF PopsEvent
    <3>2. \A i \in 0 .. NHandlers - 1 : ServesSlot(i, s) => ServesSlot(i, s)'
      BY <2>2 DEF ServesSlot, Fresh, Live
    <3>3. SlotIntents(s)' = SlotIntents(s) /\ CloseSqes(s)' = CloseSqes(s)
      BY DEF SlotIntents, CloseSqes
    <3>4. Held(s)
      BY <1>2, <2>2 DEF SlotsHeld
    <3> QED
      BY <2>2, <3>1, <3>2, <3>3, <3>4 DEF Held
  <2> QED
    BY <1>2, <2>1, <2>2
<1> QED
  BY <1>1, <1>2 DEF SlotsHeld

-----------------------------------------------------------------------------
(* What complete_intent does for an intent, when it does not panic.        *)
LEMMA AcceptStep ==
  ASSUME TypeOK, CompleteAccept, panic' = "no"
  PROVE  /\ current = TcpHandle /\ Head(intents) = SubmitMultishotAccept
         /\ sq' = Append(sq, AcceptMulti(TcpHandle)) /\ AcceptMulti(TcpHandle) \in Sqes
         /\ intents # << >> /\ IntentDone /\ UNCHANGED <<io_bufs, run_queues, conn_alloc, conn_data>>
<1>1. intents # << >> /\ Head(intents).kind = "SubmitMultishotAccept"
  BY DEF CompleteAccept, AtIntent
<1>2. current = TcpHandle /\ Head(intents) \in TcpIntents
  BY <1>1, IntentKinds
<1>3. Head(intents) = SubmitMultishotAccept
  BY <1>1, <1>2 DEF TcpIntents, SpawnConnHandler, Intent
<1>4. EnqueueFor(AcceptMulti(TcpHandle))
  BY <1>2 DEF CompleteAccept
<1>5. CanEnqueue
  BY <1>4 DEF EnqueueFor, Crash, PanicSites
<1> QED
  BY <1>1, <1>2, <1>3, <1>4, <1>5, Zenon DEF EnqueueFor, Enqueue, Sqes

LEMMA CloseStep ==
  ASSUME TypeOK, CompleteClose, panic' = "no"
  PROVE  \E s \in Slots :
           /\ current \in ConnHandles /\ Head(intents) = CloseFixed(s)
           /\ sq' = Append(sq, CloseSqe(current, s)) /\ CloseSqe(current, s) \in Sqes
           /\ intents # << >> /\ IntentDone /\ UNCHANGED <<io_bufs, run_queues, conn_alloc, conn_data>>
<1>1. intents # << >> /\ Head(intents).kind = "CloseFixed"
  BY DEF CompleteClose, AtIntent
<1>2. current \in ConnHandles /\ Head(intents) \in ConnIntents
  BY <1>1, IntentKinds
<1>3. PICK s \in Slots : Head(intents) = CloseFixed(s)
  BY <1>1, <1>2 DEF ConnIntents, Retry, Terminate, Intent
<1>4. EnqueueFor(CloseSqe(current, s))
  BY <1>3 DEF CompleteClose, CloseFixed, Intent
<1>5. CanEnqueue
  BY <1>4 DEF EnqueueFor, Crash
<1>6. CloseSqe(current, s) \in Sqes
  BY <1>2 DEF CloseSqe, Sqes
<1> QED
  BY <1>1, <1>2, <1>3, <1>4, <1>5, <1>6, Zenon DEF EnqueueFor, Enqueue

LEMMA SpawnStep ==
  ASSUME TypeOK, CompleteSpawn, panic' = "no"
  PROVE  \E i \in 0 .. NHandlers - 1 : \E s \in Slots :
           /\ current = TcpHandle /\ Head(intents) = SpawnConnHandler(s)
           /\ CanAlloc(conn_alloc) /\ i = Head(conn_alloc.free_list) /\ ~Live(i)
           /\ conn_alloc' = AfterAlloc(conn_alloc)
           /\ conn_data' = [conn_data EXCEPT ![i] = NewConnHandler(s, files[s])]
           /\ HandleOf(i) \in ConnHandles /\ CanPush(current_run_queue)
           /\ Push(current_run_queue, RunQueueEvent(Spawn, HandleOf(i)))
           /\ intents # << >> /\ IntentDone /\ UNCHANGED <<io_bufs, sq>>
<1> DEFINE id == AllocId(conn_alloc)
<1>1. intents # << >> /\ Head(intents).kind = "SpawnConnHandler"
  BY DEF CompleteSpawn, AtIntent
<1>2. current = TcpHandle /\ Head(intents) \in TcpIntents
  BY <1>1, IntentKinds
<1>3. PICK s \in Slots : Head(intents) = SpawnConnHandler(s)
  BY <1>1, <1>2 DEF TcpIntents, SubmitMultishotAccept, Intent
<1>4. Head(intents).fixed = s
  BY <1>3 DEF SpawnConnHandler, Intent
<1>5. \A site : Crash(site) => panic' = site
  BY DEF Crash
<1>6. /\ CanAlloc(conn_alloc) /\ conn_data[id.index] = None /\ CanPush(current_run_queue)
      /\ conn_alloc' = AfterAlloc(conn_alloc)
      /\ conn_data' = [conn_data EXCEPT ![id.index] = NewConnHandler(s, files[s])]
      /\ Push(current_run_queue, RunQueueEvent(Spawn, ObjectHandle(CONN_HANDLER, id)))
      /\ IntentDone /\ UNCHANGED <<io_bufs, sq>>
  BY <1>4, <1>5 DEF CompleteSpawn
<1>7. id.index \in 0 .. NHandlers - 1 /\ id.index = Head(conn_alloc.free_list)
  BY <1>6, AllocType DEF TypeOK, AllocId
<1>8. ObjectHandle(CONN_HANDLER, id) = HandleOf(id.index)
  BY DEF AllocId, HandleOf, ObjectHandle
<1>9. HandleOf(id.index) \in ConnHandles
  BY <1>7, HandleType
<1> HIDE DEF id
<1> QED
  BY <1>1, <1>2, <1>3, <1>6, <1>7, <1>8, <1>9, Zenon DEF Live

LEMMA RetryStep ==
  ASSUME TypeOK, CompleteRetry, panic' = "no"
  PROVE  /\ current \in ConnHandles /\ Head(intents) = Retry
         /\ CanPush(next_run_queue_idx) /\ RunQueueEvent(Spawn, current) \in RunQueueEvents
         /\ Push(next_run_queue_idx, RunQueueEvent(Spawn, current))
         /\ intents # << >> /\ IntentDone /\ UNCHANGED <<io_bufs, sq, conn_alloc, conn_data>>
<1>1. intents # << >> /\ Head(intents).kind = "Retry"
  BY DEF CompleteRetry, AtIntent
<1>2. current \in ConnHandles /\ Head(intents) \in ConnIntents
  BY <1>1, IntentKinds
<1>3. Head(intents) = Retry
  BY <1>1, <1>2 DEF ConnIntents, Terminate, CloseFixed, Intent
<1>4. RunQueueEvent(Spawn, current) \in RunQueueEvents
  BY <1>2 DEF RunQueueEvent, RunQueueEvents, Spawn, Events
<1>5. \A site : Crash(site) => panic' = site
  BY DEF Crash
<1> QED
  BY <1>1, <1>2, <1>3, <1>4, <1>5, Zenon DEF CompleteRetry

LEMMA TerminateStep ==
  ASSUME TypeOK, CompleteTerminate, panic' = "no"
  PROVE  /\ current \in ConnHandles /\ Head(intents) = Terminate
         /\ ~FreePanics(conn_alloc, current)
         /\ conn_alloc' = AfterFree(conn_alloc, current)
         /\ conn_data' = IF IsValid(conn_alloc, current)
                         THEN [conn_data EXCEPT ![current.index] = None] ELSE conn_data
         /\ intents # << >> /\ IntentDone /\ UNCHANGED <<io_bufs, run_queues, sq>>
<1>1. intents # << >> /\ Head(intents).kind = "Terminate"
  BY DEF CompleteTerminate, AtIntent
<1>2. current \in ConnHandles /\ Head(intents) \in ConnIntents
  BY <1>1, IntentKinds
<1>3. Head(intents) = Terminate
  BY <1>1, <1>2 DEF ConnIntents, Retry, CloseFixed, Intent
<1>5. \A site : Crash(site) => panic' = site
  BY DEF Crash
<1> QED
  BY <1>1, <1>2, <1>3, <1>5, Zenon DEF CompleteTerminate

LEMMA RecvStep ==
  ASSUME TypeOK, CompleteRecv, panic' = "no"
  PROVE  \E i \in ConnIntents : \E r \in Sqes :
           /\ current \in ConnHandles /\ Head(intents) = i /\ i.kind = "SubmitRecv"
           /\ i.off < BufSize /\ IsValid(io_bufs, i.buf)
           /\ r = ReadFixed(current, i.fixed, BufPtr(i.buf.index) + i.off, BufSize - i.off, i.buf.index)
           /\ sq' = Append(sq, r)
           /\ intents # << >> /\ IntentDone /\ UNCHANGED <<io_bufs, run_queues, conn_alloc, conn_data>>
<1> DEFINE i == Head(intents)
           r == ReadFixed(current, i.fixed, BufPtr(i.buf.index) + i.off, BufSize - i.off, i.buf.index)
<1>1. intents # << >> /\ Head(intents).kind = "SubmitRecv"
  BY DEF CompleteRecv, AtIntent
<1>2. current \in ConnHandles /\ i \in ConnIntents
  BY <1>1, IntentKinds
<1>3. i.fixed \in Slots /\ i.buf \in GenId /\ i.off \in Nat
  BY <1>1, <1>2 DEF ConnIntents, Retry, Terminate, CloseFixed, Intent
<1>5. \A site : Crash(site) => panic' = site
  BY DEF Crash
<1>6. ~(i.off >= BufSize) /\ IsValid(io_bufs, i.buf) /\ EnqueueFor(r)
  BY <1>5 DEF CompleteRecv
<1>7. CanEnqueue
  BY <1>5, <1>6 DEF EnqueueFor
<1>8. r \in Sqes
  <2>1. i.buf.index \in 0 .. NBufs - 1
    BY <1>6 DEF IsValid, TypeOK, GenAllocs
  <2>2. i.off \in 0 .. BufSize - 1 /\ BufSize - i.off \in 1 .. BufSize
    BY <1>3, <1>6
  <2>3. BufPtr(i.buf.index) + i.off \in Addresses
    BY <2>1, <2>2, BufferAddress
  <2> QED
    BY <1>2, <1>3, <2>1, <2>2, <2>3 DEF ReadFixed, Sqes
<1>9. i.off < BufSize
  BY <1>3, <1>6
<1> HIDE DEF i, r
<1>10. sq' = Append(sq, r) /\ IntentDone /\ UNCHANGED <<io_bufs, run_queues, conn_alloc, conn_data>>
  BY <1>6, <1>7, Zenon DEF EnqueueFor, Enqueue
<1> QED
  BY <1>1, <1>2, <1>6, <1>8, <1>9, <1>10 DEF i, r

(* A machine that is made.                                                 *)
LEMMA NewMachineType ==
  ASSUME NEW s \in Slots, NEW c \in Conns \cup {None}
  PROVE  NewConnHandler(s, c) \in ConnHandlers
<1>1. NewConnHandler(s, c) \in Machines({"Init"}, {None})
  BY DEF NewConnHandler, Machines
<1> QED
  BY <1>1 DEF ConnHandlers

-----------------------------------------------------------------------------
(* Slots and the steps that take an intent.                                *)
LEMMA IntentHeld ==
  ASSUME TypeOK, TypeOK', SlotsHeld, QueueDrained, [Next]_vars, panic' = "no",
         \/ CompleteRetry \/ CompleteAccept \/ CompleteSpawn
         \/ CompleteRecv \/ CompleteClose \/ CompleteTerminate
  PROVE  SlotsHeld'
<1>1. pc = "intents"
  BY DEF CompleteRetry, CompleteAccept, CompleteSpawn, CompleteRecv,
         CompleteClose, CompleteTerminate, AtIntent
<1>2. intents # << >> /\ IntentDone
  BY AcceptStep, CloseStep, SpawnStep, RetryStep, TerminateStep, RecvStep
<1>3. /\ intents \in Seq(IntentsOf(current)) /\ sq \in Seq(Sqes)
      /\ intents' = Tail(intents) /\ current' = current /\ files' = files
  BY <1>2, Zenon DEF TypeOK, IntentDone, kernelVars
<1>4. \A S : NoneIn(intents, S) <=> NoneIn(intents', S) /\ Head(intents) \notin S
  BY <1>2, <1>3, NoneTail, NoneOfTail
<1>5. \A s \in Slots : Nowhere(AcceptEvents(s)) \/ ~Nowhere(AcceptEvents(s))'
  BY <1>1, StaysOnTheWay DEF PopsEvent, Pop
<1>6. ASSUME NEW s \in Slots, files[s] # None,
             \A i \in 0 .. NHandlers - 1 : ServesSlot(i, s) => ServesSlot(i, s)',
             NoneIn(sq', CloseSqes(s)) => NoneIn(sq, CloseSqes(s)),
             Head(intents) \in SlotIntents(s) =>
               ~NoneIn(sq', CloseSqes(s)) \/ \E i \in 0 .. NHandlers - 1 : ServesSlot(i, s)'
      PROVE  Held(s)'
  <2>1. Held(s)
    BY <1>6 DEF SlotsHeld
  <2>2. SlotIntents(s)' = SlotIntents(s) /\ CloseSqes(s)' = CloseSqes(s)
    BY DEF SlotIntents, CloseSqes
  <2> QED
    BY <1>4, <1>5, <1>6, <2>1, <2>2 DEF Held
<1>7. \A s \in Slots :
        /\ Retry \notin SlotIntents(s) /\ Terminate \notin SlotIntents(s)
        /\ SubmitMultishotAccept \notin SlotIntents(s)
        /\ \A i : i.kind = "SubmitRecv" => i \notin SlotIntents(s)
  BY DEF Retry, Terminate, SubmitMultishotAccept, SlotIntents, SpawnConnHandler, CloseFixed, Intent
<1>8. ASSUME UNCHANGED <<conn_alloc, conn_data>> PROVE TerminatesUnserving'
  BY <1>3, <1>4, <1>8 DEF SlotsHeld, TerminatesUnserving, Fresh, Live
<1>9. ASSUME UNCHANGED <<conn_alloc, conn_data>>, NEW r \in Sqes, sq' = sq \/ sq' = Append(sq, r),
             \A s \in Slots : Head(intents) \in SlotIntents(s) => ~NoneIn(sq', CloseSqes(s))
      PROVE  SlotsHeld'
  <2>1. \A i \in 0 .. NHandlers - 1 : \A s \in Slots : ServesSlot(i, s) => ServesSlot(i, s)'
    BY <1>3, <1>9 DEF ServesSlot, Fresh, Live
  <2>2. \A s \in Slots : NoneIn(sq', CloseSqes(s)) => NoneIn(sq, CloseSqes(s))
    <3>1. CASE sq' = sq
      BY <3>1
    <3>2. CASE sq' = Append(sq, r)
      <4>1. \A S : NoneIn(Append(sq, r), S) => NoneIn(sq, S)
        BY <1>3, <1>9, NoneAppended
      <4> QED
        BY <3>2, <4>1
    <3> QED
      BY <1>9, <3>1, <3>2
  <2> QED
    BY <1>3, <1>6, <1>8, <1>9, <2>1, <2>2 DEF SlotsHeld
<1>10. CASE CompleteRetry \/ CompleteAccept \/ CompleteRecv
  <2>1. /\ UNCHANGED <<conn_alloc, conn_data>>
        /\ \E r \in Sqes : sq' = sq \/ sq' = Append(sq, r)
    <3>1. AcceptMulti(TcpHandle) \in Sqes
      BY DEF Sqes
    <3> QED
      BY <1>10, <3>1, RetryStep, AcceptStep, RecvStep
  <2>2. \A s \in Slots : Head(intents) \notin SlotIntents(s)
    BY <1>7, <1>10, RetryStep, AcceptStep, RecvStep
  <2> QED
    BY <1>9, <2>1, <2>2
<1>11. CASE CompleteClose
  <2>1. PICK s \in Slots :
           /\ Head(intents) = CloseFixed(s) /\ UNCHANGED <<conn_alloc, conn_data>>
           /\ sq' = Append(sq, CloseSqe(current, s)) /\ CloseSqe(current, s) \in Sqes
    BY <1>11, CloseStep
  <2>2. \A t \in Slots : Head(intents) \in SlotIntents(t) => t = s
    BY <2>1 DEF SlotIntents, SpawnConnHandler, CloseFixed, Intent
  <2>3. ~NoneIn(sq', CloseSqes(s))
    <3>1. CloseSqe(current, s) \in CloseSqes(s)
      BY <2>1 DEF CloseSqes, CloseSqe
    <3> QED
      BY <1>3, <2>1, <3>1, NoneAppended
  <2> QED
    BY <1>9, <2>1, <2>2, <2>3
<1>12. CASE CompleteSpawn
  <2>1. PICK i \in 0 .. NHandlers - 1, s \in Slots :
           /\ current = TcpHandle /\ Head(intents) = SpawnConnHandler(s) /\ ~Live(i)
           /\ conn_data' = [conn_data EXCEPT ![i] = NewConnHandler(s, files[s])]
           /\ sq' = sq
    BY <1>12, SpawnStep
  <2>2. \A t \in Slots : Head(intents) \in SlotIntents(t) => t = s
    BY <2>1 DEF SlotIntents, SpawnConnHandler, CloseFixed, Intent
  <2>3. /\ conn_data'[i] = NewConnHandler(s, files[s])
        /\ \A j \in (0 .. NHandlers - 1) \ {i} : conn_data'[j] = conn_data[j]
    BY <2>1 DEF TypeOK
  <2>4. conn_data'[i] # None
    <3>1. files[s] \in Conns \cup {None}
      BY DEF TypeOK
    <3>2. NewConnHandler(s, files[s]) \in ConnHandlers
      BY <3>1, NewMachineType
    <3> QED
      BY <2>3, <3>2, MachineAssumption
  <2>5. ServesSlot(i, s)'
    BY <1>3, <2>3, <2>4 DEF ServesSlot, Fresh, Live, NewConnHandler
  <2>6. \A j \in 0 .. NHandlers - 1 : \A t \in Slots : ServesSlot(j, t) => ServesSlot(j, t)'
    BY <1>3, <2>1, <2>3 DEF ServesSlot, Fresh, Live
  <2>7. TerminatesUnserving'
    <3>1. intents' \in Seq(IntentsOf(TcpHandle))
      BY <1>2, <1>3, <2>1, PopType
    <3>2. NoneIn(intents', {Terminate})
      BY <3>1, ListenerTerminatesNothing DEF NoneIn
    <3> QED
      BY <3>2 DEF TerminatesUnserving
  <2> QED
    BY <1>3, <1>6, <2>1, <2>2, <2>5, <2>6, <2>7 DEF SlotsHeld
<1>13. CASE CompleteTerminate
  <2>1. /\ current \in ConnHandles /\ Head(intents) = Terminate /\ sq' = sq
        /\ conn_alloc' = AfterFree(conn_alloc, current)
        /\ conn_data' = IF IsValid(conn_alloc, current)
                        THEN [conn_data EXCEPT ![current.index] = None] ELSE conn_data
    BY <1>13, TerminateStep
  <2>2. CASE ~IsValid(conn_alloc, current)
    <3>1. UNCHANGED <<conn_alloc, conn_data>>
      BY <2>1, <2>2 DEF AfterFree
    <3>2. AcceptMulti(TcpHandle) \in Sqes
      BY DEF Sqes
    <3> QED
      BY <1>7, <1>9, <2>1, <3>1, <3>2
  <2>3. CASE IsValid(conn_alloc, current)
    <3>1. ~Fresh(current.index)
      <4>1. ~NoneIn(intents, {Terminate})
        BY <1>4, <2>1
      <4> QED
        BY <2>3, <4>1 DEF SlotsHeld, TerminatesUnserving
    <3>2. current.index \in 0 .. NHandlers - 1
      BY <2>1 DEF ConnHandles
    <3>3. /\ conn_data'[current.index] = None
          /\ \A j \in (0 .. NHandlers - 1) \ {current.index} : conn_data'[j] = conn_data[j]
      BY <2>1, <2>3, <3>2 DEF TypeOK
    <3>4. \A j \in 0 .. NHandlers - 1 : \A t \in Slots : ServesSlot(j, t) => ServesSlot(j, t)'
      BY <1>3, <3>1, <3>3 DEF ServesSlot, Fresh, Live
    <3>5. TerminatesUnserving'
      BY <1>3, <3>3 DEF TerminatesUnserving, Fresh, Live
    <3> QED
      BY <1>3, <1>6, <1>7, <2>1, <3>4, <3>5 DEF SlotsHeld
  <2> QED
    BY <2>2, <2>3
<1> QED
  BY <1>10, <1>11, <1>12, <1>13

(* Slots and the kernel's steps.                                           *)
LEMMA KernelHeld ==
  ASSUME TypeOK, TypeOK', SlotsHeld, QueueDrained, KernelStep, [Next]_vars
  PROVE  SlotsHeld'
<1>1. UNCHANGED <<intents, current, conn_alloc, conn_data, run_queues>>
  BY DEF KernelStep, EnterIssues, KernelAccepts, KernelRefuses, KernelReads, KernelFails,
         KernelEnds, ProgramUnchanged, loopVars, machineVars, contextVars
<1>2. ~Pop
  <2>1. ASSUME Pop PROVE FALSE
    <3>1. PopsEvent
      BY <2>1, PopWay
    <3>2. ThisQueue' = ThisQueue
      BY <1>1, <2>1 DEF Pop, ThisQueue
    <3> QED
      BY <3>1, <3>2, TailShorter, WayTypes DEF PopsEvent
  <2> QED
    BY <2>1
<1>3. files \in [Slots -> Conns \cup {None}] /\ sq \in Seq(Sqes)
  BY Zenon DEF TypeOK
<1>4. ASSUME NEW s \in Slots, files'[s] # None
      PROVE  \/ ~Nowhere(AcceptEvents(s))'
             \/ files'[s] = files[s] /\ (NoneIn(sq', CloseSqes(s)) => NoneIn(sq, CloseSqes(s)))
  <2>1. CASE KernelAccepts
    <3>1. PICK t \in Slots, c \in Conns, more \in BOOLEAN :
            /\ files' = [files EXCEPT ![t] = c]
            /\ cq' = Append(cq, Cqe(TcpHandle, t, more)) /\ sq' = sq
      BY <2>1 DEF KernelAccepts, AcceptCompletes, Post
    <3> DEFINE r == Cqe(TcpHandle, t, more)
    <3>2. r \in Cqes
      BY DEF Cqe, Cqes, AcceptResults, Slots
    <3>3. r.user = TcpHandle /\ r.res = t
      BY DEF Cqe
    <3> HIDE DEF r
    <3>4. EventOf(r) \in AcceptEvents(t)
      BY <3>2, <3>3, EventOfType DEF AcceptEvents, TcpCompletions
    <3>5. Posted' = Append(Posted, EventOf(r))
      BY <3>1, <3>2, PostedAppend DEF r
    <3>6. ~Nowhere(AcceptEvents(t))'
      <4>1. Posted \in Seq(RunQueueEvents) /\ EventOf(r) \in RunQueueEvents
        BY <3>2, EventOfType, WayTypes
      <4>2. ~NoneIn(Posted', AcceptEvents(t))
        BY <3>4, <3>5, <4>1, NoneAppended
      <4>3. AcceptEvents(t)' = AcceptEvents(t)
        BY DEF AcceptEvents, TcpCompletions
      <4> QED
        BY <4>2, <4>3 DEF Nowhere
    <3>7. CASE s = t
      BY <3>6, <3>7
    <3>8. CASE s # t
      BY <1>3, <3>1, <3>8
    <3> QED
      BY <3>7, <3>8
  <2>2. CASE EnterIssues
    <3> DEFINE e == Head(sq)
    <3>1. sq # << >> /\ sq' = Tail(sq) /\ (IssueAccept \/ IssueRecv \/ IssueClose)
      BY <2>2 DEF EnterIssues, Issue
    <3>2. e \in Sqes /\ (NoneIn(sq', CloseSqes(s)) /\ e \notin CloseSqes(s) => NoneIn(sq, CloseSqes(s)))
      BY <1>3, <3>1, PopType, NoneOfTail
    <3>3. CASE IssueAccept \/ IssueRecv
      BY <3>2, <3>3 DEF IssueAccept, IssueRecv, CloseSqes
    <3>4. CASE IssueClose
      <4>1. e.fixed \in Slots
        BY <3>2, <3>4 DEF IssueClose, Sqes, AcceptMulti
      <4>2. CASE e.fixed = s
        BY <1>3, <1>4, <3>4, <4>1, <4>2 DEF IssueClose
      <4>3. CASE e.fixed # s
        <5>1. files'[s] = files[s]
          BY <1>3, <3>4, <4>3 DEF IssueClose
        <5>2. e \notin CloseSqes(s)
          BY <4>3 DEF CloseSqes
        <5> QED
          BY <3>2, <5>1, <5>2
      <4> QED
        BY <4>2, <4>3
    <3> QED
      BY <3>1, <3>3, <3>4
  <2>3. CASE KernelRefuses \/ KernelReads \/ KernelFails \/ \E c \in Conns : KernelEnds(c)
    <3>1. files' = files /\ sq' = sq
      BY <2>3 DEF KernelRefuses, KernelReads, KernelFails, KernelEnds, AcceptOverflows,
                  ReadCompletes, ReadFails, ReadEnds, Completes
    <3> QED
      BY <3>1
  <2> QED
    BY <2>1, <2>2, <2>3 DEF KernelStep
<1> QED
  BY <1>1, <1>2, <1>4, QuietHeld

(* Slots and the events that machines handle.                              *)
LEMMA DispatchHeld ==
  ASSUME TypeOK, TypeOK', SlotsHeld, ListenerOrder, QueueDrained, [Next]_vars, panic' = "no",
         DispatchTcp \/ DispatchConn \/ DispatchMissing
  PROVE  SlotsHeld'
<1>1. /\ Pop /\ NextEvent \in RunQueueEvents /\ current' = NextEvent.handle /\ intents = << >>
      /\ UNCHANGED <<conn_alloc, sq, files>>
  BY PopEventType DEF DispatchTcp, DispatchConn, DispatchMissing, ringVars, kernelVars
<1>2. NoneIn(intents, {Terminate}) /\ \A s : NoneIn(intents, SlotIntents(s))
  BY <1>1, NoneOfShort
<1>3. \A s \in Slots : Nowhere(AcceptEvents(s)) \/ ~Nowhere(AcceptEvents(s))'
                       \/ NextEvent \in AcceptEvents(s)
  BY StaysOnTheWay
<1>4. ASSUME NEW s \in Slots, files[s] # None,
             NextEvent \in AcceptEvents(s) => ~NoneIn(intents', SlotIntents(s)),
             \A i \in 0 .. NHandlers - 1 :
               ServesSlot(i, s) => ServesSlot(i, s)' \/ ~NoneIn(intents', SlotIntents(s))
      PROVE  Held(s)'
  <2>1. Held(s)
    BY <1>4 DEF SlotsHeld
  <2>2. SlotIntents(s)' = SlotIntents(s) /\ CloseSqes(s)' = CloseSqes(s)
    BY DEF SlotIntents, CloseSqes
  <2> QED
    BY <1>1, <1>2, <1>3, <1>4, <2>1, <2>2 DEF Held
<1>5. ASSUME conn_data' = conn_data
      PROVE  \A i \in 0 .. NHandlers - 1 : \A s \in Slots : ServesSlot(i, s) => ServesSlot(i, s)'
  BY <1>1, <1>5 DEF ServesSlot, Fresh, Live
<1>6. CASE DispatchTcp
  <2>1. /\ NextEvent.handle = TcpHandle /\ conn_data' = conn_data
        /\ TcpProcessEvent(NextEvent.reason)
    BY <1>1, <1>6, EventKinds DEF DispatchTcp
  <2>2. TerminatesUnserving'
    <3>1. intents' \in Seq(IntentsOf(TcpHandle))
      BY <1>1, <2>1 DEF TypeOK
    <3>2. NoneIn(intents', {Terminate})
      BY <3>1, ListenerTerminatesNothing DEF NoneIn
    <3> QED
      BY <3>2 DEF TerminatesUnserving
  <2>3. ASSUME NEW s \in Slots, NextEvent \in AcceptEvents(s)
        PROVE  ~NoneIn(intents', SlotIntents(s))
    <3>1. /\ NextEvent \in TcpCompletions /\ NextEvent.reason.kind = "IoCompleted"
          /\ NextEvent.reason.res = s /\ s >= 0
      BY <2>3 DEF AcceptEvents, TcpCompletions, Slots
    <3>2. tcp_listener = "Accepting"
      <4>1. ~NoneIn(ThisQueue, TcpCompletions)
        <5>1. PopsEvent
          BY <1>1, PopWay
        <5> QED
          BY <3>1, <5>1, WayTypes, NoneTail DEF PopsEvent
      <4> QED
        BY <4>1 DEF ListenerOrder, Nowhere
    <3>3. OnAccepted(s, NextEvent.reason.more)
      BY <2>1, <3>1, <3>2 DEF TcpProcessEvent, TcpExpects, OnListen, OnAcceptErr, Slots
    <3>4. 1 \in DOMAIN intents' /\ intents'[1] = SpawnConnHandler(s)
      <4>1. \A x, y : \A z \in {<< >>, <<y>>} : 1 \in DOMAIN (<<x>> \o z) /\ (<<x>> \o z)[1] = x
        OBVIOUS
      <4> QED
        BY <3>3, <4>1 DEF OnAccepted
    <3> QED
      BY <3>4 DEF NoneIn, SlotIntents
  <2> QED
    BY <1>1, <1>4, <1>5, <2>1, <2>2, <2>3 DEF SlotsHeld
<1>7. CASE DispatchMissing
  <2>1. conn_data' = conn_data /\ intents' = << >> /\ NextEvent.handle.pool = CONN_HANDLER
    BY <1>7 DEF DispatchMissing
  <2>2. \A s \in Slots : NextEvent \notin AcceptEvents(s)
    BY <2>1, HandleKinds DEF AcceptEvents, TcpCompletions
  <2>3. TerminatesUnserving'
    BY <2>1, NoneOfShort DEF TerminatesUnserving
  <2> QED
    BY <1>1, <1>4, <1>5, <2>1, <2>2, <2>3 DEF SlotsHeld
<1>8. CASE DispatchConn
  <2> DEFINE i == NextEvent.handle.index
             h == conn_data[i]
  <2>1. /\ NextEvent.handle \in ConnHandles /\ NextEvent.reason \in Events(Int)
        /\ Finds(NextEvent.handle) /\ ConnProcessEvent(i, NextEvent.reason)
        /\ NextEvent.handle.pool = CONN_HANDLER
    BY <1>1, <1>8, EventKinds DEF DispatchConn
  <2>2. i \in 0 .. NHandlers - 1 /\ h # None /\ h \in ConnHandlers
    BY <2>1 DEF ConnHandles, Finds, TypeOK
  <2>3. PICK g \in ConnHandlers :
          /\ conn_data' = [conn_data EXCEPT ![i] = g]
          /\ g.socket = h.socket /\ g.peer = h.peer
          /\ Answers(h, g, NextEvent.reason)
    BY <2>1, <2>2, ArmAnswers
  <2>4. /\ conn_data'[i] = g /\ g # None
        /\ \A j \in (0 .. NHandlers - 1) \ {i} : conn_data'[j] = conn_data[j]
    BY <2>2, <2>3, MachineAssumption DEF TypeOK
  <2>5. /\ h.state \in {"Init", "Recv"} /\ g.state \notin {"Init", "Recv"} =>
             ~NoneIn(intents', SlotIntents(h.socket))
        /\ ~NoneIn(intents', {Terminate}) => g.state = "Closed"
    BY <2>2, <2>3, ArmSlots
  <2> HIDE DEF h
  <2>6. ASSUME NEW j \in 0 .. NHandlers - 1, NEW s \in Slots, ServesSlot(j, s)
        PROVE  ServesSlot(j, s)' \/ ~NoneIn(intents', SlotIntents(s))
    <3>1. CASE j = i
      BY <1>1, <2>3, <2>4, <2>5, <2>6, <3>1 DEF ServesSlot, Fresh, Live, h
    <3>2. CASE j # i
      BY <1>1, <2>4, <2>6, <3>2 DEF ServesSlot, Fresh, Live
    <3> QED
      BY <3>1, <3>2
  <2>7. \A s \in Slots : NextEvent \notin AcceptEvents(s)
    BY <2>1, HandleKinds DEF AcceptEvents, TcpCompletions
  <2>8. TerminatesUnserving'
    BY <1>1, <2>4, <2>5 DEF TerminatesUnserving, Fresh
  <2> QED
    BY <1>1, <1>4, <2>6, <2>7, <2>8 DEF SlotsHeld
<1> QED
  BY <1>6, <1>7, <1>8

(* Every step.                                                             *)
LEMMA NextSlotsHeld ==
  ASSUME TypeOK, TypeOK', QueueDrained, panic = "no", panic' = "no", ListenerOrder, SlotsHeld,
         [Next]_vars
  PROVE  SlotsHeld'
<1>1. CASE KernelStep
  BY <1>1, KernelHeld
<1>2. CASE DispatchTcp \/ DispatchConn \/ DispatchMissing
  BY <1>2, DispatchHeld
<1>3. CASE \/ CompleteRetry \/ CompleteAccept \/ CompleteSpawn
           \/ CompleteRecv \/ CompleteClose \/ CompleteTerminate
  BY <1>3, IntentHeld
<1>4. ASSUME UNCHANGED <<intents, conn_alloc, conn_data, files, sq>>, ~Pop,
             current' = current \/ intents = << >>
      PROVE  SlotsHeld'
  <2>1. CASE current' = current
    BY <1>4, <2>1, QuietHeld
  <2>2. CASE intents = << >>
    <3>1. TerminatesUnserving'
      BY <1>4, <2>2, NoneOfShort DEF TerminatesUnserving
    <3>2. ASSUME NEW s \in Slots, files[s] # None PROVE Held(s)'
      <4>1. Nowhere(AcceptEvents(s)) \/ ~Nowhere(AcceptEvents(s))'
        BY <1>4, StaysOnTheWay DEF PopsEvent
      <4>2. \A i \in 0 .. NHandlers - 1 : ServesSlot(i, s) => ServesSlot(i, s)'
        BY <1>4 DEF ServesSlot, Fresh, Live
      <4>3. SlotIntents(s)' = SlotIntents(s) /\ CloseSqes(s)' = CloseSqes(s)
        BY DEF SlotIntents, CloseSqes
      <4>4. Held(s)
        BY <3>2 DEF SlotsHeld
      <4> QED
        BY <1>4, <4>1, <4>2, <4>3, <4>4 DEF Held
    <3> QED
      BY <1>4, <3>1, <3>2 DEF SlotsHeld
  <2> QED
    BY <1>4, <2>1, <2>2
<1>5. CASE \/ DrainDone \/ IntentsDone \/ SubmitShortcut \/ SubmitEnter \/ EnterReturns
           \/ ReapDone \/ Reap
  <2>1. ~Pop
    <3>1. ASSUME Pop PROVE FALSE
      BY <1>5, <3>1 DEF Pop, DrainDone, IntentsDone, SubmitShortcut, SubmitEnter, EnterReturns,
                        ReapDone, Reap, At
    <3> QED
      BY <3>1
  <2>2. /\ UNCHANGED <<intents, conn_alloc, conn_data, files, sq>>
        /\ current' = current \/ intents = << >>
    <3>1. CASE Reap
      <4>1. \A site : Crash(site) => panic' = site
        BY DEF Crash
      <4> QED
        BY <3>1, <4>1 DEF Reap, contextVars, machineVars, kernelVars
    <3> QED
      BY <1>5, <3>1 DEF DrainDone, IntentsDone, SubmitShortcut, SubmitEnter, EnterReturns, ReapDone,
                 contextVars, machineVars, kernelVars, ringVars
  <2> QED
    BY <1>4, <2>1, <2>2
<1>6. CASE EnterError
  BY <1>6 DEF EnterError, Crash
<1>7. CASE UNCHANGED vars
  <2>1. ~Pop
    <3>1. ASSUME Pop PROVE FALSE
      BY <1>7, <3>1 DEF Pop, vars, loopVars
    <3> QED
      BY <3>1
  <2> QED
    BY <1>4, <1>7, <2>1, Zenon DEF vars, contextVars, machineVars, loopVars, ringVars, kernelVars
<1> QED
  BY <1>1, <1>2, <1>3, <1>5, <1>6, <1>7, Zenon DEF Next, Thread, KernelStep

LEMMA InitSlotsHeld ==
  ASSUME Init
  PROVE  QueueDrained /\ ListenerOrder /\ SlotsHeld
<1>1. /\ ThisQueue = <<RunQueueEvent(Spawn, TcpHandle)>> /\ NextQueue = << >> /\ Posted = << >>
      /\ pc = "drain"
  BY DEF Init, UringInit, ThisQueue, NextQueue, next_run_queue_idx, Posted
<1>2. RunQueueEvent(Spawn, TcpHandle) \notin TcpCompletions \cup LastEvents
  BY DEF RunQueueEvent, Spawn, TcpCompletions, LastEvents, Rearms
<1>3. Nowhere(TcpCompletions) /\ Nowhere(LastEvents)
  BY <1>1, <1>2, NoneOfShort DEF Nowhere
<1>4. QueueDrained
  BY <1>1 DEF QueueDrained
<1>5. InOrder(LastEvents, TcpCompletions)
  BY <1>3 DEF InOrder, Nowhere, NoneIn, Sorted
<1>6. SlotsHeld
  <2>1. NoneIn(intents, {Terminate}) /\ \A s \in Slots : files[s] = None
    BY NoneOfShort DEF Init, UringInit
  <2> QED
    BY <2>1 DEF SlotsHeld, TerminatesUnserving
<1> QED
  BY <1>3, <1>4, <1>5, <1>6 DEF ListenerOrder

(* After a panic nothing happens.                                          *)
LEMMA StaysRunning ==
  ASSUME [Next]_vars, panic' = "no"
  PROVE  panic = "no"
<1>1. CASE Next
  BY <1>1, Zenon DEF Next, Thread, Running, DispatchTcp, DispatchConn, DispatchMissing, Pop, DrainDone,
     CompleteRetry, CompleteAccept, CompleteSpawn, CompleteRecv, CompleteClose, CompleteTerminate,
     AtIntent, IntentsDone, SubmitShortcut, SubmitEnter, EnterIssues, EnterReturns, EnterError, At,
     Reap, ReapDone, KernelAccepts, KernelRefuses, KernelReads, KernelFails, KernelEnds
<1>2. CASE UNCHANGED vars
  BY <1>2 DEF vars, contextVars
<1> QED
  BY <1>1, <1>2

(* Until a panic stops the process. *)
SlotsInv ==
  /\ TypeOK /\ FailuresEnd /\ ArmedOnce /\ QueueDrained
  /\ panic = "no" => ListenerOrder /\ SlotsHeld

LEMMA SlotsAreAccountedFor == SlotsInv => SlotsAccountedFor
<1> SUFFICES ASSUME TypeOK, panic = "no", SlotsHeld, NEW s \in Slots, files[s] # None
             PROVE
    \/ \E k \in DOMAIN cq : cq[k].user = TcpHandle /\ cq[k].res = s
    \/ \E q \in {0, 1} : \E k \in DOMAIN run_queues[q] :
         LET e == run_queues[q][k]
         IN  e.handle = TcpHandle /\ e.reason.kind = "IoCompleted" /\ e.reason.res = s
    \/ \E k \in DOMAIN intents : intents[k] \in {SpawnConnHandler(s), CloseFixed(s)}
    \/ \E i \in 0 .. NHandlers - 1 :
         Live(i) /\ conn_data[i].socket = s /\ conn_data[i].peer = files[s]
    \/ \E k \in DOMAIN sq : sq[k].op = "close" /\ sq[k].fixed = s
  BY DEF SlotsInv, SlotsAccountedFor
<1>1. Held(s)
  BY DEF SlotsHeld
<1>2. CASE ~Nowhere(AcceptEvents(s))
  <2>1. ASSUME NEW k \in DOMAIN Posted, Posted[k] \in AcceptEvents(s)
        PROVE  \E j \in DOMAIN cq : cq[j].user = TcpHandle /\ cq[j].res = s
    <3>1. k \in DOMAIN cq /\ Posted[k] = EventOf(cq[k]) /\ cq[k] \in Cqes
      BY <2>1, WayTypes DEF Posted, TypeOK
    <3> QED
      BY <2>1, <3>1, EventOfType DEF AcceptEvents, TcpCompletions
  <2>2. ASSUME NEW q \in {0, 1}, NEW k \in DOMAIN run_queues[q],
               run_queues[q][k] \in AcceptEvents(s)
        PROVE  \E p \in {0, 1} : \E j \in DOMAIN run_queues[p] :
                 LET e == run_queues[p][j]
                 IN  e.handle = TcpHandle /\ e.reason.kind = "IoCompleted" /\ e.reason.res = s
    BY <2>2 DEF AcceptEvents, TcpCompletions
  <2> QED
    BY <1>2, <2>1, <2>2, WayTypes DEF Nowhere, NoneIn, ThisQueue, NextQueue
<1>3. CASE ~NoneIn(intents, SlotIntents(s))
  BY <1>3 DEF NoneIn, SlotIntents
<1>4. CASE \E i \in 0 .. NHandlers - 1 : ServesSlot(i, s)
  BY <1>4 DEF ServesSlot, Fresh
<1>5. CASE ~NoneIn(sq, CloseSqes(s))
  BY <1>5 DEF NoneIn, CloseSqes
<1> QED
  BY <1>1, <1>2, <1>3, <1>4, <1>5 DEF Held

(* A connection that an accept has put into a file slot is not forgotten,  *)
(* whatever errors reads meet and however often the executor comes back    *)
(* from submit_and_wait without having submitted: its completion, its      *)
(* SpawnConnHandler, a machine that serves it, or its close is there       *)
(* (tcp_server.rs:47-66, executor/mod.rs:122-182).  The completion that    *)
(* ends the multishot accept is the last one on its way, so no completion  *)
(* that carries a slot reaches a listener that has given up.               *)
THEOREM ExecSlotsAccountedFor == Spec => []SlotsAccountedFor
<1>1. Init => SlotsInv
  BY InitTypeOK, InitArmed, InitSlotsHeld DEF SlotsInv
<1>2. SlotsInv /\ [Next]_vars => SlotsInv'
  <2> SUFFICES ASSUME SlotsInv, [Next]_vars PROVE SlotsInv'
    OBVIOUS
  <2>1. TypeOK' /\ FailuresEnd' /\ ArmedOnce' /\ QueueDrained'
    BY NextTypeOK, NextArmed, NextDrained DEF SlotsInv
  <2>2. ASSUME panic' = "no" PROVE ListenerOrder' /\ SlotsHeld'
    <3>1. panic = "no"
      BY <2>2, StaysRunning
    <3> QED
      BY <2>1, <2>2, <3>1, NextListenerOrder, NextSlotsHeld DEF SlotsInv
  <2> QED
    BY <2>1, <2>2 DEF SlotsInv
<1>3. SlotsInv => SlotsAccountedFor
  BY SlotsAreAccountedFor
<1> QED
  BY <1>1, <1>2, <1>3, PTL DEF Spec
=============================================================================
