---------------------------- MODULE GenAlloc_proofs ---------------------------
(***************************************************************************)
(* Lemmas about the operations of the generational allocator, for every    *)
(* number of indices and every width of the generation counter.            *)
(***************************************************************************)
EXTENDS GenAlloc, SequenceTheorems, FiniteSetTheorems, TLAPS

USE GenSpanAssumption

-----------------------------------------------------------------------------
(* Queues: what pushing and popping leave behind. *)

(* Popping a non-empty queue gives an element of it and leaves a queue. *)
LEMMA PopType ==
  \A S : \A s \in Seq(S) : s # << >> => Head(s) \in S /\ Tail(s) \in Seq(S)
BY HeadTailProperties

(* Pushing an element of the right kind keeps the queue a queue of that kind. *)
LEMMA PushType == \A S : \A s \in Seq(S) : \A e \in S : Append(s, e) \in Seq(S)
BY AppendProperties

(* No element is in the queue twice. *)
NoRepeats(s) == \A j, k \in DOMAIN s : s[j] = s[k] => j = k

Occurs(s, e) == \E k \in DOMAIN s : s[k] = e

(* Popping takes the one occurrence of the head. *)
LEMMA PopExact ==
  ASSUME NEW S, NEW s \in Seq(S), s # << >>, NoRepeats(s)
  PROVE  /\ NoRepeats(Tail(s))
         /\ Occurs(s, Head(s))
         /\ \A e : Occurs(Tail(s), e) <=> Occurs(s, e) /\ e # Head(s)
<1>1. /\ DOMAIN s = 1 .. Len(s) /\ Len(s) \in Nat /\ Len(s) # 0
      /\ Tail(s) \in Seq(S) /\ DOMAIN Tail(s) = 1 .. Len(s) - 1
      /\ \A k \in 1 .. Len(s) - 1 : Tail(s)[k] = s[k + 1]
      /\ Head(s) = s[1]
  BY HeadTailProperties
<1>2. NoRepeats(Tail(s))
  <2> SUFFICES ASSUME NEW j \in 1 .. Len(s) - 1, NEW k \in 1 .. Len(s) - 1,
                      Tail(s)[j] = Tail(s)[k]
               PROVE  j = k
    BY <1>1 DEF NoRepeats
  <2>1. j + 1 \in DOMAIN s /\ k + 1 \in DOMAIN s /\ s[j + 1] = s[k + 1]
    BY <1>1
  <2>2. j + 1 = k + 1
    BY <2>1 DEF NoRepeats
  <2> QED
    BY <2>2
<1>3. Occurs(s, Head(s))
  BY <1>1 DEF Occurs
<1>4. ASSUME NEW e, Occurs(Tail(s), e) PROVE Occurs(s, e) /\ e # Head(s)
  <2>1. PICK k \in 1 .. Len(s) - 1 : Tail(s)[k] = e
    BY <1>1, <1>4 DEF Occurs
  <2>2. k + 1 \in DOMAIN s /\ s[k + 1] = e /\ k + 1 # 1 /\ 1 \in DOMAIN s
    BY <1>1, <2>1
  <2> QED
    BY <1>1, <2>2 DEF Occurs, NoRepeats
<1>5. ASSUME NEW e, Occurs(s, e), e # Head(s) PROVE Occurs(Tail(s), e)
  <2>1. PICK k \in 1 .. Len(s) : s[k] = e
    BY <1>1, <1>5 DEF Occurs
  <2>2. k # 1
    BY <1>1, <1>5, <2>1
  <2>3. k - 1 \in 1 .. Len(s) - 1 /\ (k - 1) + 1 = k
    BY <1>1, <2>1, <2>2
  <2>4. Tail(s)[k - 1] = e
    BY <1>1, <2>1, <2>3
  <2> QED
    BY <1>1, <2>3, <2>4 DEF Occurs
<1> QED
  BY <1>2, <1>3, <1>4, <1>5

(* Pushing an element that is not there adds its one occurrence. *)
LEMMA PushExact ==
  ASSUME NEW S, NEW s \in Seq(S), NEW e \in S, NoRepeats(s), ~Occurs(s, e)
  PROVE  /\ NoRepeats(Append(s, e))
         /\ \A f : Occurs(Append(s, e), f) <=> Occurs(s, f) \/ f = e
<1> DEFINE t == Append(s, e)
<1>1. /\ DOMAIN s = 1 .. Len(s) /\ Len(s) \in Nat
      /\ t \in Seq(S) /\ DOMAIN t = 1 .. Len(s) + 1
      /\ \A k \in 1 .. Len(s) : t[k] = s[k]
      /\ t[Len(s) + 1] = e
  BY AppendProperties
<1> HIDE DEF t
<1>2. \A k \in 1 .. Len(s) : t[k] # e
  BY <1>1 DEF Occurs
<1>3. \A k \in 1 .. Len(s) + 1 : k \in 1 .. Len(s) \/ k = Len(s) + 1
  BY <1>1
<1>4. Len(s) + 1 \in 1 .. Len(s) + 1 /\ \A k \in 1 .. Len(s) : k \in 1 .. Len(s) + 1
  BY <1>1
<1>5. NoRepeats(t)
  BY <1>1, <1>2, <1>3 DEF NoRepeats
<1>6. \A f : Occurs(t, f) <=> Occurs(s, f) \/ f = e
  BY <1>1, <1>3, <1>4, Zenon DEF Occurs
<1> QED
  BY <1>5, <1>6 DEF t

(* A list of indices without repeats that lacks one of n is shorter than n.*)
LEMMA NotFull ==
  ASSUME NEW n \in Nat, NEW s \in Seq(0 .. n - 1), NoRepeats(s),
         NEW i \in 0 .. n - 1, ~Occurs(s, i)
  PROVE  Len(s) < n
<1> DEFINE D == 1 .. Len(s)
           R == (0 .. n - 1) \ {i}
<1>1. DOMAIN s = D /\ Len(s) \in Nat
  OBVIOUS
<1>2. IsFiniteSet(D) /\ Cardinality(D) = Len(s)
  <2>1. 1 \in Int /\ Len(s) \in Int
    BY <1>1
  <2>2. IsFiniteSet(1 .. Len(s)) /\ Cardinality(1 .. Len(s)) = IF 1 > Len(s) THEN 0 ELSE Len(s) - 1 + 1
    BY <2>1, FS_Interval, Zenon
  <2> QED
    BY <1>1, <2>2
<1>3. IsFiniteSet(R) /\ Cardinality(R) = n - 1
  <2>1. IsFiniteSet(0 .. n - 1) /\ Cardinality(0 .. n - 1) = IF 0 > n - 1 THEN 0 ELSE (n - 1) - 0 + 1
    BY FS_Interval
  <2>2. Cardinality(0 .. n - 1) = n
    BY <2>1
  <2>3. /\ IsFiniteSet((0 .. n - 1) \ {i})
        /\ Cardinality((0 .. n - 1) \ {i})
              = IF i \in 0 .. n - 1 THEN Cardinality(0 .. n - 1) - 1 ELSE Cardinality(0 .. n - 1)
    BY <2>1, FS_RemoveElement, Zenon
  <2> QED
    BY <2>2, <2>3, Zenon
<1>4. s \in [D -> R]
  <2>1. \A k \in D : s[k] \in 0 .. n - 1 /\ s[k] # i
    BY <1>1 DEF Occurs
  <2> QED
    BY <1>1, <2>1
<1> HIDE DEF D, R
<1>5. ~(Cardinality(R) < Cardinality(D))
  <2>f. IsFiniteSet(D) /\ IsFiniteSet(R)
    BY <1>2, <1>3
  <2>1. ASSUME Cardinality(R) < Cardinality(D)
        PROVE  \E j, k \in D : j # k /\ s[j] = s[k]
    BY <1>4, <2>f, <2>1, FS_PigeonHole
  <2> QED
    BY <1>1, <2>1, Zenon DEF NoRepeats
<1> QED
  BY <1>1, <1>2, <1>3, <1>5

-----------------------------------------------------------------------------
(* The allocator. *)

(* A fresh allocator (GenAlloc::new) is an allocator of its size. *)
LEMMA NewAllocType == \A n \in Nat : NewAlloc(n) \in GenAllocs(n)
BY DEF NewAlloc, GenAllocs

(* What alloc() hands out and leaves behind. *)
LEMMA AllocType ==
  ASSUME NEW n \in Nat, NEW a \in GenAllocs(n), CanAlloc(a)
  PROVE  /\ AllocId(a) \in [index : 0 .. n - 1, generation : 0 .. GenSpan - 1]
         /\ AllocId(a) \in GenId
         /\ AfterAlloc(a) \in GenAllocs(n)
<1>1. /\ a.generation \in [0 .. n - 1 -> 0 .. GenSpan - 1]
      /\ a.free_list \in Seq(0 .. n - 1)
      /\ a.free_list # << >>
  BY DEF GenAllocs, CanAlloc
<1>2. Head(a.free_list) \in 0 .. n - 1 /\ Tail(a.free_list) \in Seq(0 .. n - 1)
  BY <1>1, PopType
<1>3. a.generation[Head(a.free_list)] \in 0 .. GenSpan - 1
  BY <1>1, <1>2
<1>4. AllocId(a) \in [index : 0 .. n - 1, generation : 0 .. GenSpan - 1]
  BY <1>2, <1>3 DEF AllocId
<1>5. AllocId(a) \in GenId
  BY <1>2, <1>3 DEF AllocId, GenId
<1>6. AfterAlloc(a) \in GenAllocs(n)
  BY <1>1, <1>2 DEF AfterAlloc, GenAllocs
<1> QED
  BY <1>4, <1>5, <1>6

(* free() leaves an allocator behind, whatever id it is given. *)
LEMMA FreeType ==
  ASSUME NEW n \in Nat, NEW a \in GenAllocs(n), NEW id
  PROVE  AfterFree(a, id) \in GenAllocs(n)
<1>1. CASE IsValid(a, id)
  <2>1. /\ a.generation \in [0 .. n - 1 -> 0 .. GenSpan - 1]
        /\ a.free_list \in Seq(0 .. n - 1)
    BY DEF GenAllocs
  <2>2. id.index \in 0 .. n - 1
    BY <1>1, <2>1 DEF IsValid
  <2>3. NextGeneration(a.generation[id.index]) \in 0 .. GenSpan - 1
    <3>1. a.generation[id.index] \in Nat
      BY <2>1, <2>2
    <3> QED
      BY <3>1 DEF NextGeneration
  <2>4. [a.generation EXCEPT ![id.index] = NextGeneration(@)]
          \in [0 .. n - 1 -> 0 .. GenSpan - 1]
    BY <2>1, <2>2, <2>3
  <2>5. Append(a.free_list, id.index) \in Seq(0 .. n - 1)
    BY <2>1, <2>2, PushType
  <2> QED
    BY <1>1, <2>4, <2>5 DEF AfterFree, GenAllocs
<1>2. CASE ~IsValid(a, id)
  BY <1>2 DEF AfterFree
<1> QED
  BY <1>1, <1>2

(* A fresh free list has every index once. *)
LEMMA NewAllocExact ==
  ASSUME NEW n \in Nat
  PROVE  /\ NoRepeats(NewAlloc(n).free_list)
         /\ \A i \in 0 .. n - 1 : Occurs(NewAlloc(n).free_list, i)
<1>1. NewAlloc(n).free_list = [k \in 1 .. n |-> n - k]
  BY DEF NewAlloc
<1>2. ASSUME NEW i \in 0 .. n - 1 PROVE Occurs([k \in 1 .. n |-> n - k], i)
  <2>1. n - i \in 1 .. n /\ n - (n - i) = i
    OBVIOUS
  <2> QED
    BY <2>1 DEF Occurs
<1> QED
  BY <1>1, <1>2 DEF NoRepeats
=============================================================================
