--------------------------- MODULE ObjectPool_proofs --------------------------
(***************************************************************************)
(* Proofs about ObjectPool, for every capacity, every width of index and   *)
(* generation, and every sequence of calls with handles old and new.       *)
(***************************************************************************)
EXTENDS ObjectPool, GenAlloc_proofs

USE PoolAssumption, GenSpanAssumption

Ids == [index : 0 .. Indices - 1, generation : 0 .. GenSpan - 1]

-----------------------------------------------------------------------------
(* Quotient and remainder. *)

(* Division finds the one quotient and remainder there are. *)
LEMMA DivMod ==
  ASSUME NEW q \in Nat, NEW b \in Nat \ {0}, NEW r \in 0 .. b - 1
  PROVE  (q * b + r) \div b = q /\ (q * b + r) % b = r
<1> DEFINE a == q * b + r
           d == a \div b
           m == a % b
<1>1. a \in Nat
  OBVIOUS
<1>2. d \in Nat /\ m \in 0 .. b - 1 /\ a = d * b + m
  BY <1>1
<1>3. CASE d = q
  BY <1>2, <1>3
<1>4. CASE d < q
  <2>1. PICK k \in Nat : q = d + 1 + k
    <3>1. q - d - 1 \in Nat /\ q = d + 1 + (q - d - 1)
      BY <1>2, <1>4
    <3> QED
      BY <3>1
  <2>2. q * b = d * b + b + k * b /\ k * b \in Nat
    BY <1>2, <2>1
  <2> QED
    BY <1>2, <2>2
<1>5. CASE d > q
  <2>1. PICK k \in Nat : d = q + 1 + k
    <3>1. d - q - 1 \in Nat /\ d = q + 1 + (d - q - 1)
      BY <1>2, <1>5
    <3> QED
      BY <3>1
  <2>2. d * b = q * b + b + k * b /\ k * b \in Nat
    BY <1>2, <2>1
  <2> QED
    BY <1>2, <2>2
<1> QED
  BY <1>2, <1>3, <1>4, <1>5

(* A capacity masks to indices that fit the mask and the array. *)
LEMMA IndicesBound ==
  Indices \in Nat \ {0} /\ Indices <= IndexSpan /\ Indices <= Capacity
<1>1. Capacity = (Capacity \div IndexSpan) * IndexSpan + Indices
      /\ Capacity \div IndexSpan \in Nat /\ Indices \in 0 .. IndexSpan - 1
  BY DEF Indices
<1>2. (Capacity \div IndexSpan) * IndexSpan \in Nat
  BY <1>1
<1> QED
  BY <1>1, <1>2

(* The increment of a generation wraps at the end and nowhere else. *)
LEMMA NextGenerationWraps ==
  ASSUME NEW g \in 0 .. GenSpan - 1
  PROVE  NextGeneration(g) = IF g + 1 = GenSpan THEN 0 ELSE g + 1
BY DEF NextGeneration

(* What new, pool_id, index and generation of ObjectHandle do to a u64     *)
(* cancels out: the three fields do not overlap, whatever their widths     *)
(* (alloc.rs:253-271).                                                     *)
THEOREM HandleFields ==
  ASSUME NEW id \in Ids
  PROVE  /\ Pack(id) \in Nat
         /\ pool_id(Pack(id)) = ID
         /\ Unpack(Pack(id)) = id
<1> DEFINE i == id.index
           g == id.generation
           high == ID * IndexSpan + i
           h == high * GenSpan + g
<1>1. i \in 0 .. IndexSpan - 1 /\ g \in 0 .. GenSpan - 1 /\ Pack(id) = h
  BY IndicesBound DEF Ids, Pack
<1>2. high \in Nat /\ h \in Nat
  <2>1. ID * IndexSpan \in Nat
    OBVIOUS
  <2>2. high \in Nat
    BY <1>1, <2>1
  <2> HIDE DEF high
  <2>3. high * GenSpan \in Nat
    BY <2>2
  <2> QED
    BY <1>1, <2>2, <2>3
<1>3. h \div GenSpan = high /\ h % GenSpan = g
  <2> HIDE DEF high, g
  <2> QED
    BY <1>1, <1>2, DivMod
<1>4. high \div IndexSpan = ID /\ high % IndexSpan = i
  <2> HIDE DEF i
  <2> QED
    BY <1>1, DivMod
<1>5. h \div (IndexSpan * GenSpan) = ID
  <2> DEFINE b == IndexSpan * GenSpan
             r == i * GenSpan + g
  <2>1. b \in Nat \ {0} /\ i * GenSpan \in Nat
    BY <1>1
  <2>2. h = ID * b + r
    BY <1>1
  <2>3. r \in 0 .. b - 1
    <3>1. PICK k \in Nat : IndexSpan = i + 1 + k
      <4>1. IndexSpan - i - 1 \in Nat /\ IndexSpan = i + 1 + (IndexSpan - i - 1)
        BY <1>1
      <4> QED
        BY <4>1
    <3>2. b = i * GenSpan + GenSpan + k * GenSpan /\ k * GenSpan \in Nat
      BY <1>1, <3>1
    <3> QED
      BY <1>1, <2>1, <3>2
  <2> HIDE DEF b, r, h
  <2>4. h \div b = ID
    BY <2>1, <2>2, <2>3, DivMod
  <2> QED
    BY <2>4 DEF b
<1> HIDE DEF h, high
<1>6. pool_id(Pack(id)) = ID
  BY <1>1, <1>5 DEF pool_id
<1>7. IndexIn(Pack(id)) = i /\ GenerationIn(Pack(id)) = g
  BY <1>1, <1>3, <1>4 DEF IndexIn, GenerationIn
<1>8. id = [index |-> i, generation |-> g]
  BY DEF Ids
<1>9. Pack(id) \in Nat
  BY <1>1, <1>2
<1> QED
  BY <1>6, <1>7, <1>8, <1>9 DEF Unpack

(* A handle that was packed unpacks to the same id. *)
LEMMA HandleUnpacks ==
  ASSUME NEW h \in {Pack(id) : id \in Ids}
  PROVE  /\ Unpack(h) \in Ids
         /\ Unpack(h) = [index |-> IndexIn(h), generation |-> GenerationIn(h)]
         /\ IndexIn(h) \in 0 .. Indices - 1
         /\ GenerationIn(h) \in 0 .. GenSpan - 1
         /\ Pack(Unpack(h)) = h
<1>1. PICK id \in Ids : h = Pack(id)
  OBVIOUS
<1>2. Unpack(h) = id
  BY <1>1, HandleFields
<1>3. id = [index |-> IndexIn(h), generation |-> GenerationIn(h)]
  BY <1>2 DEF Unpack
<1> QED
  BY <1>1, <1>2, <1>3 DEF Ids

-----------------------------------------------------------------------------
(* The inductive invariant.  The free list has each empty cell once; and   *)
(* the generation of an index has moved on from that of a handle as often  *)
(* as the index was freed since, so a handle that is still held is valid   *)
(* only while its own object is in the cell.                               *)
FreeInv ==
  /\ NoRepeats(alloc.free_list)
  /\ \A i \in 0 .. Indices - 1 : Occurs(alloc.free_list, i) <=> data[i] = None
  /\ panic \in {"no", "generation overflow"}

(* Generation g after n increments, of which at most one wraps. *)
Later(g, n) == IF g + n < GenSpan THEN g + n ELSE g + n - GenSpan

AgeInv ==
  \A h \in Held :
    /\ alloc.generation[IndexIn(h)] = Later(GenerationIn(h), age[h])
    /\ age[h] = 0 => data[IndexIn(h)] # None

Inv == TypeOK /\ FreeInv /\ AgeInv

(* What the type invariant says, in the words of this module. *)
LEMMA Types ==
  ASSUME TypeOK
  PROVE  /\ alloc.generation \in [0 .. Indices - 1 -> 0 .. GenSpan - 1]
         /\ alloc.free_list \in Seq(0 .. Indices - 1)
         /\ data \in [0 .. Capacity - 1 -> Objects \cup {None}]
         /\ 0 .. Indices - 1 \subseteq 0 .. Capacity - 1
         /\ DOMAIN age \subseteq {Pack(id) : id \in Ids}
         /\ \A h \in DOMAIN age : age[h] \in 0 .. GenSpan
<1>1. 0 .. Indices - 1 \subseteq 0 .. Capacity - 1
  BY IndicesBound
<1> QED
  BY <1>1 DEF TypeOK, GenAllocs, Ids

(* The fresh pool satisfies the invariant. *)
LEMMA InitInv == Init => Inv
<1> SUFFICES ASSUME Init PROVE Inv
  OBVIOUS
<1>1. alloc \in GenAllocs(Indices)
  BY IndicesBound, NewAllocType DEF Init
<1>2. age = << >> /\ DOMAIN age = {}
  BY DEF Init
<1>3. TypeOK
  BY <1>1, <1>2 DEF Init, TypeOK
<1>4. FreeInv
  <2>1. NoRepeats(alloc.free_list)
        /\ \A i \in 0 .. Indices - 1 : Occurs(alloc.free_list, i)
    BY IndicesBound, NewAllocExact DEF Init
  <2>2. \A i \in 0 .. Indices - 1 : data[i] = None
    BY IndicesBound DEF Init
  <2> QED
    BY <2>1, <2>2 DEF Init, FreeInv
<1>5. AgeInv
  BY <1>2 DEF AgeInv, Held
<1> QED
  BY <1>3, <1>4, <1>5 DEF Inv

(* A handle that is held and valid is the handle of a living object. *)
LEMMA ValidIsLive ==
  ASSUME Inv, NEW h \in Held, IsValid(alloc, Unpack(h))
  PROVE  /\ age[h] = 0
         /\ data[IndexIn(h)] # None
         /\ alloc.generation[IndexIn(h)] = GenerationIn(h)
<1>1. /\ IndexIn(h) \in 0 .. Indices - 1 /\ GenerationIn(h) \in 0 .. GenSpan - 1
      /\ age[h] \in 0 .. GenSpan - 1
  BY Types, HandleUnpacks DEF Inv, Held
<1>2. alloc.generation[IndexIn(h)] = GenerationIn(h)
  BY DEF IsValid, Unpack
<1>3. Later(GenerationIn(h), age[h]) = GenerationIn(h)
  BY <1>2 DEF Inv, AgeInv
<1>4. age[h] = 0
  BY <1>1, <1>3 DEF Later
<1> QED
  BY <1>2, <1>4 DEF Inv, AgeInv

(* The sites the source never panics at are not reached. *)
LEMMA NoBadPanic ==
  ASSUME Inv
  PROVE  /\ CanAlloc(alloc) => data[AllocId(alloc).index] = None
         /\ \A h \in Held : IsValid(alloc, Unpack(h)) => Len(alloc.free_list) # Indices
<1>1. ASSUME CanAlloc(alloc) PROVE data[AllocId(alloc).index] = None
  <2>1. Head(alloc.free_list) \in 0 .. Indices - 1
    BY <1>1, Types, PopType DEF CanAlloc, Inv
  <2>2. Occurs(alloc.free_list, Head(alloc.free_list))
    BY <1>1, Types, PopExact DEF CanAlloc, Inv, FreeInv
  <2> QED
    BY <2>1, <2>2 DEF Inv, FreeInv, AllocId
<1>2. ASSUME NEW h \in Held, IsValid(alloc, Unpack(h)) PROVE Len(alloc.free_list) # Indices
  <2>1. IndexIn(h) \in 0 .. Indices - 1 /\ data[IndexIn(h)] # None
    BY <1>2, ValidIsLive, Types, HandleUnpacks DEF Inv, Held
  <2>2. ~Occurs(alloc.free_list, IndexIn(h))
    BY <2>1 DEF Inv, FreeInv
  <2>3. Len(alloc.free_list) < Indices
    BY <2>1, <2>2, Types, IndicesBound, NotFull DEF Inv, FreeInv
  <2> QED
    BY <2>3, IndicesBound, Types DEF Inv
<1> QED
  BY <1>1, <1>2

-----------------------------------------------------------------------------
(* What a spawn that finds a free index does to the fields of the pool. *)
LEMMA SpawnTakes ==
  ASSUME Inv, NEW object \in Objects, spawn(object), CanAlloc(alloc)
  PROVE  LET id == AllocId(alloc)
             i == Head(alloc.free_list)
             g == alloc.generation[i]
         IN  /\ i \in 0 .. Indices - 1 /\ g \in 0 .. GenSpan - 1
             /\ id = [index |-> i, generation |-> g] /\ id \in Ids
             /\ data[i] = None /\ object # None
             /\ alloc' \in GenAllocs(Indices)
             /\ alloc'.generation = alloc.generation
             /\ alloc'.free_list = Tail(alloc.free_list)
             /\ data' = [data EXCEPT ![i] = object]
             /\ result' = <<"handle", Pack(id)>>
             /\ age' = [h \in DOMAIN age \cup {Pack(id)} |-> IF h = Pack(id) THEN 0 ELSE age[h]]
             /\ UNCHANGED <<overflow_checks, panic>>
<1> DEFINE id == AllocId(alloc)
           i == Head(alloc.free_list)
           g == alloc.generation[i]
<1>1. data[i] = None
  BY NoBadPanic DEF AllocId
<1>2. /\ alloc' = AfterAlloc(alloc)
      /\ data' = [data EXCEPT ![i] = object]
      /\ result' = <<"handle", Pack(id)>>
      /\ age' = [h \in DOMAIN age \cup {Pack(id)} |-> IF h = Pack(id) THEN 0 ELSE age[h]]
      /\ UNCHANGED <<overflow_checks, panic>>
  BY <1>1 DEF spawn, AllocId
<1>3. id \in Ids /\ alloc' \in GenAllocs(Indices) /\ id = [index |-> i, generation |-> g]
  BY <1>2, IndicesBound, AllocType DEF Inv, TypeOK, Ids, AllocId
<1>4. i \in 0 .. Indices - 1 /\ g \in 0 .. GenSpan - 1
  BY <1>3 DEF Ids
<1>5. alloc'.generation = alloc.generation /\ alloc'.free_list = Tail(alloc.free_list)
  BY <1>2, Types DEF AfterAlloc, Inv, TypeOK, GenAllocs
<1> HIDE DEF id, i, g
<1> QED
  BY <1>1, <1>2, <1>3, <1>4, <1>5 DEF id, i, g

(* spawn takes the head of the free list. *)
LEMMA SpawnInv ==
  ASSUME Inv, NEW object \in Objects, spawn(object)
  PROVE  Inv'
<1>1. CASE ~CanAlloc(alloc)
  BY <1>1 DEF spawn, Inv, TypeOK, FreeInv, AgeInv, Held
<1>2. CASE CanAlloc(alloc)
  <2> DEFINE id == AllocId(alloc)
             i == Head(alloc.free_list)
             g == alloc.generation[i]
  <2>t. /\ alloc.free_list \in Seq(0 .. Indices - 1)
        /\ data \in [0 .. Capacity - 1 -> Objects \cup {None}]
        /\ 0 .. Indices - 1 \subseteq 0 .. Capacity - 1
        /\ DOMAIN age \subseteq {Pack(x) : x \in Ids}
        /\ \A h \in DOMAIN age : age[h] \in 0 .. GenSpan
    BY Types DEF Inv
  <2>1. /\ data' = [data EXCEPT ![i] = object]
        /\ age' = [h \in DOMAIN age \cup {Pack(id)} |-> IF h = Pack(id) THEN 0 ELSE age[h]]
        /\ UNCHANGED <<overflow_checks, panic>>
    BY <1>2, SpawnTakes
  <2>2. id \in Ids /\ alloc' \in GenAllocs(Indices) /\ id = [index |-> i, generation |-> g]
    BY <1>2, SpawnTakes
  <2>3. /\ alloc'.generation = alloc.generation
        /\ alloc'.free_list = Tail(alloc.free_list)
    BY <1>2, SpawnTakes
  <2>4. /\ i \in 0 .. Indices - 1 /\ g \in 0 .. GenSpan - 1
        /\ data[i] = None
        /\ NoRepeats(Tail(alloc.free_list))
        /\ \A e : Occurs(Tail(alloc.free_list), e) <=> Occurs(alloc.free_list, e) /\ e # i
    <3>1. alloc.free_list # << >>
      BY <1>2 DEF CanAlloc
    <3>2. i \in 0 .. Indices - 1 /\ g \in 0 .. GenSpan - 1 /\ data[i] = None
      BY <1>2, SpawnTakes
    <3> QED
      BY <2>t, <3>1, <3>2, PopExact DEF Inv, FreeInv
  <2> HIDE DEF id, i, g
  <2>5. \A h \in DOMAIN age' : age'[h] \in 0 .. GenSpan
    BY <2>1, <2>t
  <2>6. TypeOK'
    <3>1. data' \in [0 .. Capacity - 1 -> Objects \cup {None}]
      BY <2>1, <2>t, <2>4
    <3>2. DOMAIN age' \subseteq {Pack(x) : x \in Ids}
      BY <2>1, <2>2, <2>t
    <3> QED
      BY <2>1, <2>2, <2>5, <3>1, <3>2 DEF Inv, TypeOK, Ids
  <2>7. FreeInv'
    <3>1. object # None
      OBVIOUS
    <3>2. \A k \in 0 .. Indices - 1 : data'[k] = IF k = i THEN object ELSE data[k]
      BY <2>1, <2>t
    <3> QED
      BY <2>1, <2>3, <2>4, <3>1, <3>2 DEF Inv, FreeInv
  <2>8. AgeInv'
    <3> SUFFICES ASSUME NEW h \in DOMAIN age', age'[h] < GenSpan
                 PROVE  /\ alloc'.generation[IndexIn(h)] = Later(GenerationIn(h), age'[h])
                        /\ age'[h] = 0 => data'[IndexIn(h)] # None
      BY DEF AgeInv, Held, Later
    <3>1. CASE h = Pack(id)
      <4>1. IndexIn(h) = i /\ GenerationIn(h) = g
        BY <2>2, <3>1, HandleFields DEF Unpack
      <4>2. age'[h] = 0 /\ data'[i] = object /\ object # None
        BY <2>1, <2>4, <2>t, <3>1
      <4>3. Later(g, 0) = g
        BY <2>4 DEF Later
      <4> QED
        BY <2>3, <4>1, <4>2, <4>3 DEF g
    <3>2. CASE h # Pack(id)
      <4>1. h \in Held /\ age'[h] = age[h]
        BY <2>1, <3>2 DEF Held
      <4>2. IndexIn(h) \in 0 .. Indices - 1
        BY <2>t, <4>1, HandleUnpacks DEF Held
      <4>3. /\ alloc.generation[IndexIn(h)] = Later(GenerationIn(h), age[h])
            /\ age[h] = 0 => data[IndexIn(h)] # None
        BY <4>1 DEF Inv, AgeInv
      <4>4. age[h] = 0 => data'[IndexIn(h)] = data[IndexIn(h)]
        BY <2>1, <2>4, <2>t, <4>2, <4>3
      <4> QED
        BY <2>3, <4>1, <4>3, <4>4
    <3> QED
      BY <3>1, <3>2
  <2> QED
    BY <2>6, <2>7, <2>8 DEF Inv
<1> QED
  BY <1>1, <1>2

(* What a despawn that frees an index does to the fields of the pool. *)
LEMMA DespawnFrees ==
  ASSUME Inv, NEW handle \in Held, despawn(handle), IsValid(alloc, Unpack(handle)),
         ~(overflow_checks /\ Overflows(alloc, Unpack(handle)))
  PROVE  LET i == IndexIn(handle)
             g == GenerationIn(handle)
         IN  /\ i \in 0 .. Indices - 1 /\ g \in 0 .. GenSpan - 1
             /\ age[handle] = 0
             /\ data[i] # None
             /\ alloc.generation[i] = g
             /\ alloc' \in GenAllocs(Indices)
             /\ alloc'.generation
                  = [alloc.generation EXCEPT ![i] = IF g + 1 = GenSpan THEN 0 ELSE g + 1]
             /\ alloc'.free_list = Append(alloc.free_list, i)
             /\ data' = [data EXCEPT ![i] = None]
             /\ result' = <<"true">>
             /\ age' = Aged(handle)
             /\ UNCHANGED <<overflow_checks, panic>>
<1> DEFINE i == IndexIn(handle)
           g == GenerationIn(handle)
<1>1. i \in 0 .. Indices - 1 /\ g \in 0 .. GenSpan - 1
  BY Types, HandleUnpacks DEF Inv, Held
<1>2. age[handle] = 0 /\ data[i] # None /\ alloc.generation[i] = g
  BY ValidIsLive
<1>3. Len(alloc.free_list) # Indices
  BY NoBadPanic
<1>4. /\ alloc' = AfterFree(alloc, Unpack(handle))
      /\ data' = [data EXCEPT ![i] = None]
      /\ result' = <<"true">>
      /\ age' = Aged(handle)
      /\ UNCHANGED <<overflow_checks, panic>>
  BY <1>3 DEF despawn
<1>5. alloc' \in GenAllocs(Indices)
  BY <1>4, IndicesBound, FreeType DEF Inv, TypeOK
<1>6. /\ alloc'.generation = [alloc.generation EXCEPT ![i] = NextGeneration(@)]
      /\ alloc'.free_list = Append(alloc.free_list, i)
  BY <1>4 DEF AfterFree, Unpack
<1>7. alloc.generation \in [0 .. Indices - 1 -> 0 .. GenSpan - 1]
  BY Types DEF Inv
<1>8. alloc'.generation = [alloc.generation EXCEPT ![i] = IF g + 1 = GenSpan THEN 0 ELSE g + 1]
  <2>1. NextGeneration(g) = IF g + 1 = GenSpan THEN 0 ELSE g + 1
    BY <1>1, NextGenerationWraps
  <2> QED
    BY <1>2, <1>6, <2>1
<1> QED
  BY <1>1, <1>2, <1>4, <1>5, <1>6, <1>8

(* despawn puts the index of a living object at the end of the free list,  *)
(* and does nothing for any other handle that is held.                     *)
LEMMA DespawnInv ==
  ASSUME Inv, NEW handle \in Held, despawn(handle)
  PROVE  Inv'
<1>t. /\ alloc.generation \in [0 .. Indices - 1 -> 0 .. GenSpan - 1]
      /\ alloc.free_list \in Seq(0 .. Indices - 1)
      /\ data \in [0 .. Capacity - 1 -> Objects \cup {None}]
      /\ 0 .. Indices - 1 \subseteq 0 .. Capacity - 1
      /\ DOMAIN age \subseteq {Pack(x) : x \in Ids}
      /\ \A h \in DOMAIN age : age[h] \in 0 .. GenSpan
  BY Types DEF Inv
<1>1. CASE ~IsValid(alloc, Unpack(handle))
  BY <1>1 DEF despawn, Inv, TypeOK, FreeInv, AgeInv, Held
<1>2. CASE IsValid(alloc, Unpack(handle)) /\ overflow_checks /\ Overflows(alloc, Unpack(handle))
  BY <1>2 DEF despawn, Crash, Inv, TypeOK, FreeInv, AgeInv, Held
<1>3. CASE /\ IsValid(alloc, Unpack(handle))
           /\ ~(overflow_checks /\ Overflows(alloc, Unpack(handle)))
  <2> DEFINE i == IndexIn(handle)
             g == GenerationIn(handle)
  <2>1. /\ i \in 0 .. Indices - 1 /\ g \in 0 .. GenSpan - 1
        /\ age[handle] = 0
        /\ data[i] # None
        /\ alloc.generation[i] = g
        /\ alloc' \in GenAllocs(Indices)
        /\ alloc'.generation = [alloc.generation EXCEPT ![i] = IF g + 1 = GenSpan THEN 0 ELSE g + 1]
        /\ alloc'.free_list = Append(alloc.free_list, i)
        /\ data' = [data EXCEPT ![i] = None]
        /\ age' = Aged(handle)
        /\ UNCHANGED <<overflow_checks, panic>>
    BY <1>3, DespawnFrees
  <2> HIDE DEF i, g
  <2>2. /\ DOMAIN age' = DOMAIN age
        /\ \A h \in DOMAIN age :
             age'[h] = IF IndexIn(h) = i /\ h \in Held THEN age[h] + 1 ELSE age[h]
    BY <2>1 DEF Aged, i
  <2>3. TypeOK'
    <3>1. \A h \in DOMAIN age' : age'[h] \in 0 .. GenSpan
      BY <1>t, <2>2 DEF Held
    <3>2. data' \in [0 .. Capacity - 1 -> Objects \cup {None}]
      BY <1>t, <2>1
    <3> QED
      BY <2>1, <2>2, <3>1, <3>2 DEF Inv, TypeOK
  <2>4. FreeInv'
    <3>1. ~Occurs(alloc.free_list, i)
      BY <2>1 DEF Inv, FreeInv
    <3>2. /\ NoRepeats(Append(alloc.free_list, i))
          /\ \A e : Occurs(Append(alloc.free_list, i), e) <=> Occurs(alloc.free_list, e) \/ e = i
      <4>1. alloc.free_list \in Seq(0 .. Indices - 1) /\ i \in 0 .. Indices - 1
            /\ NoRepeats(alloc.free_list)
        BY <1>t, <2>1 DEF Inv, FreeInv
      <4> DEFINE list == alloc.free_list
                 S == 0 .. Indices - 1
      <4>2. list \in Seq(S) /\ i \in S /\ NoRepeats(list) /\ ~Occurs(list, i)
        BY <3>1, <4>1
      <4> HIDE DEF list, S
      <4>3. /\ NoRepeats(Append(list, i))
            /\ \A e : Occurs(Append(list, i), e) <=> Occurs(list, e) \/ e = i
        BY ONLY <4>2, PushExact
      <4> QED
        BY <4>3 DEF list
    <3>3. \A k \in 0 .. Indices - 1 : data'[k] = IF k = i THEN None ELSE data[k]
      BY <1>t, <2>1
    <3>4. alloc'.free_list = Append(alloc.free_list, i)
      BY <2>1
    <3>5. \A k \in 0 .. Indices - 1 : Occurs(alloc.free_list, k) <=> data[k] = None
      BY DEF Inv, FreeInv
    <3>6. \A k \in 0 .. Indices - 1 : Occurs(alloc'.free_list, k) <=> data'[k] = None
      BY <3>2, <3>3, <3>4, <3>5
    <3> QED
      BY <2>1, <3>2, <3>4, <3>6 DEF Inv, FreeInv
  <2>5. AgeInv'
    <3> SUFFICES ASSUME NEW h \in DOMAIN age', age'[h] < GenSpan
                 PROVE  /\ alloc'.generation[IndexIn(h)] = Later(GenerationIn(h), age'[h])
                        /\ age'[h] = 0 => data'[IndexIn(h)] # None
      BY DEF AgeInv, Held, Later
    <3>1. h \in Held /\ age[h] \in 0 .. GenSpan - 1
      BY <1>t, <2>2 DEF Held
    <3>2. IndexIn(h) \in 0 .. Indices - 1 /\ GenerationIn(h) \in 0 .. GenSpan - 1
      BY <1>t, <3>1, HandleUnpacks DEF Held
    <3>3. /\ alloc.generation[IndexIn(h)] = Later(GenerationIn(h), age[h])
          /\ age[h] = 0 => data[IndexIn(h)] # None
      BY <3>1 DEF Inv, AgeInv
    <3>4. CASE IndexIn(h) = i
      <4>1. age'[h] = age[h] + 1 /\ age'[h] # 0
        BY <2>2, <3>1, <3>4
      <4>2. alloc'.generation[i] = IF g + 1 = GenSpan THEN 0 ELSE g + 1
        BY <1>t, <2>1
      <4>3. g = Later(GenerationIn(h), age[h])
        BY <2>1, <3>3, <3>4
      <4>4. Later(GenerationIn(h), age[h] + 1) = IF g + 1 = GenSpan THEN 0 ELSE g + 1
        BY <3>1, <3>2, <4>1, <4>3 DEF Later
      <4> QED
        BY <3>4, <4>1, <4>2, <4>4
    <3>5. CASE IndexIn(h) # i
      <4>1. age'[h] = age[h]
        BY <2>2, <3>1, <3>5
      <4>2. alloc'.generation[IndexIn(h)] = alloc.generation[IndexIn(h)]
        BY <1>t, <2>1, <3>2, <3>5
      <4>3. data'[IndexIn(h)] = data[IndexIn(h)]
        BY <1>t, <2>1, <3>2, <3>5
      <4> QED
        BY <3>3, <4>1, <4>2, <4>3
    <3> QED
      BY <3>4, <3>5
  <2> QED
    BY <2>3, <2>4, <2>5 DEF Inv
<1> QED
  BY <1>1, <1>2, <1>3

(* get changes nothing; get_mut replaces an object by another. *)
LEMMA GetInv ==
  ASSUME Inv, NEW handle \in Held,
         get(handle) \/ \E object \in Objects : get_mut(handle, object)
  PROVE  Inv'
<1>1. CASE get(handle)
  BY <1>1 DEF get, Inv, TypeOK, FreeInv, AgeInv, Held
<1>2. ASSUME NEW object \in Objects, get_mut(handle, object) PROVE Inv'
  <2>1. CASE Lookup(handle) = None
    BY <1>2, <2>1 DEF get_mut, Inv, TypeOK, FreeInv, AgeInv, Held
  <2>2. CASE Lookup(handle) # None
    <3>t. /\ data \in [0 .. Capacity - 1 -> Objects \cup {None}]
          /\ 0 .. Indices - 1 \subseteq 0 .. Capacity - 1
          /\ DOMAIN age \subseteq {Pack(x) : x \in Ids}
          /\ IndexIn(handle) \in 0 .. Indices - 1
      BY Types, HandleUnpacks DEF Inv, Held
    <3>1. /\ data' = [data EXCEPT ![IndexIn(handle)] = object]
          /\ UNCHANGED <<overflow_checks, alloc, panic, age>>
          /\ data[IndexIn(handle)] # None
          /\ object # None
      BY <1>2, <2>2 DEF get_mut, Lookup
    <3>2. \A k \in 0 .. Indices - 1 : data'[k] = None <=> data[k] = None
      BY <3>t, <3>1
    <3>3. TypeOK'
      BY <3>t, <3>1 DEF Inv, TypeOK
    <3>4. FreeInv'
      BY <3>1, <3>2 DEF Inv, FreeInv
    <3>5. AgeInv'
      <4>1. \A h \in Held : IndexIn(h) \in 0 .. Indices - 1
        BY <3>t, HandleUnpacks DEF Held
      <4> QED
        BY <3>1, <3>2, <4>1 DEF Inv, AgeInv, Held, Later
    <3> QED
      BY <3>3, <3>4, <3>5 DEF Inv
  <2> QED
    BY <2>1, <2>2
<1> QED
  BY <1>1, <1>2

(* Every call keeps the invariant. *)
LEMMA NextInv == Inv /\ [Next]_vars => Inv'
<1> SUFFICES ASSUME Inv, [Next]_vars PROVE Inv'
  OBVIOUS
<1>1. CASE UNCHANGED vars
  BY <1>1 DEF vars, Inv, TypeOK, FreeInv, AgeInv, Held, Later
<1> QED
  BY <1>1, SpawnInv, DespawnInv, GetInv DEF Next

(* The invariant holds in every reachable state. *)
LEMMA InvHolds == Spec => []Inv
BY InitInv, NextInv, PTL DEF Spec

(* Handles, cells and generations stay in range, whichever build and       *)
(* whatever old handles are presented (alloc.rs:187-271).                  *)
THEOREM PoolTypeOK == Spec => []TypeOK
<1>1. Inv => TypeOK
  BY DEF Inv
<1> QED
  BY <1>1, InvHolds, PTL

(* No index is in the free list twice or lost from it, so that the         *)
(* assertion in spawn and the unwrap in free never fail: for every         *)
(* capacity, and although despawn may be given handles whose index has     *)
(* been handed out again (alloc.rs:107, 198-204, 230-241).                 *)
THEOREM PoolFreeExact == Spec => []FreeExact
<1>1. Inv => FreeExact
  BY DEF Inv, FreeInv, FreeExact, NoRepeats, Occurs, IsFree
<1> QED
  BY <1>1, InvHolds, PTL

-----------------------------------------------------------------------------
(* The refinement.  The live handles are those of the indices that are     *)
(* taken, one for each.                                                    *)
Taken == {j \in 0 .. Indices - 1 : data[j] # None}

LiveHandles == {LiveHandle(i) : i \in Taken}

(* A live handle leads to its own index and has its generation. *)
LEMMA LiveFields ==
  ASSUME TypeOK, NEW i \in 0 .. Indices - 1
  PROVE  /\ LiveHandle(i) \in {Pack(id) : id \in Ids}
         /\ IndexIn(LiveHandle(i)) = i
         /\ GenerationIn(LiveHandle(i)) = alloc.generation[i]
<1> DEFINE id == [index |-> i, generation |-> alloc.generation[i]]
<1>1. id \in Ids
  BY Types DEF Ids
<1>2. Unpack(Pack(id)) = id
  BY <1>1, HandleFields
<1> QED
  BY <1>1, <1>2 DEF Unpack, LiveHandle

(* Of the handles that are held, those are live that is_valid accepts, and *)
(* get finds their object.                                                 *)
LEMMA HeldIsLive ==
  ASSUME Inv, NEW h \in Held
  PROVE  /\ h \in LiveHandles <=> age[h] = 0
         /\ IsValid(alloc, Unpack(h)) <=> age[h] = 0
         /\ age[h] = 0 => Lookup(h) = data[IndexIn(h)] /\ data[IndexIn(h)] # None
         /\ age[h] # 0 => Lookup(h) = None
<1>1. /\ IndexIn(h) \in 0 .. Indices - 1 /\ GenerationIn(h) \in 0 .. GenSpan - 1
      /\ Pack(Unpack(h)) = h
      /\ Unpack(h) = [index |-> IndexIn(h), generation |-> GenerationIn(h)]
      /\ alloc.generation \in [0 .. Indices - 1 -> 0 .. GenSpan - 1]
  BY Types, HandleUnpacks DEF Inv, Held
<1>v. IsValid(alloc, Unpack(h)) <=> alloc.generation[IndexIn(h)] = GenerationIn(h)
  <2>1. Unpack(h).index = IndexIn(h) /\ Unpack(h).generation = GenerationIn(h)
    BY DEF Unpack
  <2>2. DOMAIN alloc.generation = 0 .. Indices - 1
    BY <1>1
  <2> QED
    BY <1>1, <2>1, <2>2, Zenon DEF IsValid
<1>2. ASSUME age[h] = 0
      PROVE  /\ alloc.generation[IndexIn(h)] = GenerationIn(h)
             /\ data[IndexIn(h)] # None
             /\ IsValid(alloc, Unpack(h))
  <2>1. /\ alloc.generation[IndexIn(h)] = Later(GenerationIn(h), 0)
        /\ data[IndexIn(h)] # None
    BY <1>2 DEF Inv, AgeInv
  <2>2. Later(GenerationIn(h), 0) = GenerationIn(h)
    BY <1>1 DEF Later
  <2> QED
    BY <1>v, <2>1, <2>2
<1>3. IsValid(alloc, Unpack(h)) => age[h] = 0
  BY ValidIsLive
<1>4. ASSUME age[h] = 0 PROVE h \in LiveHandles
  <2>1. LiveHandle(IndexIn(h)) = h
    BY <1>1, <1>2, <1>4 DEF LiveHandle
  <2>2. IndexIn(h) \in Taken
    BY <1>1, <1>2, <1>4 DEF Taken
  <2> QED
    BY <2>1, <2>2 DEF LiveHandles
<1>5. ASSUME h \in LiveHandles PROVE age[h] = 0
  <2>1. PICK i \in Taken : h = LiveHandle(i)
    BY <1>5 DEF LiveHandles
  <2>2. IndexIn(h) = i /\ GenerationIn(h) = alloc.generation[i]
    BY <2>1, LiveFields DEF Inv, Taken
  <2>3. IsValid(alloc, Unpack(h))
    BY <1>v, <2>2
  <2> QED
    BY <1>3, <2>3
<1> QED
  BY <1>2, <1>3, <1>4, <1>5 DEF Lookup

(* There are as many live handles as indices exactly when none is free. *)
LEMMA LiveCount ==
  ASSUME Inv
  PROVE  /\ LiveObjects = [h \in LiveHandles |-> data[IndexIn(h)]]
         /\ Cardinality(LiveHandles) = Indices <=> ~CanAlloc(alloc)
<1>1. LiveObjects = [h \in LiveHandles |-> data[IndexIn(h)]]
  BY DEF LiveObjects, LiveHandles, Taken
<1>2. IsFiniteSet(0 .. Indices - 1) /\ Cardinality(0 .. Indices - 1) = Indices
  <2>1. 0 \in Int /\ Indices - 1 \in Int
    BY IndicesBound
  <2>2. /\ IsFiniteSet(0 .. Indices - 1)
        /\ Cardinality(0 .. Indices - 1) = IF 0 > Indices - 1 THEN 0 ELSE (Indices - 1) - 0 + 1
    BY <2>1, FS_Interval, Zenon
  <2> QED
    BY <2>2, IndicesBound
<1>3. /\ IsFiniteSet(Taken)
      /\ Cardinality(Taken) = Indices <=> Taken = 0 .. Indices - 1
  <2>1. Taken \in SUBSET (0 .. Indices - 1)
    BY DEF Taken
  <2> QED
    BY <1>2, <2>1, FS_Subset
<1>4. Cardinality(LiveHandles) = Cardinality(Taken)
  <2> DEFINE f == [i \in Taken |-> LiveHandle(i)]
  <2>1. f \in [Taken -> LiveHandles]
    BY DEF LiveHandles
  <2>2. \A i, j \in Taken : f[i] = f[j] => i = j
    BY LiveFields DEF Inv, Taken
  <2>3. \A h \in LiveHandles : \E i \in Taken : f[i] = h
    BY DEF LiveHandles
  <2>4. f \in Bijection(Taken, LiveHandles)
    BY <2>1, <2>2, <2>3 DEF Bijection, Injection, IsInjective, Surjection
  <2>5. ExistsBijection(Taken, LiveHandles)
    BY <2>4 DEF ExistsBijection
  <2> QED
    BY <1>3, <2>5, FS_Bijection
<1>5. Taken = 0 .. Indices - 1 <=> ~CanAlloc(alloc)
  <2>1. alloc.free_list \in Seq(0 .. Indices - 1)
    BY Types DEF Inv
  <2>2. ASSUME CanAlloc(alloc) PROVE Taken # 0 .. Indices - 1
    <3>1. data[AllocId(alloc).index] = None /\ AllocId(alloc).index \in 0 .. Indices - 1
      BY <2>1, <2>2, NoBadPanic, PopType DEF AllocId, CanAlloc
    <3> QED
      BY <3>1 DEF Taken
  <2>3. ASSUME ~CanAlloc(alloc) PROVE Taken = 0 .. Indices - 1
    <3>1. alloc.free_list = << >>
      BY <2>3 DEF CanAlloc
    <3>2. \A i : ~Occurs(alloc.free_list, i)
      BY <3>1 DEF Occurs
    <3> QED
      BY <3>2 DEF Inv, FreeInv, Taken
  <2> QED
    BY <2>2, <2>3
<1> QED
  BY <1>1, <1>3, <1>4, <1>5

(* Two functions with one domain and the same values are the same. *)
LEMMA SameFunction ==
  ASSUME NEW S, NEW f, NEW g, f = [x \in S |-> f[x]], g = [x \in S |-> g[x]],
         \A x \in S : f[x] = g[x]
  PROVE  f = g
OBVIOUS

(* The registry counts as the pool does. *)
LEMMA SameCount == \A S : Registry!Cardinality(S) = Cardinality(S)
BY DEF Registry!Cardinality, Cardinality

(* A spawn gives out a handle that nobody holds. *)
LEMMA SpawnRegistry ==
  ASSUME Inv, NEW object \in Objects, spawn(object)
  PROVE  /\ Registry!Spawn(object)
         /\ panic' = panic
<1>1. CASE ~CanAlloc(alloc)
  <2>1. DOMAIN LiveObjects = LiveHandles /\ Cardinality(LiveHandles) = Indices
    BY <1>1, LiveCount
  <2>2. result' = <<"none">> /\ UNCHANGED <<alloc, data, age, panic>>
    BY <1>1 DEF spawn
  <2>3. LiveObjects' = LiveObjects /\ {h \in Held : age[h] > 0}' = {h \in Held : age[h] > 0}
    BY <2>2 DEF LiveObjects, LiveHandle, Held
  <2> QED
    BY <2>1, <2>2, <2>3, SameCount DEF Registry!Spawn
<1>2. CASE CanAlloc(alloc)
  <2> DEFINE i == Head(alloc.free_list)
             g == alloc.generation[i]
             handle == Pack(AllocId(alloc))
  <2>1. /\ i \in 0 .. Indices - 1 /\ g \in 0 .. GenSpan - 1
        /\ AllocId(alloc) = [index |-> i, generation |-> g] /\ AllocId(alloc) \in Ids
        /\ data[i] = None /\ object # None
        /\ alloc'.generation = alloc.generation
        /\ data' = [data EXCEPT ![i] = object]
        /\ result' = <<"handle", handle>>
        /\ age' = [h \in DOMAIN age \cup {handle} |-> IF h = handle THEN 0 ELSE age[h]]
        /\ panic' = panic
    BY <1>2, SpawnTakes
  <2>t. /\ data \in [0 .. Capacity - 1 -> Objects \cup {None}]
        /\ 0 .. Indices - 1 \subseteq 0 .. Capacity - 1
    BY Types DEF Inv
  <2>2. handle = LiveHandle(i) /\ IndexIn(handle) = i
    BY <2>1, LiveFields DEF LiveHandle, Inv
  <2>3. handle \in {Pack(id) : id \in Ids}
    BY <2>1
  <2> HIDE DEF i, g, handle
  <2>4. handle \notin LiveHandles
    <3> SUFFICES ASSUME NEW k \in Taken, handle = LiveHandle(k) PROVE FALSE
      BY DEF LiveHandles
    <3>1. k = i
      BY <2>2, LiveFields DEF Inv, Taken
    <3> QED
      BY <2>1, <3>1 DEF Taken
  <2>5. handle \notin Held
    <3> SUFFICES ASSUME handle \in Held PROVE FALSE
      OBVIOUS
    <3>1. IsValid(alloc, Unpack(handle))
      <4>1. Unpack(handle) = AllocId(alloc)
        BY <2>1, HandleFields DEF handle
      <4>2. DOMAIN alloc.generation = 0 .. Indices - 1
        BY Types DEF Inv
      <4> QED
        BY <2>1, <4>1, <4>2 DEF IsValid, g
    <3> QED
      BY <2>1, <2>2, <3>1, ValidIsLive
  <2>6. DOMAIN LiveObjects = LiveHandles /\ Cardinality(LiveHandles) # Indices
        /\ \A h \in LiveHandles : LiveObjects[h] = data[IndexIn(h)]
    BY <1>2, LiveCount
  <2>7. LiveObjects' = [h \in LiveHandles \cup {handle} |->
                           IF h = handle THEN object ELSE LiveObjects[h]]
    <3>1. Taken' = Taken \cup {i}
      BY <2>1, <2>t DEF Taken
    <3>2. \A k : LiveHandle(k)' = LiveHandle(k)
      BY <2>1 DEF LiveHandle
    <3>3. {LiveHandle(k)' : k \in Taken'} = LiveHandles \cup {handle}
      BY <2>2, <3>1, <3>2 DEF LiveHandles
    <3>4. LiveObjects' = [h \in LiveHandles \cup {handle} |-> data'[IndexIn(h)]]
      BY <3>3 DEF LiveObjects, Taken
    <3>5. ASSUME NEW h \in LiveHandles \cup {handle}
          PROVE  data'[IndexIn(h)] = IF h = handle THEN object ELSE LiveObjects[h]
      <4>1. CASE h = handle
        BY <2>1, <2>2, <2>t, <4>1
      <4>2. CASE h # handle
        <5>1. PICK k \in Taken : h = LiveHandle(k)
          BY <4>2 DEF LiveHandles
        <5>2. IndexIn(h) = k /\ k # i /\ k \in 0 .. Indices - 1
          BY <2>1, <5>1, LiveFields DEF Inv, Taken
        <5> QED
          BY <2>1, <2>6, <2>t, <4>2, <5>2
      <4> QED
        BY <4>1, <4>2
    <3> QED
      BY <3>4, <3>5
  <2>8. {h \in Held : age[h] > 0}' = {h \in Held : age[h] > 0}
    BY <2>1, <2>5 DEF Held
  <2>9. handle \in {Pack(id) : id \in Ids} \ (DOMAIN LiveObjects \cup {h \in Held : age[h] > 0})
    BY <2>3, <2>4, <2>5, <2>6
  <2> QED
    BY <2>1, <2>6, <2>7, <2>8, <2>9, SameCount DEF Registry!Spawn, Ids
<1> QED
  BY <1>1, <1>2

Stale == {h \in Held : age[h] > 0}

(* get finds what the registry has under a handle that is held. *)
LEMMA LookupFinds ==
  ASSUME Inv, NEW handle \in Held
  PROVE  /\ handle \in DOMAIN LiveObjects \cup Stale
         /\ DOMAIN LiveObjects = LiveHandles
         /\ handle \in LiveHandles <=> Lookup(handle) # None
         /\ handle \in LiveHandles => LiveObjects[handle] = Lookup(handle)
         /\ Registry!Found(handle) =
              IF Lookup(handle) = None THEN <<"none">> ELSE <<"object", Lookup(handle)>>
<1>1. age[handle] \in 0 .. GenSpan
  BY Types DEF Inv, Held
<1>2. DOMAIN LiveObjects = LiveHandles /\ \A h \in LiveHandles : LiveObjects[h] = data[IndexIn(h)]
  BY LiveCount
<1>3. handle \in LiveHandles <=> Lookup(handle) # None
  BY HeldIsLive
<1>4. handle \in LiveHandles => LiveObjects[handle] = Lookup(handle)
  BY <1>2, HeldIsLive
<1>5. handle \in LiveHandles \/ handle \in Stale
  BY <1>1, HeldIsLive DEF Stale
<1> QED
  BY <1>2, <1>3, <1>4, <1>5 DEF Registry!Found

(* A look at a handle is one at the registry. *)
LEMMA GetRegistry ==
  ASSUME Inv, NEW handle \in Held, get(handle)
  PROVE  Registry!Get(handle) /\ panic' = panic
<1>1. /\ UNCHANGED <<alloc, data, age, panic>>
      /\ result' = IF Lookup(handle) = None THEN <<"none">> ELSE <<"object", Lookup(handle)>>
  BY DEF get
<1>2. LiveObjects' = LiveObjects /\ Stale' = Stale
  BY <1>1 DEF LiveObjects, LiveHandle, Held, Stale
<1> QED
  BY <1>1, <1>2, LookupFinds DEF Registry!Get, Stale

(* get_mut replaces the object of the handle and of no other. *)
LEMMA ReplaceRegistry ==
  ASSUME Inv, NEW handle \in Held, NEW object \in Objects, get_mut(handle, object)
  PROVE  Registry!Replace(handle, object) /\ panic' = panic
<1>1. /\ UNCHANGED <<alloc, age, panic>>
      /\ result' = IF Lookup(handle) = None THEN <<"none">> ELSE <<"object", Lookup(handle)>>
  BY DEF get_mut
<1>2. Stale' = Stale
  BY <1>1 DEF Held, Stale
<1>3. /\ DOMAIN LiveObjects = LiveHandles
      /\ \A h \in LiveHandles : LiveObjects[h] = data[IndexIn(h)]
      /\ LiveObjects = [h \in LiveHandles |-> LiveObjects[h]]
  BY LiveCount
<1>4. LiveObjects' = [h \in LiveHandles |-> IF h = handle THEN object ELSE LiveObjects[h]]
  <2>1. CASE Lookup(handle) = None
    <3>1. data' = data
      BY <2>1 DEF get_mut
    <3>2. LiveObjects' = LiveObjects
      BY <1>1, <3>1 DEF LiveObjects, LiveHandle
    <3>3. handle \notin LiveHandles
      BY <2>1, LookupFinds
    <3> QED
      BY <1>3, <3>2, <3>3
  <2>2. CASE Lookup(handle) # None
    <3>t. /\ data \in [0 .. Capacity - 1 -> Objects \cup {None}]
          /\ 0 .. Indices - 1 \subseteq 0 .. Capacity - 1
          /\ IndexIn(handle) \in 0 .. Indices - 1
      BY Types, HandleUnpacks DEF Inv, Held
    <3>1. data' = [data EXCEPT ![IndexIn(handle)] = object] /\ object # None
      BY <2>2 DEF get_mut
    <3>2. handle \in LiveHandles /\ data[IndexIn(handle)] # None
      BY <2>2, LookupFinds, HeldIsLive DEF Lookup
    <3>3. Taken' = Taken
      BY <3>t, <3>1, <3>2 DEF Taken
    <3>4. \A k : LiveHandle(k)' = LiveHandle(k)
      BY <1>1 DEF LiveHandle
    <3>5. {LiveHandle(k)' : k \in Taken'} = LiveHandles
      BY <3>3, <3>4 DEF LiveHandles
    <3>6. LiveObjects' = [h \in LiveHandles |-> data'[IndexIn(h)]]
      BY <3>5 DEF LiveObjects, Taken
    <3>7. ASSUME NEW h \in LiveHandles
          PROVE  data'[IndexIn(h)] = IF h = handle THEN object ELSE LiveObjects[h]
      <4>1. CASE h = handle
        BY <3>t, <3>1, <4>1
      <4>2. CASE h # handle
        <5>1. PICK k \in Taken : h = LiveHandle(k)
          BY DEF LiveHandles
        <5>2. PICK j \in Taken : handle = LiveHandle(j)
          BY <3>2 DEF LiveHandles
        <5>3. IndexIn(h) = k /\ IndexIn(handle) = j /\ k # j
          BY <4>2, <5>1, <5>2, LiveFields DEF Inv, Taken
        <5> QED
          BY <1>3, <3>t, <3>1, <4>2, <5>1, <5>3 DEF Taken
      <4> QED
        BY <4>1, <4>2
    <3> QED
      BY <3>6, <3>7
  <2> QED
    BY <2>1, <2>2
<1> QED
  BY <1>1, <1>2, <1>3, <1>4, LookupFinds DEF Registry!Replace, Stale

(* A despawn makes a live handle stale.  As a generation has at least two  *)
(* values, the handle cannot be valid again at once.                       *)
LEMMA DespawnRegistry ==
  ASSUME Inv, NEW handle \in Held, despawn(handle), GenSpan > 1
  PROVE  \/ Registry!Despawn(handle) /\ panic' = panic
         \/ /\ LiveObjects # << >>
            /\ panic' = "generation overflow"
            /\ UNCHANGED <<LiveObjects, Stale, result>>
<1>t. /\ data \in [0 .. Capacity - 1 -> Objects \cup {None}]
      /\ 0 .. Indices - 1 \subseteq 0 .. Capacity - 1
      /\ DOMAIN age \subseteq {Pack(id) : id \in Ids}
      /\ \A h \in DOMAIN age : age[h] \in 0 .. GenSpan
  BY Types DEF Inv
<1>o. /\ DOMAIN LiveObjects = LiveHandles
      /\ \A h \in LiveHandles : LiveObjects[h] = data[IndexIn(h)]
      /\ LiveObjects = [h \in LiveHandles |-> LiveObjects[h]]
  BY LiveCount
<1>1. CASE ~IsValid(alloc, Unpack(handle))
  <2>1. result' = <<"false">> /\ UNCHANGED <<alloc, data, age, panic>>
    BY <1>1 DEF despawn
  <2>2. LiveObjects' = LiveObjects /\ Stale' = Stale
    BY <2>1 DEF LiveObjects, LiveHandle, Held, Stale
  <2>3. handle \notin LiveHandles /\ handle \in Stale
    BY <1>1, <1>t, HeldIsLive DEF Held, Stale
  <2>4. LiveHandles \ {handle} = LiveHandles
    BY <2>3
  <2>5. LiveObjects' = [h \in DOMAIN LiveObjects \ {handle} |-> LiveObjects[h]]
    BY <1>o, <2>2, <2>4
  <2>6. \E forgotten \in SUBSET (Stale \ {handle}) : Stale' = (Stale \cup {handle}) \ forgotten
    <3>1. {} \in SUBSET (Stale \ {handle}) /\ Stale' = (Stale \cup {handle}) \ {}
      BY <2>2, <2>3
    <3> QED
      BY <3>1
  <2> QED
    BY <1>o, <2>1, <2>3, <2>5, <2>6 DEF Registry!Despawn, Stale
<1>2. CASE IsValid(alloc, Unpack(handle)) /\ overflow_checks /\ Overflows(alloc, Unpack(handle))
  <2>1. panic' = "generation overflow" /\ UNCHANGED <<alloc, data, age, result>>
    BY <1>2 DEF despawn, Crash
  <2>2. LiveObjects' = LiveObjects /\ Stale' = Stale
    BY <2>1 DEF LiveObjects, LiveHandle, Held, Stale
  <2>3. handle \in LiveHandles
    BY <1>2, HeldIsLive
  <2>4. DOMAIN LiveObjects # {}
    BY <1>o, <2>3
  <2>5. DOMAIN << >> = {}
    OBVIOUS
  <2>6. LiveObjects # << >>
    BY <2>4, <2>5
  <2> QED
    BY <2>1, <2>2, <2>6
<1>3. CASE /\ IsValid(alloc, Unpack(handle))
           /\ ~(overflow_checks /\ Overflows(alloc, Unpack(handle)))
  <2> DEFINE i == IndexIn(handle)
             g == GenerationIn(handle)
             forgotten == {h \in Stale : IndexIn(h) = i /\ age[h] + 1 = GenSpan}
  <2>1. /\ i \in 0 .. Indices - 1
        /\ age[handle] = 0
        /\ data[i] # None
        /\ alloc.generation \in [0 .. Indices - 1 -> 0 .. GenSpan - 1]
        /\ alloc'.generation = [alloc.generation EXCEPT ![i] = IF g + 1 = GenSpan THEN 0 ELSE g + 1]
        /\ data' = [data EXCEPT ![i] = None]
        /\ result' = <<"true">>
        /\ age' = Aged(handle)
        /\ panic' = panic
    BY <1>3, DespawnFrees, Types DEF Inv
  <2>2. handle \in LiveHandles /\ handle \notin Stale
    BY <2>1, HeldIsLive DEF Stale
  <2> HIDE DEF i, g
  <2>3. PICK j \in Taken : handle = LiveHandle(j)
    BY <2>2 DEF LiveHandles
  <2>4. j = i /\ handle = LiveHandle(i)
    BY <2>3, LiveFields DEF Inv, Taken, i
  <2>5. LiveObjects' = [h \in DOMAIN LiveObjects \ {handle} |-> LiveObjects[h]]
    <3>1. Taken' = Taken \ {i}
      BY <1>t, <2>1 DEF Taken
    <3>2. \A k \in Taken \ {i} : LiveHandle(k)' = LiveHandle(k)
      BY <2>1 DEF LiveHandle, Taken
    <3>3. \A k \in Taken \ {i} : LiveHandle(k) # handle
      BY <2>4, LiveFields DEF Inv, Taken, i
    <3>4. {LiveHandle(k)' : k \in Taken'} = LiveHandles \ {handle}
      BY <2>4, <3>1, <3>2, <3>3 DEF LiveHandles
    <3>5. LiveObjects' = [h \in LiveHandles \ {handle} |-> data'[IndexIn(h)]]
      BY <3>4 DEF LiveObjects, Taken
    <3>6. ASSUME NEW h \in LiveHandles \ {handle} PROVE data'[IndexIn(h)] = LiveObjects[h]
      <4>1. PICK k \in Taken : h = LiveHandle(k)
        BY DEF LiveHandles
      <4>2. IndexIn(h) = k /\ k # i
        BY <2>4, <4>1, LiveFields DEF Inv, Taken
      <4> QED
        BY <1>o, <1>t, <2>1, <4>2 DEF Taken
    <3> QED
      BY <1>o, <3>5, <3>6
  <2>6. /\ DOMAIN age' = DOMAIN age
        /\ \A h \in DOMAIN age :
             age'[h] = IF IndexIn(h) = i /\ h \in Held THEN age[h] + 1 ELSE age[h]
    BY <2>1 DEF Aged, i
  <2>7. Stale' = (Stale \cup {handle}) \ forgotten
    <3>1. Stale' = {h \in DOMAIN age' : age'[h] < GenSpan /\ age'[h] > 0}
      BY DEF Stale, Held
    <3>2. ASSUME NEW h \in DOMAIN age
          PROVE  age'[h] < GenSpan /\ age'[h] > 0 <=> h \in (Stale \cup {handle}) \ forgotten
      <4>1. CASE h = handle
        <5>1. age'[h] = 1 /\ h \notin forgotten
          BY <2>1, <2>2, <2>6, <4>1 DEF i
        <5> QED
          BY <4>1, <5>1
      <4>2. CASE h # handle /\ IndexIn(h) = i /\ h \in Held
        <5>1. age[h] # 0
          <6> SUFFICES ASSUME age[h] = 0 PROVE FALSE
            OBVIOUS
          <6>1. h \in LiveHandles
            BY <4>2, HeldIsLive
          <6>2. PICK k \in Taken : h = LiveHandle(k)
            BY <6>1 DEF LiveHandles
          <6>3. k = i
            BY <4>2, <6>2, LiveFields DEF Inv, Taken
          <6> QED
            BY <2>4, <4>2, <6>2, <6>3
        <5>2. age'[h] = age[h] + 1 /\ age[h] \in 0 .. GenSpan - 1 /\ h \in Stale
          BY <1>t, <2>6, <4>2, <5>1 DEF Held, Stale
        <5> QED
          BY <4>2, <5>1, <5>2
      <4>3. CASE h # handle /\ ~(IndexIn(h) = i /\ h \in Held)
        <5>1. age'[h] = age[h] /\ h \notin forgotten
          BY <2>6, <4>3 DEF Stale
        <5> QED
          BY <4>3, <5>1 DEF Stale, Held
      <4> QED
        BY <4>1, <4>2, <4>3
    <3>3. (Stale \cup {handle}) \ forgotten \subseteq DOMAIN age
      BY DEF Stale, Held
    <3> QED
      BY <2>6, <3>1, <3>2, <3>3
  <2>8. forgotten \in SUBSET (Stale \ {handle})
    BY <2>2
  <2> HIDE DEF forgotten
  <2> QED
    BY <1>o, <2>1, <2>2, <2>5, <2>7, <2>8 DEF Registry!Despawn, Stale
<1> QED
  BY <1>1, <1>2, <1>3

(* Every call is one of the registry. *)
LEMMA NextRegistry ==
  ASSUME Inv, [Next]_vars, GenSpan > 1
  PROVE  [Registry!Next]_(Registry!vars)
<1>s. UNCHANGED vars => UNCHANGED <<LiveObjects, Stale, result, panic>>
  BY DEF vars, LiveObjects, LiveHandle, Held, Stale
<1>1. CASE UNCHANGED vars
  BY <1>1, <1>s DEF Registry!vars, Stale
<1>2. ASSUME NEW object \in Objects, spawn(object) PROVE Registry!Next
  <2>1. panic = "no"
    BY <1>2 DEF spawn, Running
  <2> QED
    BY <1>2, <2>1, SpawnRegistry DEF Registry!Next
<1>3. ASSUME NEW handle \in Held,
             \/ get(handle)
             \/ \E object \in Objects : get_mut(handle, object)
             \/ despawn(handle)
      PROVE  Registry!Next
  <2>1. panic = "no"
    BY <1>3 DEF get, get_mut, despawn, Running
  <2>2. handle \in DOMAIN LiveObjects \cup Stale
    BY LookupFinds
  <2>3. CASE get(handle)
    BY <2>1, <2>2, <2>3, GetRegistry DEF Registry!Next, Stale
  <2>4. ASSUME NEW object \in Objects, get_mut(handle, object) PROVE Registry!Next
    BY <2>1, <2>2, <2>4, ReplaceRegistry DEF Registry!Next, Stale
  <2>5. CASE despawn(handle)
    BY <2>1, <2>2, <2>5, DespawnRegistry DEF Registry!Next, Stale
  <2> QED
    BY <1>3, <2>3, <2>4, <2>5
<1> QED
  BY <1>1, <1>2, <1>3 DEF Next

(* The pool is a registry of handles: a handle leads to its own object     *)
(* until that is despawned and to nothing as long as a caller may hold it  *)
(* afterwards, for every capacity and every width of index and generation  *)
(* of more than one value (alloc.rs:198-241, 253-271).                     *)
THEOREM PoolImplementsRegistry ==
  ASSUME GenSpan > 1
  PROVE  Spec => ImplementsRegistry
<1>1. Init => Registry!Init
  <2> SUFFICES ASSUME Init PROVE Registry!Init
    OBVIOUS
  <2>1. Taken = {}
    BY IndicesBound DEF Init, Taken
  <2>2. LiveObjects = [h \in {} |-> data[IndexIn(h)]]
    BY <2>1 DEF LiveObjects, Taken
  <2>3. LiveObjects = << >>
    BY <2>2
  <2>4. Stale = {}
    BY DEF Init, Held, Stale
  <2> QED
    BY <2>3, <2>4 DEF Init, Registry!Init, Stale
<1>2. Inv /\ [Next]_vars => [Registry!Next]_(Registry!vars)
  BY NextRegistry
<1> QED
  BY <1>1, <1>2, InvHolds, PTL DEF Spec, ImplementsRegistry, Registry!Spec
=============================================================================
