----------------------------- MODULE ObjectPool -----------------------------
(***************************************************************************)
(* ObjectPool and ObjectHandle of hoarder-collections/src/alloc.rs: objects *)
(* in the cells of an array, handed out under handles that are one integer *)
(* each.  Callers keep handles after their objects are gone, and present   *)
(* them again; what a pool must not do is to take an old handle for the    *)
(* object that has its cell now.                                           *)
(***************************************************************************)
EXTENDS GenAlloc, FiniteSets

CONSTANTS
  Capacity,    \* what ObjectPool::new is asked for
  IndexSpan,   \* number of values of an index in a handle: MASK + 1, 2^24
  ID,          \* the pool's id
  Objects,
  None

(* GenAlloc::new masks the capacity rather than limiting it; a capacity    *)
(* that masks to zero fails the assertion of Array::new.                   *)
Indices == Capacity % IndexSpan

ASSUME PoolAssumption ==
  /\ Capacity \in Nat /\ IndexSpan \in Nat \ {0} /\ ID \in Nat
  /\ Indices # 0
  /\ None \notin Objects

VARIABLES
  overflow_checks,  \* whether the build checks arithmetic (debug) or wraps (release)
  alloc,            \* ObjectPool.alloc
  data,             \* ObjectPool.data
  result,           \* what the last call returned
  panic,            \* "no", or the site where the process panicked
  age               \* history: how often the index of a handle that has been
                    \* given out was freed since

vars == <<overflow_checks, alloc, data, result, panic, age>>

-----------------------------------------------------------------------------
(* ObjectHandle: the pool's id, the index and the generation in one u64.   *)
Pack(id) == (ID * IndexSpan + id.index) * GenSpan + id.generation

pool_id(handle) == handle \div (IndexSpan * GenSpan)

IndexIn(handle) == (handle \div GenSpan) % IndexSpan

GenerationIn(handle) == handle % GenSpan

Unpack(handle) == [index |-> IndexIn(handle), generation |-> GenerationIn(handle)]

(* The handles that a caller may present: it does not sit on one while its *)
(* index is freed as often as a generation has values.                     *)
Held == {h \in DOMAIN age : age[h] < GenSpan}

-----------------------------------------------------------------------------
Init ==
  /\ overflow_checks \in BOOLEAN
  /\ alloc = NewAlloc(Indices)
  /\ data = [i \in 0 .. Capacity - 1 |-> None]
  /\ result = <<"none">>
  /\ panic = "no"
  /\ age = << >>

Running == panic = "no"

Crash(site) ==
  /\ panic' = site
  /\ UNCHANGED <<overflow_checks, alloc, data, result, age>>

spawn(object) ==
  /\ Running
  /\ IF ~CanAlloc(alloc)
     THEN /\ result' = <<"none">>
          /\ UNCHANGED <<overflow_checks, alloc, data, panic, age>>
     ELSE LET id == AllocId(alloc)
          IN  IF data[id.index] # None
              THEN Crash("slot taken")
              ELSE /\ alloc' = AfterAlloc(alloc)
                   /\ data' = [data EXCEPT ![id.index] = object]
                   /\ result' = <<"handle", Pack(id)>>
                   /\ age' = [h \in DOMAIN age \cup {Pack(id)} |->
                                IF h = Pack(id) THEN 0 ELSE age[h]]
                   /\ UNCHANGED <<overflow_checks, panic>>

(* The cell that get and get_mut find: None for a stale handle. *)
Lookup(handle) ==
  IF IsValid(alloc, Unpack(handle)) THEN data[IndexIn(handle)] ELSE None

get(handle) ==
  /\ Running
  /\ result' = IF Lookup(handle) = None THEN <<"none">> ELSE <<"object", Lookup(handle)>>
  /\ UNCHANGED <<overflow_checks, alloc, data, panic, age>>

(* get_mut, and what the caller does with the reference. *)
get_mut(handle, object) ==
  /\ Running
  /\ IF Lookup(handle) = None
     THEN /\ result' = <<"none">>
          /\ UNCHANGED data
     ELSE /\ result' = <<"object", Lookup(handle)>>
          /\ data' = [data EXCEPT ![IndexIn(handle)] = object]
  /\ UNCHANGED <<overflow_checks, alloc, panic, age>>

(* The handles' ages once the index of handle is freed. *)
Aged(handle) ==
  [h \in DOMAIN age |->
     IF IndexIn(h) = IndexIn(handle) /\ h \in Held THEN age[h] + 1 ELSE age[h]]

(* Faulty despawn, for the mutants: the object stays in its cell. *)
despawnInPlace(handle) ==
  /\ Running
  /\ alloc' = AfterFree(alloc, Unpack(handle))
  /\ result' = IF IsValid(alloc, Unpack(handle)) THEN <<"true">> ELSE <<"false">>
  /\ age' = Aged(handle)
  /\ UNCHANGED <<overflow_checks, data, panic>>

despawn(handle) ==
  /\ Running
  /\ IF ~IsValid(alloc, Unpack(handle))
     THEN /\ result' = <<"false">>
          /\ UNCHANGED <<overflow_checks, alloc, data, panic, age>>
     ELSE IF overflow_checks /\ Overflows(alloc, Unpack(handle))
     THEN Crash("generation overflow")
     ELSE IF Len(alloc.free_list) = Indices
     THEN Crash("free list full")
     ELSE /\ alloc' = AfterFree(alloc, Unpack(handle))
          /\ data' = [data EXCEPT ![IndexIn(handle)] = None]
          /\ result' = <<"true">>
          /\ age' = Aged(handle)
          /\ UNCHANGED <<overflow_checks, panic>>

Next ==
  \/ \E object \in Objects : spawn(object)
  \/ \E handle \in Held :
       \/ get(handle)
       \/ \E object \in Objects : get_mut(handle, object)
       \/ despawn(handle)

Spec == Init /\ [][Next]_vars

-----------------------------------------------------------------------------
(* Type invariant of the pool's state. *)
TypeOK ==
  /\ overflow_checks \in BOOLEAN
  /\ alloc \in GenAllocs(Indices)
  /\ data \in [0 .. Capacity - 1 -> Objects \cup {None}]
  /\ panic \in {"no", "generation overflow", "slot taken", "free list full"}
  /\ DOMAIN age \subseteq {Pack(id) : id \in [index : 0 .. Indices - 1, generation : 0 .. GenSpan - 1]}
  /\ \A h \in DOMAIN age : age[h] \in 0 .. GenSpan

(* Whether index i can be handed out. *)
IsFree(i) == \E k \in DOMAIN alloc.free_list : alloc.free_list[k] = i

(* No index is in the free list twice or lost from it: it is there exactly *)
(* when its cell is empty.  So the assertion in spawn (alloc.rs:200) and   *)
(* the unwrap in free (alloc.rs:107) hold, whichever old handles callers   *)
(* present to despawn and whether generations wrap or panic.               *)
FreeExact ==
  /\ \A j, k \in DOMAIN alloc.free_list :
       alloc.free_list[j] = alloc.free_list[k] => j = k
  /\ \A i \in 0 .. Indices - 1 : IsFree(i) <=> data[i] = None
  /\ panic \in {"no", "generation overflow"}

-----------------------------------------------------------------------------
(* The pool as a registry: the live handles and their objects, and the     *)
(* old handles that callers still hold.                                    *)
LiveHandle(i) == Pack([index |-> i, generation |-> alloc.generation[i]])

LiveObjects ==
  [h \in {LiveHandle(i) : i \in {j \in 0 .. Indices - 1 : data[j] # None}} |-> data[IndexIn(h)]]

Registry == INSTANCE HandleRegistry WITH
  Handles <- {Pack(id) : id \in [index : 0 .. Indices - 1, generation : 0 .. GenSpan - 1]},
  Limit   <- Indices,
  live    <- LiveObjects,
  stale   <- {h \in Held : age[h] > 0},
  stopped <- panic = "generation overflow"

(* A handle gives access to its own object until that is despawned and to  *)
(* nothing afterwards, although its index is handed out again and its      *)
(* generation wraps; spawn fails exactly when every index is taken         *)
(* (alloc.rs:198-241, 253-271).                                            *)
ImplementsRegistry == Registry!Spec
=============================================================================
