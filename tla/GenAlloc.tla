------------------------------ MODULE GenAlloc ------------------------------
(***************************************************************************)
(* The generational allocator of hoarder-collections/src/alloc.rs as pure  *)
(* operators on its two fields: the generation of every index and the FIFO *)
(* list of free indices.  BufferPool (buffers) and ObjectPool (state       *)
(* machines) are both built on it; the executor's modules use these        *)
(* operators on the pools they own.                                        *)
(*                                                                         *)
(* free_list is the RingBuffer<u32> of the source, taken here as the FIFO  *)
(* sequence that module RingBuffer shows it to be.                         *)
(***************************************************************************)
EXTENDS Naturals, Sequences

CONSTANT
  GenSpan   \* number of values of a generation counter: 2^32 for a u32

ASSUME GenSpanAssumption == GenSpan \in Nat \ {0}

(* GenId: what alloc() hands out. *)
GenId == [index : Nat, generation : 0 .. GenSpan - 1]

(* The fields of an allocator with n indices. *)
GenAllocs(n) ==
  [generation : [0 .. n - 1 -> 0 .. GenSpan - 1], free_list : Seq(0 .. n - 1)]

(* GenAlloc::new: generation 0 everywhere, and (0..capacity).rev() pushed  *)
(* into the free list, so the highest index is handed out first.           *)
NewAlloc(n) ==
  [generation |-> [i \in 0 .. n - 1 |-> 0],
   free_list  |-> [k \in 1 .. n |-> n - k]]

(* GenAlloc::alloc, split into its condition, its result and its effect.   *)
CanAlloc(a) == a.free_list # << >>

AllocId(a) ==
  [index |-> Head(a.free_list), generation |-> a.generation[Head(a.free_list)]]

AfterAlloc(a) == [a EXCEPT !.free_list = Tail(@)]

(* Faulty is_valid, for the mutants: the generation is not compared. *)
IsValidByIndex(a, id) == id.index \in DOMAIN a.generation

(* GenAlloc::is_valid. *)
IsValid(a, id) ==
  /\ id.index \in DOMAIN a.generation
  /\ id.generation = a.generation[id.index]

(* Faulty increment, for the mutants: the counter is taken for unbounded. *)
UnboundedGeneration(g) == g + 1

(* The u32 increment of a generation, wrapping as a release build does. *)
NextGeneration(g) == (g + 1) % GenSpan

(* A free whose increment overflows: a debug build panics. *)
Overflows(a, id) == IsValid(a, id) /\ a.generation[id.index] = GenSpan - 1

(* GenAlloc::free: a stale id leaves the allocator as it is. *)
AfterFree(a, id) ==
  IF IsValid(a, id)
  THEN [generation |-> [a.generation EXCEPT ![id.index] = NextGeneration(@)],
        free_list  |-> Append(a.free_list, id.index)]
  ELSE a
=============================================================================
