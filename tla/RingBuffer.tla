----------------------------- MODULE RingBuffer -----------------------------
(***************************************************************************)
(* RingBuffer<T> of hoarder-collections/src/collections.rs.  A cell is a   *)
(* MaybeUninit<T>: it holds a value, or Uninit before the first write and  *)
(* after the value has been moved out.                                     *)
(***************************************************************************)
EXTENDS Naturals

CONSTANTS
  Size,    \* size
  Values,  \* the values of T
  Uninit   \* a cell without a value

ASSUME RingAssumption ==
  /\ Size \in Nat \ {0}
  /\ Uninit \notin Values

VARIABLES
  buf,        \* the cells behind ptr
  write_idx,
  read_idx,
  len,
  popped      \* what the last pop that returned Some read

vars == <<buf, write_idx, read_idx, len, popped>>

Cells == 0 .. Size - 1

(* RingBuffer::new, or from_fixed_iter, whose Size pushes fill every cell. *)
New ==
  /\ buf = [i \in Cells |-> Uninit]
  /\ len = 0

FromFixedIter ==
  /\ buf \in [Cells -> Values]
  /\ len = Size

Init ==
  /\ New \/ FromFixedIter
  /\ write_idx = 0
  /\ read_idx = 0
  /\ popped = Uninit

is_full == len = Size
is_empty == len = 0

(* Faulty index, for the mutants: no wrap. *)
StepOn(i) == i + 1

(* The index after i. *)
Step(i) == (i + 1) % Size

(* push(); on a full buffer it returns an error and changes nothing. *)
Push(data) ==
  /\ ~is_full
  /\ buf' = [buf EXCEPT ![write_idx] = data]
  /\ write_idx' = Step(write_idx)
  /\ len' = len + 1
  /\ UNCHANGED <<read_idx, popped>>

(* Faulty pops, for the mutants: the read index stays where it is, or is   *)
(* moved before the cell is read.                                          *)
PopInPlace ==
  /\ ~is_empty
  /\ popped' = buf[read_idx]
  /\ buf' = [buf EXCEPT ![read_idx] = Uninit]
  /\ len' = len - 1
  /\ UNCHANGED <<read_idx, write_idx>>

PopNext ==
  /\ ~is_empty
  /\ popped' = buf[Step(read_idx)]
  /\ buf' = [buf EXCEPT ![read_idx] = Uninit]
  /\ read_idx' = Step(read_idx)
  /\ len' = len - 1
  /\ UNCHANGED write_idx

(* pop(): assume_init_read moves the value out of the cell. *)
Pop ==
  /\ ~is_empty
  /\ popped' = buf[read_idx]
  /\ buf' = [buf EXCEPT ![read_idx] = Uninit]
  /\ read_idx' = Step(read_idx)
  /\ len' = len - 1
  /\ UNCHANGED write_idx

Next == Pop \/ \E data \in Values : Push(data)

Spec == Init /\ [][Next]_vars

-----------------------------------------------------------------------------
(* The cell k places after the read index. *)
Cell(k) == IF read_idx + k < Size THEN read_idx + k ELSE read_idx + k - Size

(* Type invariant. *)
TypeOK ==
  /\ buf \in [Cells -> Values \cup {Uninit}]
  /\ write_idx \in Cells
  /\ read_idx \in Cells
  /\ len \in 0 .. Size
  /\ popped \in Values \cup {Uninit}

(* The cells that hold a value are exactly the len cells from read_idx on: *)
(* pop never reads an uninitialised or moved-out cell, and push never      *)
(* overwrites a value that was not popped (collections.rs:164-185).        *)
WindowExact ==
  \A i \in Cells : buf[i] # Uninit <=> \E k \in 0 .. len - 1 : i = Cell(k)

(* The three indices agree, whichever of the two wrapped last.             *)
IndicesAgree == write_idx = IF len = Size THEN read_idx ELSE Cell(len)

(* The ring buffer implements a FIFO queue: values leave in the order they *)
(* came, each once, through any number of wraps (collections.rs:164-185).  *)
Contents == [k \in 1 .. len |-> buf[Cell(k - 1)]]

Fifo == INSTANCE FifoQueue
          WITH NoValue <- Uninit, queue <- Contents, taken <- popped

ImplementsFifo == Fifo!Spec
=============================================================================
