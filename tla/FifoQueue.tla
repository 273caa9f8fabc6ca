----------------------------- MODULE FifoQueue ------------------------------
(***************************************************************************)
(* A bounded FIFO queue: what the executor's run queues and the free list  *)
(* of GenAlloc are taken to be.                                            *)
(***************************************************************************)
EXTENDS Naturals, Sequences

CONSTANTS
  Size,    \* how many values it holds
  Values,  \* the values
  NoValue  \* nothing has been taken

VARIABLES
  queue,
  taken    \* the value the last Take returned

vars == <<queue, taken>>

Init ==
  /\ queue \in {<< >>} \cup [1 .. Size -> Values]
  /\ taken = NoValue

Put(v) ==
  /\ Len(queue) < Size
  /\ queue' = Append(queue, v)
  /\ UNCHANGED taken

Take ==
  /\ queue # << >>
  /\ taken' = Head(queue)
  /\ queue' = Tail(queue)

Next == Take \/ \E v \in Values : Put(v)

Spec == Init /\ [][Next]_vars
=============================================================================
