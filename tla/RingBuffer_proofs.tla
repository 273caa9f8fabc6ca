-------------------------- MODULE RingBuffer_proofs -------------------------
(***************************************************************************)
(* Proofs about RingBuffer for every size and every set of values.         *)
(***************************************************************************)
EXTENDS RingBuffer, Sequences, TLAPS

(* The modulo of push and pop wraps at the end and nowhere else. *)
LEMMA StepWraps ==
  ASSUME NEW i \in Cells
  PROVE  Step(i) = IF i + 1 = Size THEN 0 ELSE i + 1
BY RingAssumption DEF Cells, Step

(* The inductive invariant: TypeOK and WindowExact, with the write index   *)
(* tied to the other two, which is what makes push hit a free cell.        *)
Inv == TypeOK /\ WindowExact /\ IndicesAgree

(* An empty buffer satisfies the invariant. *)
LEMMA InitInv == Init => Inv
<1> SUFFICES ASSUME Init PROVE Inv
  OBVIOUS
<1> USE RingAssumption DEF Init, Cells
<1>1. CASE New
  BY <1>1 DEF New, Inv, TypeOK, WindowExact, IndicesAgree, Cell
<1>2. CASE FromFixedIter
  <2>1. TypeOK
    BY <1>2 DEF FromFixedIter, TypeOK
  <2>2. WindowExact
    <3> SUFFICES ASSUME NEW i \in Cells
                 PROVE  buf[i] # Uninit /\ \E k \in 0 .. len - 1 : i = Cell(k)
      BY DEF WindowExact
    <3>1. buf[i] # Uninit
      BY <1>2 DEF FromFixedIter
    <3>2. i \in 0 .. len - 1 /\ i = Cell(i)
      BY <1>2 DEF FromFixedIter, Cell
    <3> QED
      BY <3>1, <3>2
  <2>3. IndicesAgree
    BY <1>2 DEF FromFixedIter, IndicesAgree
  <2> QED
    BY <2>1, <2>2, <2>3 DEF Inv
<1> QED
  BY <1>1, <1>2

(* A push keeps the window exact. *)
LEMMA PushInv ==
  ASSUME Inv, NEW data \in Values, Push(data)
  PROVE  Inv'
<1> USE RingAssumption
<1>1. /\ TypeOK /\ WindowExact /\ IndicesAgree
      /\ len # Size
      /\ buf' = [buf EXCEPT ![write_idx] = data]
      /\ write_idx' = Step(write_idx)
      /\ len' = len + 1
      /\ read_idx' = read_idx
      /\ popped' = popped
  BY DEF Inv, Push, is_full
<1>2. write_idx' = IF write_idx + 1 = Size THEN 0 ELSE write_idx + 1
  BY <1>1, StepWraps DEF TypeOK
<1>3. TypeOK'
  BY <1>1, <1>2 DEF TypeOK, Cells
<1>4. IndicesAgree'
  BY <1>1, <1>2 DEF TypeOK, IndicesAgree, Cell, Cells
<1>5. WindowExact'
  <2> SUFFICES ASSUME NEW i \in Cells
               PROVE  buf'[i] # Uninit <=> \E k \in 0 .. len : i = Cell(k)
    <3>1. len' - 1 = len
      BY <1>1 DEF TypeOK
    <3>2. \A k : Cell(k)' = Cell(k)
      BY <1>1 DEF Cell
    <3> QED
      BY <3>1, <3>2 DEF WindowExact, Cells
  <2>1. write_idx = Cell(len)
    BY <1>1 DEF IndicesAgree
  <2>2. CASE i = write_idx
    BY <1>1, <2>1, <2>2 DEF TypeOK
  <2>3. CASE i # write_idx
    <3>1. buf'[i] = buf[i]
      BY <1>1, <2>3 DEF TypeOK
    <3>2. (\E k \in 0 .. len : i = Cell(k)) <=> \E k \in 0 .. len - 1 : i = Cell(k)
      BY <1>1, <2>1, <2>3 DEF TypeOK
    <3> QED
      BY <1>1, <3>1, <3>2 DEF WindowExact
  <2> QED
    BY <2>2, <2>3
<1> QED
  BY <1>3, <1>4, <1>5 DEF Inv

(* A pop keeps the window exact. *)
LEMMA PopInv ==
  ASSUME Inv, Pop
  PROVE  Inv'
<1> USE RingAssumption
<1>1. /\ TypeOK /\ WindowExact /\ IndicesAgree
      /\ len # 0
      /\ popped' = buf[read_idx]
      /\ buf' = [buf EXCEPT ![read_idx] = Uninit]
      /\ read_idx' = Step(read_idx)
      /\ len' = len - 1
      /\ write_idx' = write_idx
  BY DEF Inv, Pop, is_empty
<1>2. read_idx' = IF read_idx + 1 = Size THEN 0 ELSE read_idx + 1
  BY <1>1, StepWraps DEF TypeOK
<1>3. TypeOK'
  BY <1>1, <1>2 DEF TypeOK, Cells
<1>4. IndicesAgree'
  BY <1>1, <1>2 DEF TypeOK, IndicesAgree, Cell, Cells
<1>5. ASSUME NEW k \in 0 .. len - 2
      PROVE  Cell(k)' = Cell(k + 1)
  BY <1>1, <1>2 DEF TypeOK, Cell, Cells
<1>6. WindowExact'
  <2> SUFFICES ASSUME NEW i \in Cells
               PROVE  buf'[i] # Uninit <=> \E k \in 0 .. len - 2 : i = Cell(k)'
    BY <1>1 DEF WindowExact, TypeOK, Cell, Cells
  <2>1. read_idx = Cell(0)
    BY <1>1 DEF TypeOK, Cell, Cells
  <2>2. CASE i = read_idx
    <3>1. buf'[i] = Uninit
      BY <1>1, <2>2 DEF TypeOK
    <3>2. \A k \in 0 .. len - 2 : i # Cell(k)'
      BY <1>1, <1>2, <2>2 DEF TypeOK, Cell, Cells
    <3> QED
      BY <3>1, <3>2
  <2>3. CASE i # read_idx
    <3>1. buf'[i] = buf[i]
      BY <1>1, <2>3 DEF TypeOK
    <3>2. (\E k \in 0 .. len - 1 : i = Cell(k)) <=> \E k \in 0 .. len - 2 : i = Cell(k + 1)
      <4>1. ASSUME NEW k \in 0 .. len - 1, i = Cell(k)
            PROVE  \E j \in 0 .. len - 2 : i = Cell(j + 1)
        <5>1. k # 0
          BY <2>1, <2>3, <4>1
        <5>2. k - 1 \in 0 .. len - 2 /\ (k - 1) + 1 = k
          BY <1>1, <5>1 DEF TypeOK
        <5> QED
          BY <4>1, <5>2
      <4>2. ASSUME NEW k \in 0 .. len - 2, i = Cell(k + 1)
            PROVE  \E j \in 0 .. len - 1 : i = Cell(j)
        <5>1. k + 1 \in 0 .. len - 1
          BY <1>1 DEF TypeOK
        <5> QED
          BY <4>2, <5>1
      <4> QED
        BY <4>1, <4>2
    <3> QED
      BY <1>1, <1>5, <3>1, <3>2 DEF WindowExact
  <2> QED
    BY <2>2, <2>3
<1> QED
  BY <1>3, <1>4, <1>6 DEF Inv

(* Push and pop preserve the invariant, and so does doing nothing. *)
LEMMA NextInv == Inv /\ [Next]_vars => Inv'
<1> SUFFICES ASSUME Inv, [Next]_vars PROVE Inv'
  OBVIOUS
<1>1. CASE Pop
  BY <1>1, PopInv
<1>2. ASSUME NEW data \in Values, Push(data) PROVE Inv'
  BY <1>2, PushInv
<1>3. CASE UNCHANGED vars
  BY <1>3 DEF vars, Inv, TypeOK, WindowExact, IndicesAgree, Cell
<1> QED
  BY <1>1, <1>2, <1>3 DEF Next

(* The invariant holds in every reachable state. *)
LEMMA InvHolds == Spec => []Inv
BY InitInv, NextInv, PTL DEF Spec

(* The indices stay in range whatever is pushed and popped                 *)
(* (collections.rs:164-185).                                               *)
THEOREM RingTypeOK == Spec => []TypeOK
<1>1. Inv => TypeOK
  BY DEF Inv
<1> QED
  BY <1>1, InvHolds, PTL

(* pop never reads a cell without a value and push never overwrites one    *)
(* (the unsafe blocks at collections.rs:166 and 178-181).                  *)
THEOREM RingWindowExact == Spec => []WindowExact
<1>1. Inv => WindowExact
  BY DEF Inv
<1> QED
  BY <1>1, InvHolds, PTL

-----------------------------------------------------------------------------
(* The contents are a sequence of values, in this state and, since Inv is  *)
(* kept, in the next.                                                      *)
ContentsAre ==
  /\ Contents \in Seq(Values)
  /\ Len(Contents) = len
  /\ \A k \in 1 .. len : Contents[k] = buf[Cell(k - 1)]

(* Under the invariant the window is a sequence of len initialised values. *)
LEMMA ContentsSeq == Inv => ContentsAre
<1> SUFFICES ASSUME Inv PROVE ContentsAre
  OBVIOUS
<1> USE RingAssumption
<1>1. len \in Nat /\ len <= Size
  BY DEF Inv, TypeOK
<1>2. ASSUME NEW k \in 1 .. len
      PROVE  buf[Cell(k - 1)] \in Values
  <2>1. k - 1 \in 0 .. len - 1 /\ Cell(k - 1) \in Cells
    BY <1>1 DEF Inv, TypeOK, Cell, Cells
  <2>2. buf[Cell(k - 1)] # Uninit
    BY <2>1 DEF Inv, WindowExact
  <2> QED
    BY <2>1, <2>2 DEF Inv, TypeOK
<1>3. Contents \in [1 .. len -> Values]
  BY <1>2 DEF Contents
<1> QED
  BY <1>1, <1>3 DEF Contents, ContentsAre

(* The same of the next state. *)
LEMMA NextContentsSeq == Inv' => ContentsAre'
BY ContentsSeq, PTL

(* The empty buffer is the empty queue. *)
LEMMA InitRefines == Init => Fifo!Init
<1> SUFFICES ASSUME Init PROVE Fifo!Init
  OBVIOUS
<1>1. popped = Uninit
  BY DEF Init
<1>2. Inv
  BY InitInv
<1>3. CASE New
  <2>1. Contents = << >>
    BY <1>2, <1>3, ContentsSeq DEF ContentsAre, New
  <2> QED
    BY <1>1, <2>1 DEF Fifo!Init
<1>4. CASE FromFixedIter
  <2>1. Contents \in [1 .. Size -> Values]
    BY <1>2, <1>4, ContentsSeq, RingAssumption DEF ContentsAre, FromFixedIter
  <2> QED
    BY <1>1, <2>1 DEF Fifo!Init
<1> QED
  BY <1>3, <1>4 DEF Init

(* A push of the buffer is a push of the queue. *)
LEMMA PushRefines ==
  ASSUME Inv, NEW data \in Values, Push(data)
  PROVE  Fifo!Put(data)
<1> USE RingAssumption
<1>1. Inv'
  BY PushInv
<1>2. /\ len' = len + 1 /\ len < Size /\ len \in Nat
      /\ buf' = [buf EXCEPT ![write_idx] = data]
      /\ \A k : Cell(k)' = Cell(k)
      /\ popped' = popped
  BY DEF Push, is_full, Inv, TypeOK, Cell
<1>3. Contents \in Seq(Values) /\ Len(Contents) = len
  BY ContentsSeq DEF ContentsAre
<1>4. Contents' \in Seq(Values) /\ Len(Contents') = len + 1
  BY <1>1, <1>2, NextContentsSeq DEF ContentsAre
<1>5. ASSUME NEW k \in 1 .. len + 1
      PROVE  Contents'[k] = Append(Contents, data)[k]
  <2>1. Contents'[k] = buf'[Cell(k - 1)]
    BY <1>1, <1>2, NextContentsSeq DEF ContentsAre
  <2>2. write_idx = Cell(len) /\ write_idx \in Cells /\ buf \in [Cells -> Values \cup {Uninit}]
    BY <1>2 DEF Inv, IndicesAgree, TypeOK
  <2>3. CASE k = len + 1
    BY <1>2, <1>3, <2>1, <2>2, <2>3
  <2>4. CASE k \in 1 .. len
    <3>1. Cell(k - 1) # Cell(len) /\ Cell(k - 1) \in Cells
      BY <1>2, <2>4 DEF Cell, Cells, Inv, TypeOK
    <3>2. Contents[k] = buf[Cell(k - 1)]
      BY <2>4, ContentsSeq DEF ContentsAre
    <3> QED
      BY <1>2, <1>3, <2>1, <2>2, <2>4, <3>1, <3>2
  <2>5. k = len + 1 \/ k \in 1 .. len
    BY <1>2
  <2> QED
    BY <2>3, <2>4, <2>5
<1>6. Contents' = Append(Contents, data)
  BY <1>2, <1>3, <1>4, <1>5
<1> QED
  BY <1>2, <1>3, <1>6 DEF Fifo!Put

(* A pop of the buffer is a pop of the queue. *)
LEMMA PopRefines ==
  ASSUME Inv, Pop
  PROVE  Fifo!Take
<1> USE RingAssumption
<1>1. Inv'
  BY PopInv
<1>2. /\ len' = len - 1 /\ len # 0 /\ len \in Nat /\ len <= Size
      /\ buf' = [buf EXCEPT ![read_idx] = Uninit]
      /\ read_idx' = Step(read_idx)
      /\ popped' = buf[read_idx]
      /\ read_idx \in Cells /\ buf \in [Cells -> Values \cup {Uninit}]
  BY DEF Pop, is_empty, Inv, TypeOK
<1>3. read_idx' = IF read_idx + 1 = Size THEN 0 ELSE read_idx + 1
  BY <1>2, StepWraps
<1>4. Contents \in Seq(Values) /\ Len(Contents) = len
  BY ContentsSeq DEF ContentsAre
<1>5. Contents' \in Seq(Values) /\ Len(Contents') = len - 1
  BY <1>1, <1>2, NextContentsSeq DEF ContentsAre
<1>6. Contents # << >> /\ Head(Contents) = buf[read_idx]
  <2>1. Contents[1] = buf[Cell(0)] /\ Cell(0) = read_idx
    BY <1>2, ContentsSeq DEF ContentsAre, Cell, Cells
  <2> QED
    BY <1>2, <1>4, <2>1
<1>7. ASSUME NEW k \in 1 .. len - 1
      PROVE  Contents'[k] = Tail(Contents)[k]
  <2>1. Contents'[k] = buf'[Cell(k - 1)']
    BY <1>1, <1>2, NextContentsSeq DEF ContentsAre
  <2>2. Cell(k - 1)' = Cell(k) /\ Cell(k) # read_idx /\ Cell(k) \in Cells
    BY <1>2, <1>3 DEF Cell, Cells
  <2>3. Contents[k + 1] = buf[Cell(k)]
    BY <1>2, ContentsSeq DEF ContentsAre
  <2> QED
    BY <1>2, <1>4, <2>1, <2>2, <2>3
<1>8. Contents' = Tail(Contents)
  BY <1>2, <1>4, <1>5, <1>7
<1> QED
  BY <1>2, <1>6, <1>8 DEF Fifo!Take

(* RingBuffer implements the bounded FIFO queue (collections.rs:164-185).  *)
THEOREM RingImplementsFifo == Spec => ImplementsFifo
<1>1. Inv /\ [Next]_vars => [Fifo!Next]_(Fifo!vars)
  <2> SUFFICES ASSUME Inv, [Next]_vars PROVE [Fifo!Next]_(Fifo!vars)
    OBVIOUS
  <2>1. CASE Pop
    BY <2>1, PopRefines DEF Fifo!Next
  <2>2. ASSUME NEW data \in Values, Push(data) PROVE Fifo!Next
    BY <2>2, PushRefines DEF Fifo!Next
  <2>3. CASE UNCHANGED vars
    BY <2>3 DEF vars, Fifo!vars, Contents, Cell
  <2> QED
    BY <2>1, <2>2, <2>3 DEF Next
<1> QED
  BY <1>1, InitRefines, InvHolds, PTL DEF Spec, ImplementsFifo, Fifo!Spec
=============================================================================
