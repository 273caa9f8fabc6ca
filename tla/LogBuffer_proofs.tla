-------------------------- MODULE LogBuffer_proofs --------------------------
(***************************************************************************)
(* Proofs about the logger: what a log macro puts together, for every      *)
(* capacity of the line buffer and every length of the message, and the    *)
(* logger with one producer thread, the way main.rs uses it, for every     *)
(* size of the buffers and every number of log lines.                      *)
(***************************************************************************)
EXTENDS LogProperties, SequenceTheorems, TLAPS

(* A buffer that holds the first m bytes of a line. *)
Holds(f, m) ==
  /\ m \in 0 .. MAX_LOG_LINE
  /\ f.pos = m
  /\ \A j \in 1 .. m : f.buf[j - 1] = j

Shorter(a, b) == IF a < b THEN a ELSE b

(* The empty buffer holds nothing. *)
LEMMA NewHolds == Holds(NewFmtBuf, 0)
BY LineAssumption DEF Holds, NewFmtBuf

(* Writing the next n bytes of a line adds those there is room for: pos    *)
(* stays inside the buffer and what was there stays in place.              *)
LEMMA WriteHolds ==
  ASSUME NEW f, NEW m, Holds(f, m), NEW a \in Nat, NEW n \in Nat,
         a = m \/ m = MAX_LOG_LINE
  PROVE  Holds(write_str(f, Piece(a, n)), Shorter(m + n, MAX_LOG_LINE))
<1> DEFINE s == Piece(a, n)
           w == ToWrite(f, Len(s))
           g == write_str(f, s)
<1>1. Len(s) = n /\ \A j \in 1 .. n : s[j] = a + j
  BY DEF Piece
<1>2. m \in Nat /\ MAX_LOG_LINE \in Nat /\ m <= MAX_LOG_LINE /\ f.pos = m
  BY LineAssumption DEF Holds
<1>3. /\ w \in Nat /\ w <= n
      /\ m + w = Shorter(m + n, MAX_LOG_LINE)
      /\ m + w \in 0 .. MAX_LOG_LINE
      /\ m = MAX_LOG_LINE => w = 0
  BY <1>1, <1>2 DEF ToWrite, Shorter
<1>4. g.pos = m + w
  BY <1>2 DEF write_str
<1>5. ASSUME NEW j \in 1 .. m + w
      PROVE  g.buf[j - 1] = j
  <2>1. j - 1 \in 0 .. MAX_LOG_LINE - 1
    BY <1>2, <1>3
  <2>2. g.buf[j - 1] = IF j - 1 \in m .. m + w - 1 THEN s[(j - 1) - m + 1] ELSE f.buf[j - 1]
    BY <1>2, <2>1 DEF write_str
  <2>3. CASE j <= m
    <3>1. j \in 1 .. m /\ j - 1 \notin m .. m + w - 1
      BY <1>2, <1>3, <2>3
    <3>2. f.buf[j - 1] = j
      BY <3>1 DEF Holds
    <3> QED
      BY <2>2, <3>1, <3>2, Zenon
  <2>4. CASE ~(j <= m)
    <3>1. /\ j - 1 \in m .. m + w - 1
          /\ (j - 1) - m + 1 \in 1 .. n
          /\ a = m
          /\ a + ((j - 1) - m + 1) = j
      BY <1>2, <1>3, <2>4
    <3> HIDE DEF s, g
    <3> QED
      BY <1>1, <2>2, <3>1
  <2> QED
    BY <2>3, <2>4
<1> QED
  BY <1>3, <1>4, <1>5 DEF Holds

(* The slice that is pushed is what the buffer holds. *)
LEMMA AsBytesHolds ==
  ASSUME NEW f, NEW m, Holds(f, m)
  PROVE  as_bytes(f) = [j \in 1 .. m |-> j]
BY DEF Holds, as_bytes

(* The prefixes have one of three lengths. *)
LEMMA PrefixLenType ==
  ASSUME NEW level \in LogLevels
  PROVE  PrefixLen(level) \in Nat
BY DEF LogLevels, PrefixLen

(* A log line is its prefix, message and newline as one text, cut at the   *)
(* capacity of the buffer: the three writes never leave a gap, overwrite a *)
(* byte or run past the array, however long the message is; a line that    *)
(* was cut has lost its newline (lib.rs:49-81, 254-268).                   *)
THEOREM FormattedIsCut ==
  ASSUME NEW level \in LogLevels, NEW n \in Nat
  PROVE  Formatted(level, n) =
           [j \in 1 .. Shorter(PrefixLen(level) + n + 1, MAX_LOG_LINE) |-> j]
<1> DEFINE k == PrefixLen(level)
           prefix  == write_str(NewFmtBuf, Piece(0, k))
           message == write_str(prefix, Piece(k, n))
           newline == write_str(message, Piece(k + n, 1))
<1>1. k \in Nat /\ MAX_LOG_LINE \in Nat
  BY PrefixLenType, LineAssumption
<1> HIDE DEF k
<1>2. Holds(prefix, Shorter(0 + k, MAX_LOG_LINE))
  BY <1>1, NewHolds, WriteHolds
<1>3. k = Shorter(0 + k, MAX_LOG_LINE) \/ Shorter(0 + k, MAX_LOG_LINE) = MAX_LOG_LINE
  BY <1>1 DEF Shorter
<1> HIDE DEF prefix
<1>4. Holds(message, Shorter(Shorter(0 + k, MAX_LOG_LINE) + n, MAX_LOG_LINE))
  BY <1>1, <1>2, <1>3, WriteHolds
<1>5. Shorter(Shorter(0 + k, MAX_LOG_LINE) + n, MAX_LOG_LINE) = Shorter(k + n, MAX_LOG_LINE)
  BY <1>1 DEF Shorter
<1>6. k + n \in Nat /\ (k + n = Shorter(k + n, MAX_LOG_LINE) \/ Shorter(k + n, MAX_LOG_LINE) = MAX_LOG_LINE)
  BY <1>1 DEF Shorter
<1> HIDE DEF message
<1>7. Holds(newline, Shorter(Shorter(k + n, MAX_LOG_LINE) + 1, MAX_LOG_LINE))
  BY <1>4, <1>5, <1>6, WriteHolds
<1>8. Shorter(Shorter(k + n, MAX_LOG_LINE) + 1, MAX_LOG_LINE) = Shorter(k + n + 1, MAX_LOG_LINE)
  BY <1>1 DEF Shorter
<1>9. Formatted(level, n) = as_bytes(newline)
  BY DEF Formatted, newline, message, prefix, k
<1> HIDE DEF newline
<1> QED
  BY <1>7, <1>8, <1>9, AsBytesHolds DEF k

(* A line that is pushed is never empty and never longer than the buffer   *)
(* it was put together in (lib.rs:59-61, 254-268).                         *)
LEMMA FormattedLen ==
  ASSUME NEW level \in LogLevels, NEW n \in Nat
  PROVE  Len(Formatted(level, n)) \in 1 .. MAX_LOG_LINE
<1> DEFINE m == Shorter(PrefixLen(level) + n + 1, MAX_LOG_LINE)
<1>1. m \in 1 .. MAX_LOG_LINE
  BY PrefixLenType, LineAssumption DEF Shorter
<1> HIDE DEF m
<1>2. Len([j \in 1 .. m |-> j]) = m
  BY <1>1
<1> QED
  BY <1>1, <1>2, FormattedIsCut DEF m

-----------------------------------------------------------------------------

(* The executor's thread is the only one that logs. *)
OneProducer == \A p, q \in Producers : p = q

Cells == Bytes \cup {Uninit}

(* A producer between its exchange and the fetch_and. *)
Holding(p) == ppc[p] \in {"offset", "copy", "publish", "clear"}

-----------------------------------------------------------------------------
(* The inductive invariant.  The writer bit is up exactly while a producer *)
(* holds it, and the index does not change under it; a flip only replaces  *)
(* a state without the bit.                                                *)
WriterInv ==
  /\ \A p \in Producers : Holding(p) => state.writer /\ pcurr[p].idx = state.idx
  /\ cpc = "cas" => ~ccurr.writer

(* A consumer drains the buffer that is not active, and the buffer that is *)
(* neither active nor being drained is empty.                              *)
DrainInv ==
  /\ Draining => ccurr.idx = 1 - state.idx
  /\ ~Draining => offsets[1 - state.idx] = 0
  /\ cpc = "write" => coffset = offsets[ccurr.idx]

(* What a producer has read of the offset stays true until it publishes.   *)
OffsetInv ==
  \A p \in Producers :
    /\ plen[p] \in Nat
    /\ ppc[p] \in {"copy", "publish"} =>
         /\ poffset[p] = offsets[pcurr[p].idx]
         /\ poffset[p] + plen[p] <= BufSize

Inv == TypeOK /\ WriterInv /\ DrainInv /\ OffsetInv

(* The fields of the packed state word, before and after a swap. *)
LEMMA StatesFields ==
  ASSUME NEW s \in States
  PROVE  /\ s.writer \in BOOLEAN
         /\ s.idx \in {0, 1}
         /\ 1 - s.idx \in {0, 1}
         /\ 1 - (1 - s.idx) = s.idx
         /\ 1 - s.idx # s.idx
BY DEF States, Indices

(* A line is a sequence of its own length. *)
LEMMA LineType ==
  ASSUME NEW p \in Producers, NEW k \in Nat, NEW n \in Nat
  PROVE  Line(p, k, n) \in Seq(Bytes) /\ Len(Line(p, k, n)) = n
BY DEF Line, Bytes

(* The first n cells of a buffer are a sequence of length n. *)
LEMMA SliceType ==
  ASSUME TypeOK, NEW i \in Indices, NEW n \in 0 .. BufSize
  PROVE  Slice(i, n) \in Seq(Cells) /\ Len(Slice(i, n)) = n
<1>1. n \in Nat /\ \A j \in 1 .. n : j - 1 \in 0 .. BufSize - 1
  BY LogAssumption
<1>2. \A j \in 1 .. n : bufs[i][j - 1] \in Cells
  <2>1. bufs \in [Indices -> [0 .. BufSize - 1 -> Cells]]
    BY Zenon DEF TypeOK, Cells
  <2> QED
    BY <1>1, <2>1
<1>3. [j \in 1 .. n |-> bufs[i][j - 1]] \in Seq(Cells)
  BY <1>1, <1>2
<1>4. Len([j \in 1 .. n |-> bufs[i][j - 1]]) = n
  BY <1>1
<1> QED
  BY <1>3, <1>4 DEF Slice

(* The initial state satisfies the invariant. *)
LEMMA InitInv == Init => Inv
<1> SUFFICES ASSUME Init PROVE Inv
  OBVIOUS
<1> USE LogAssumption, LineAssumption DEF Init, Indices
<1>1. TypeOK
  BY DEF TypeOK, States, PLoc, CLoc
<1>2. WriterInv /\ DrainInv /\ OffsetInv
  BY DEF WriterInv, DrainInv, OffsetInv, Holding, Draining
<1> QED
  BY <1>1, <1>2 DEF Inv

-----------------------------------------------------------------------------
(* One lemma per group of actions. *)
LEMMA HlogStep ==
  ASSUME Inv, NEW p \in Producers, NEW level \in LogLevels, NEW n \in 0 .. MaxMessage,
         hlog(p, level, n)
  PROVE  Inv'
<1> USE LogAssumption DEF hlog, PGoto, sharedVars, consumerVars, Inv
<1>0. Len(Formatted(level, n)) \in 1 .. MAX_LOG_LINE /\ MAX_LOG_LINE \in Nat
  BY FormattedLen, LineAssumption
<1>1. TypeOK'
  BY <1>0, SMTT(20) DEF TypeOK, PLoc
<1>2. WriterInv' /\ DrainInv'
  BY DEF TypeOK, WriterInv, DrainInv, Holding, Draining
<1>3. OffsetInv'
  BY <1>0 DEF TypeOK, OffsetInv
<1> QED
  BY <1>1, <1>2, <1>3

(* The producer reads the state word. *)
LEMMA LoadStateStep ==
  ASSUME Inv, NEW p \in Producers, LoadState(p)
  PROVE  Inv'
<1> USE LogAssumption DEF LoadState, PGoto, sharedVars, consumerVars, Inv
<1>1. TypeOK'
  BY DEF TypeOK, PLoc
<1>2. WriterInv' /\ DrainInv'
  BY DEF TypeOK, WriterInv, DrainInv, Holding, Draining
<1>3. OffsetInv'
  BY DEF TypeOK, OffsetInv
<1> QED
  BY <1>1, <1>2, <1>3

(* The compare-exchange succeeds: the producer becomes the writer. *)
LEMMA AcquireStep ==
  ASSUME Inv, NEW p \in Producers, Acquire(p)
  PROVE  Inv'
<1> USE LogAssumption DEF Acquire, PGoto, consumerVars, Inv
<1>1. /\ pcurr[p] \in States
      /\ state' \in States
      /\ state'.writer
      /\ state'.idx = pcurr[p].idx
      /\ state'.idx = state.idx
  BY DEF TypeOK, States
<1>2. TypeOK'
  BY <1>1 DEF TypeOK, PLoc
<1>3. WriterInv' /\ DrainInv'
  BY <1>1 DEF TypeOK, WriterInv, DrainInv, Holding, Draining
<1>4. OffsetInv'
  BY DEF TypeOK, OffsetInv
<1> QED
  BY <1>2, <1>3, <1>4

(* The compare-exchange fails: the producer starts over. *)
LEMMA AcquireFailsStep ==
  ASSUME Inv, NEW p \in Producers, AcquireFails(p)
  PROVE  Inv'
<1> USE LogAssumption DEF AcquireFails, PGoto, sharedVars, consumerVars, Inv
<1>1. TypeOK'
  BY DEF TypeOK, PLoc
<1>2. WriterInv' /\ DrainInv'
  BY DEF TypeOK, WriterInv, DrainInv, Holding, Draining
<1>3. OffsetInv'
  BY DEF TypeOK, OffsetInv
<1> QED
  BY <1>1, <1>2, <1>3

(* The writer reads the offset and tests whether its line fits. *)
LEMMA LoadOffsetStep ==
  ASSUME Inv, NEW p \in Producers, LoadOffset(p)
  PROVE  Inv'
<1> USE LogAssumption DEF LoadOffset, PGoto, sharedVars, consumerVars, Inv
<1>0. pcurr[p].idx \in Indices
  BY DEF TypeOK, States
<1>1. TypeOK'
  BY <1>0 DEF TypeOK, PLoc
<1>2. WriterInv' /\ DrainInv'
  BY DEF TypeOK, WriterInv, DrainInv, Holding, Draining
<1>3. OffsetInv'
  BY <1>0 DEF TypeOK, OffsetInv, Fits
<1> QED
  BY <1>1, <1>2, <1>3

(* The writer copies its line into the active buffer. *)
LEMMA CopyStep ==
  ASSUME Inv, NEW p \in Producers, Copy(p)
  PROVE  Inv'
<1> USE LogAssumption DEF Copy, PGoto, consumerVars, Inv
<1>1. bufs' \in [Indices -> [0 .. BufSize - 1 -> Bytes \cup {Uninit}]]
  <2>1. ASSUME NEW j \in poffset[p] .. poffset[p] + plen[p] - 1
        PROVE  Line(p, pushes[p], plen[p])[j - poffset[p] + 1] \in Bytes
    <3>1. plen[p] \in Nat /\ pushes[p] \in Nat /\ poffset[p] \in Nat
      BY DEF TypeOK
    <3>2. j - poffset[p] + 1 \in 1 .. plen[p] /\ j - poffset[p] + 1 \in Nat
      BY <3>1
    <3> QED
      BY <3>1, <3>2 DEF Line, Bytes
  <2> QED
    BY <2>1 DEF TypeOK
<1>2. TypeOK'
  BY <1>1 DEF TypeOK, PLoc
<1>3. WriterInv' /\ DrainInv'
  BY DEF TypeOK, WriterInv, DrainInv, Holding, Draining
<1>4. OffsetInv'
  BY DEF TypeOK, OffsetInv
<1> QED
  BY <1>2, <1>3, <1>4

(* The writer publishes the new offset. *)
LEMMA PublishStep ==
  ASSUME OneProducer, Inv, NEW p \in Producers, Publish(p)
  PROVE  Inv'
<1> USE LogAssumption DEF Publish, PGoto, consumerVars, Inv
<1>1. /\ pcurr[p].idx \in Indices
      /\ poffset[p] = offsets[pcurr[p].idx]
      /\ poffset[p] + plen[p] <= BufSize
      /\ plen[p] \in Nat /\ pushes[p] \in Nat
      /\ pcurr[p].idx = state.idx
  BY DEF TypeOK, States, OffsetInv, WriterInv, Holding
<1>2. offsets' \in [Indices -> 0 .. BufSize]
  BY <1>1 DEF TypeOK
<1>3. accepted' \in Seq(Bytes)
  BY <1>1, LineType, ConcatProperties DEF TypeOK
<1>4. TypeOK'
  BY <1>2, <1>3 DEF TypeOK, PLoc
<1>5. WriterInv'
  BY DEF TypeOK, WriterInv, Holding
<1>6. DrainInv'
  BY <1>1, StatesFields DEF TypeOK, DrainInv, Draining, Indices
<1>7. OffsetInv'
  BY DEF TypeOK, OffsetInv, OneProducer
<1> QED
  BY <1>4, <1>5, <1>6, <1>7

(* The writer clears its flag. *)
LEMMA ClearStep ==
  ASSUME OneProducer, Inv, NEW p \in Producers, Clear(p)
  PROVE  Inv'
<1> USE LogAssumption DEF Clear, PGoto, consumerVars, Inv
<1>1. state' \in States /\ state'.idx = state.idx
  BY DEF TypeOK, States
<1>2. TypeOK'
  BY <1>1 DEF TypeOK, PLoc
<1>3. WriterInv'
  BY DEF TypeOK, WriterInv, Holding, OneProducer
<1>4. DrainInv' /\ OffsetInv'
  BY <1>1 DEF TypeOK, DrainInv, Draining, OffsetInv
<1> QED
  BY <1>2, <1>3, <1>4

(* The panic hook: the panicking thread flushes what the buffers hold. *)
LEMMA PanicStep ==
  ASSUME Inv, NEW p \in Producers, Panic(p) \/ PanicFlush(p)
  PROVE  Inv'
<1> USE LogAssumption DEF Panic, PanicFlush, Flush, PGoto, sharedVars, consumerVars, Inv
<1>1. out' \in Seq(Bytes \cup {Uninit})
  <2>1. ASSUME NEW i \in Indices
        PROVE  out \o Slice(i, offsets[i]) \in Seq(Cells)
    <3>1. Slice(i, offsets[i]) \in Seq(Cells)
      BY SliceType DEF TypeOK
    <3> QED
      BY <3>1, ConcatProperties DEF TypeOK, Cells
  <2>2. out' = out \/ \E i \in Indices : out' = out \o Slice(i, offsets[i])
    BY DEF Indices
  <2> QED
    BY <2>1, <2>2 DEF TypeOK, Cells
<1>2. TypeOK'
  BY <1>1 DEF TypeOK, PLoc
<1>3. WriterInv' /\ DrainInv' /\ OffsetInv'
  BY DEF TypeOK, WriterInv, Holding, DrainInv, Draining, OffsetInv
<1> QED
  BY <1>2, <1>3

(* Every step of the consumer keeps the invariant. *)
LEMMA ConsumerStep ==
  ASSUME Inv, Consumer
  PROVE  Inv'
<1> USE LogAssumption DEF Inv, CGoto
<1>s. /\ state \in States /\ ccurr \in States
      /\ state.idx \in Indices /\ ccurr.idx \in Indices
      /\ 1 - state.idx \in Indices /\ 1 - ccurr.idx \in Indices
  BY StatesFields DEF TypeOK, Indices
<1>1. CASE Consume
  BY <1>1 DEF Consume, sharedVars, producerVars, TypeOK, CLoc,
              WriterInv, Holding, DrainInv, Draining, OffsetInv
<1>2. CASE ConsumerLoad
  BY <1>2, <1>s DEF ConsumerLoad, sharedVars, producerVars, TypeOK, CLoc,
              WriterInv, Holding, DrainInv, Draining, OffsetInv
<1>3. CASE Flip
  <2> USE <1>3 DEF Flip, producerVars
  <2>1. /\ state' \in States /\ ~state'.writer /\ state'.idx = 1 - ccurr.idx
        /\ ~state.writer /\ state.idx = ccurr.idx
    BY <1>s DEF States, WriterInv
  <2>2. TypeOK'
    BY <2>1 DEF TypeOK, CLoc
  <2>3. WriterInv'
    BY <2>1 DEF WriterInv, Holding
  <2>4. DrainInv'
    BY <2>1, <1>s, StatesFields DEF DrainInv, Draining
  <2>5. OffsetInv'
    BY DEF OffsetInv
  <2> QED
    BY <2>2, <2>3, <2>4, <2>5
<1>4. CASE FlipFails
  BY <1>4 DEF FlipFails, sharedVars, producerVars, TypeOK, CLoc,
              WriterInv, Holding, DrainInv, Draining, OffsetInv
<1>5. CASE ConsumerLoadOffset
  BY <1>5, <1>s DEF ConsumerLoadOffset, sharedVars, producerVars, TypeOK, CLoc,
              WriterInv, Holding, DrainInv, Draining, OffsetInv
<1>6. CASE WriteOut
  <2> USE <1>6 DEF WriteOut, sharedVars, producerVars
  <2>1. Slice(ccurr.idx, coffset) \in Seq(Cells)
    BY <1>s, SliceType DEF TypeOK
  <2>2. out' \in Seq(Bytes \cup {Uninit})
    BY <2>1, ConcatProperties DEF TypeOK, Cells
  <2> QED
    BY <2>2 DEF TypeOK, CLoc, WriterInv, Holding, DrainInv, Draining, OffsetInv
<1>7. CASE Reset
  <2> USE <1>7 DEF Reset, producerVars
  <2>1. TypeOK'
    BY <1>s DEF TypeOK, CLoc
  <2>2. WriterInv' /\ DrainInv'
    BY <1>s DEF TypeOK, WriterInv, Holding, DrainInv, Draining
  <2>3. OffsetInv'
    BY <1>s, StatesFields DEF TypeOK, OffsetInv, WriterInv, Holding, DrainInv, Draining
  <2> QED
    BY <2>1, <2>2, <2>3
<1> QED
  BY <1>1, <1>2, <1>3, <1>4, <1>5, <1>6, <1>7 DEF Consumer

(* Every step keeps the invariant when there is one producer. *)
LEMMA NextInv == OneProducer /\ Inv /\ [Next]_vars => Inv'
<1> SUFFICES ASSUME OneProducer, Inv, [Next]_vars PROVE Inv'
  OBVIOUS
<1>1. ASSUME NEW p \in Producers, NEW level \in LogLevels, NEW n \in 0 .. MaxMessage,
             hlog(p, level, n)
      PROVE  Inv'
  BY <1>1, HlogStep
<1>2. ASSUME NEW p \in Producers, Producer(p) PROVE Inv'
  BY <1>2, LoadStateStep, AcquireStep, AcquireFailsStep, LoadOffsetStep, CopyStep,
     PublishStep, ClearStep DEF Producer
<1>3. ASSUME NEW p \in Producers, Panic(p) \/ PanicFlush(p) PROVE Inv'
  BY <1>3, PanicStep
<1>4. CASE Consumer
  BY <1>4, ConsumerStep
<1>5. CASE UNCHANGED vars
  BY <1>5 DEF vars, sharedVars, producerVars, consumerVars, Inv, TypeOK, WriterInv,
              Holding, DrainInv, Draining, OffsetInv
<1> QED
  BY <1>1, <1>2, <1>3, <1>4, <1>5 DEF Next

(* The invariant holds in every reachable state. *)
LEMMA InvHolds ==
  ASSUME OneProducer
  PROVE  Spec => []Inv
<1>1. Inv /\ [Next]_vars => Inv'
  BY NextInv
<1> QED
  BY <1>1, InitInv, PTL DEF Spec

(* With one producer, the offsets never leave the buffer and every atomic  *)
(* holds one of its values (lib.rs:131-180, 207-250).                      *)
THEOREM LogTypeOK ==
  ASSUME OneProducer
  PROVE  Spec => []TypeOK
<1>1. Inv => TypeOK
  BY DEF Inv
<1> QED
  BY <1>1, InvHolds, PTL

(* With one producer, the SAFETY comment at lib.rs:91-93 is true: producer *)
(* and consumer are never on the same buffer.                              *)
THEOREM LogMutualExclusion ==
  ASSUME OneProducer
  PROVE  Spec => []MutualExclusion
<1>1. Inv => MutualExclusion
  <2> SUFFICES ASSUME Inv, NEW p \in Producers, Writing(p)
               PROVE  /\ Draining => pcurr[p].idx # ccurr.idx
                      /\ \A q \in Producers : p = q
    BY DEF MutualExclusion
  <2>1. pcurr[p].idx = state.idx /\ state \in States
    BY DEF Inv, TypeOK, WriterInv, Holding, Writing
  <2>2. Draining => ccurr.idx = 1 - state.idx
    BY DEF Inv, DrainInv
  <2> QED
    BY <2>1, <2>2, StatesFields DEF OneProducer
<1> QED
  BY <1>1, InvHolds, PTL

-----------------------------------------------------------------------------
(* The stream: what was written and what is in the buffers is what was     *)
(* accepted.  It takes that a copied line stays in place until its length  *)
(* is published.                                                           *)
CopiedInv ==
  \A p \in Producers : ppc[p] = "publish" =>
    \A j \in 1 .. plen[p] :
      bufs[pcurr[p].idx][poffset[p] + j - 1] = Line(p, pushes[p], plen[p])[j]

(* What was delivered, taken and written are sequences of cells. *)
LEMMA UndeliveredType ==
  ASSUME Inv
  PROVE  /\ out \in Seq(Cells)
         /\ Taken \in Seq(Cells)
         /\ Slice(state.idx, offsets[state.idx]) \in Seq(Cells)
         /\ Undelivered \in Seq(Cells)
<1>1. state.idx \in Indices /\ ccurr.idx \in Indices
  BY DEF Inv, TypeOK, States
<1>2. \A i \in Indices : Slice(i, offsets[i]) \in Seq(Cells)
  BY SliceType DEF Inv, TypeOK
<1>3. Taken \in Seq(Cells)
  BY <1>1, <1>2 DEF Taken
<1> QED
  BY <1>1, <1>2, <1>3, ConcatProperties DEF Undelivered, Inv, TypeOK, Cells

(* Concatenation is associative. *)
LEMMA CellsAssociative ==
  ASSUME NEW s \in Seq(Cells), NEW t \in Seq(Cells), NEW u \in Seq(Cells)
  PROVE  (s \o t) \o u = s \o (t \o u)
BY ConcatAssociative

(* A sequence is the function of its elements. *)
LEMMA SeqIsFunction ==
  ASSUME NEW S, NEW s \in Seq(S)
  PROVE  s = [j \in 1 .. Len(s) |-> s[j]]
OBVIOUS

(* A function that agrees with s and then with t is their concatenation. *)
LEMMA ConcatByElements ==
  ASSUME NEW S, NEW s \in Seq(S), NEW t \in Seq(S), NEW f,
         f = [j \in 1 .. Len(s) + Len(t) |-> f[j]],
         \A j \in 1 .. Len(s) : f[j] = s[j],
         \A j \in 1 .. Len(t) : f[Len(s) + j] = t[j]
  PROVE  f = s \o t
<1>1. /\ s \o t \in Seq(S)
      /\ Len(s \o t) = Len(s) + Len(t)
      /\ \A j \in 1 .. Len(s) + Len(t) :
           (s \o t)[j] = IF j <= Len(s) THEN s[j] ELSE t[j - Len(s)]
  BY ConcatProperties
<1>2. s \o t = [j \in 1 .. Len(s) + Len(t) |-> (s \o t)[j]]
  <2>1. s \o t = [j \in 1 .. Len(s \o t) |-> (s \o t)[j]]
    BY <1>1, SeqIsFunction, Zenon
  <2> QED
    BY <1>1, <2>1, Zenon
<1>3. ASSUME NEW j \in 1 .. Len(s) + Len(t)
      PROVE  f[j] = (s \o t)[j]
  <2>1. CASE j <= Len(s)
    <3>1. j \in 1 .. Len(s)
      BY <2>1
    <3>2. (s \o t)[j] = s[j]
      BY <1>1, <2>1, Zenon
    <3> QED
      BY <3>1, <3>2, Zenon
  <2>2. CASE ~(j <= Len(s))
    <3>1. j - Len(s) \in 1 .. Len(t) /\ Len(s) + (j - Len(s)) = j
      BY <2>2
    <3> QED
      BY <1>1, <2>2, <3>1
  <2> QED
    BY <2>1, <2>2
<1> QED
  BY <1>2, <1>3

-----------------------------------------------------------------------------
(* What the steps do to the bytes that are in the buffers.                 *)

(* A step that touches neither buffers nor the places in them. *)
LEMMA SameUndelivered ==
  ASSUME UNCHANGED <<bufs, offsets, cpc, ccurr>>, state'.idx = state.idx
  PROVE  Undelivered' = Undelivered
BY DEF Undelivered, Taken, Slice

(* A copy only writes cells that no offset covers yet. *)
LEMMA CopySlices ==
  ASSUME Inv, NEW p \in Producers, Copy(p)
  PROVE  \A i \in Indices : Slice(i, offsets[i])' = Slice(i, offsets[i])
<1> USE DEF Copy, PGoto
<1>1. /\ poffset[p] = offsets[pcurr[p].idx] /\ poffset[p] \in Nat
      /\ offsets \in [Indices -> 0 .. BufSize]
      /\ bufs \in [Indices -> [0 .. BufSize - 1 -> Cells]]
  BY DEF Inv, TypeOK, OffsetInv, Cells
<1>2. ASSUME NEW i \in Indices, NEW j \in 1 .. offsets[i]
      PROVE  bufs'[i][j - 1] = bufs[i][j - 1]
  BY <1>1, <1>2, LogAssumption
<1> QED
  BY <1>2 DEF Slice

(* Publication puts the copied line behind what the active buffer held. *)
LEMMA PublishSlices ==
  ASSUME Inv, CopiedInv, NEW p \in Producers, Publish(p)
  PROVE  /\ Line(p, pushes[p], plen[p]) \in Seq(Bytes)
         /\ Slice(state.idx, offsets[state.idx])'
              = Slice(state.idx, offsets[state.idx]) \o Line(p, pushes[p], plen[p])
         /\ Slice(1 - state.idx, offsets[1 - state.idx])'
              = Slice(1 - state.idx, offsets[1 - state.idx])
<1> USE DEF Publish, PGoto
<1> DEFINE line == Line(p, pushes[p], plen[p])
           act == Slice(state.idx, offsets[state.idx])
<1>t. /\ state \in States /\ pcurr[p] \in States
      /\ pushes[p] \in Nat /\ plen[p] \in Nat /\ poffset[p] \in Nat
      /\ state.idx \in Indices
      /\ offsets \in [Indices -> 0 .. BufSize]
  BY LogAssumption, LineAssumption DEF Inv, TypeOK, States
<1>1. /\ poffset[p] = offsets[state.idx]
      /\ poffset[p] + plen[p] <= BufSize
      /\ pcurr[p].idx = state.idx
  <2> HIDE DEF line, act
  <2>1. ppc[p] = "publish"
    BY Zenon
  <2>2. pcurr[p].idx = state.idx
    BY <2>1, Zenon DEF Inv, WriterInv, Holding
  <2> QED
    BY <2>1, <2>2, Zenon DEF Inv, OffsetInv
<1>2. line \in Seq(Bytes) /\ line \in Seq(Cells) /\ Len(line) = plen[p]
  <2>1. line \in Seq(Bytes) /\ Len(line) = plen[p]
    BY <1>t, LineType
  <2>2. Bytes \subseteq Cells
    BY DEF Cells
  <2> QED
    BY <2>1, <2>2
<1>3. act \in Seq(Cells) /\ Len(act) = offsets[state.idx]
  BY <1>t, SliceType DEF Inv
<1>4. Slice(state.idx, offsets[state.idx])' = act \o line
  <2> DEFINE next == [j \in 1 .. offsets[state.idx] + plen[p] |-> bufs[state.idx][j - 1]]
  <2>1. Slice(state.idx, offsets[state.idx])' = next
    <3>1. offsets'[state.idx] = offsets[state.idx] + plen[p]
      BY <1>t, <1>1
    <3> QED
      BY <3>1 DEF Slice
  <2>2. next = [j \in 1 .. Len(act) + Len(line) |-> next[j]]
    BY <1>2, <1>3
  <2>3. \A j \in 1 .. Len(act) : next[j] = act[j]
    BY <1>t, <1>1, <1>3 DEF Slice
  <2>4. \A j \in 1 .. Len(line) : next[Len(act) + j] = line[j]
    <3>1. ppc[p] = "publish"
      OBVIOUS
    <3>2. \A j \in 1 .. plen[p] : bufs[state.idx][offsets[state.idx] + j - 1] = line[j]
      BY <1>t, <1>1, <3>1 DEF CopiedInv
    <3>3. ASSUME NEW j \in 1 .. plen[p]
          PROVE  next[offsets[state.idx] + j] = bufs[state.idx][offsets[state.idx] + j - 1]
      <4> DEFINE k == offsets[state.idx] + j
      <4>1. poffset[p] \in Nat /\ plen[p] \in Nat /\ poffset[p] = offsets[state.idx]
        BY <1>t, <1>1, Zenon
      <4>2. k \in 1 .. offsets[state.idx] + plen[p] /\ k - 1 = offsets[state.idx] + j - 1
        BY <4>1
      <4> HIDE DEF k
      <4>3. next[k] = bufs[state.idx][k - 1]
        BY <4>2, Zenon
      <4> HIDE DEF next
      <4> QED
        BY <4>2, <4>3, Zenon DEF k
    <3> HIDE DEF next, line, act
    <3> QED
      BY <1>2, <1>3, <3>2, <3>3
  <2> HIDE DEF next, line, act
  <2>5. next = act \o line
    BY <1>2, <1>3, <2>2, <2>3, <2>4, ConcatByElements
  <2> QED
    BY <2>1, <2>5
<1>5. Slice(1 - state.idx, offsets[1 - state.idx])'
        = Slice(1 - state.idx, offsets[1 - state.idx])
  <2>1. 1 - state.idx \in Indices /\ 1 - state.idx # pcurr[p].idx
    BY <1>t, <1>1, StatesFields DEF Indices
  <2>2. offsets'[1 - state.idx] = offsets[1 - state.idx] /\ UNCHANGED <<bufs, state>>
    BY <1>t, <2>1
  <2> QED
    BY <2>2 DEF Slice
<1> QED
  BY <1>2, <1>4, <1>5

(* A producer only ever adds a whole line at the end. *)
LEMMA ProducerQueue ==
  ASSUME OneProducer, Inv, CopiedInv, NEW p \in Producers,
         \/ Producer(p)
         \/ \E level \in LogLevels, n \in 0 .. MaxMessage : hlog(p, level, n)
  PROVE  /\ ~Dumped /\ ~Dumped'
         /\ UNCHANGED out
         /\ \/ UNCHANGED <<Undelivered, accepted>>
            \/ /\ Publish(p)
               /\ Undelivered' = Undelivered \o Line(p, pushes[p], plen[p])
               /\ accepted' = accepted \o Line(p, pushes[p], plen[p])
<1> USE DEF PGoto, sharedVars, consumerVars
<1>t. /\ state \in States /\ pcurr[p] \in States /\ ccurr \in States
      /\ ppc \in [Producers -> PLoc]
      /\ state.idx \in Indices /\ ccurr.idx \in Indices
  BY DEF Inv, TypeOK, States
<1>d. ~Dumped /\ ~Dumped' /\ UNCHANGED out
  BY <1>t DEF Dumped, OneProducer, Producer, LoadState, Acquire, AcquireFails,
              LoadOffset, Copy, Publish, Clear, hlog
<1>1. CASE \E level \in LogLevels, n \in 0 .. MaxMessage : hlog(p, level, n)
  BY <1>1, <1>d, SameUndelivered DEF hlog
<1>2. CASE LoadState(p)
  BY <1>2, <1>d, SameUndelivered DEF LoadState
<1>3. CASE Acquire(p)
  <2>1. state'.idx = state.idx
    BY <1>3, <1>t DEF Acquire, States
  <2> QED
    BY <1>3, <1>d, <2>1, SameUndelivered DEF Acquire
<1>4. CASE AcquireFails(p)
  BY <1>4, <1>d, SameUndelivered DEF AcquireFails
<1>5. CASE LoadOffset(p)
  BY <1>5, <1>d, SameUndelivered DEF LoadOffset
<1>6. CASE Clear(p)
  <2>1. state'.idx = state.idx
    BY <1>6, <1>t DEF Clear, States
  <2> QED
    BY <1>6, <1>d, <2>1, SameUndelivered DEF Clear
<1>7. CASE Copy(p)
  <2>1. \A i \in Indices : Slice(i, offsets[i])' = Slice(i, offsets[i])
    BY <1>7, CopySlices
  <2>2. UNCHANGED <<state, cpc, ccurr, accepted>>
    BY <1>7 DEF Copy
  <2>3. Undelivered' = Undelivered
    BY <1>t, <2>1, <2>2, Zenon DEF Undelivered, Taken, Slice
  <2> QED
    BY <1>d, <2>2, <2>3
<1>8. CASE Publish(p)
  <2> DEFINE line == Line(p, pushes[p], plen[p])
             act == Slice(state.idx, offsets[state.idx])
  <2>1. line \in Seq(Cells)
    <3>1. Bytes \subseteq Cells
      BY DEF Cells
    <3> QED
      BY <1>8, <3>1, PublishSlices
  <2>2. Slice(state.idx, offsets[state.idx])' = act \o line
    BY <1>8, PublishSlices
  <2>3. UNCHANGED <<state, cpc, ccurr, bufs>> /\ accepted' = accepted \o line
    BY <1>8 DEF Publish
  <2>4. Taken' = Taken
    <3>1. cpc \in {"offset", "write"} => ccurr.idx = 1 - state.idx
      BY DEF Inv, DrainInv, Draining
    <3>2. Slice(1 - state.idx, offsets[1 - state.idx])'
            = Slice(1 - state.idx, offsets[1 - state.idx])
      BY <1>8, PublishSlices
    <3>3. cpc \in {"offset", "write"} =>
            Slice(ccurr.idx, offsets[ccurr.idx])' = Slice(ccurr.idx, offsets[ccurr.idx])
      BY <2>3, <3>1, <3>2 DEF Slice
    <3> QED
      BY <2>3, <3>3 DEF Taken
  <2>5. Taken \o (act \o line) = (Taken \o act) \o line
    <3>1. Taken \in Seq(Cells) /\ act \in Seq(Cells)
      BY UndeliveredType
    <3> HIDE DEF act, line
    <3> QED
      BY ONLY <2>1, <3>1, CellsAssociative
  <2>6. Undelivered' = Undelivered \o line
    <3> HIDE DEF act, line
    <3> QED
      BY <2>2, <2>4, <2>5 DEF Undelivered, act
  <2> QED
    BY <1>8, <1>d, <2>3, <2>6
<1> QED
  BY <1>1, <1>2, <1>3, <1>4, <1>5, <1>6, <1>7, <1>8 DEF Producer

(* The consumer writes the buffer it has taken, and loses nothing. *)
LEMMA ConsumerQueue ==
  ASSUME Inv, Consumer
  PROVE  /\ UNCHANGED <<accepted, Dumped>>
         /\ \/ UNCHANGED <<Undelivered, out>>
            \/ /\ Undelivered = Taken \o Undelivered'
               /\ out' = out \o Taken
               /\ Undelivered' \in Seq(Cells)
<1> USE DEF CGoto
<1> DEFINE act == Slice(state.idx, offsets[state.idx])
<1>t. ccurr.idx \in Indices /\ state.idx \in Indices
  BY DEF Inv, TypeOK, States
<1>a. UNCHANGED <<accepted, Dumped>>
  BY DEF Consumer, Consume, ConsumerLoad, Flip, FlipFails, ConsumerLoadOffset, WriteOut,
         Reset, producerVars, Dumped
<1>e. \A i : Slice(i, 0) = << >>
  BY DEF Slice
<1>1. CASE Consume
  BY <1>1, <1>a DEF Consume, sharedVars, Undelivered, Taken, Slice
<1>2. CASE ConsumerLoad
  BY <1>2, <1>a DEF ConsumerLoad, sharedVars, Undelivered, Taken, Slice
<1>3. CASE Flip
  <2>1. /\ state'.idx = 1 - state.idx /\ ccurr.idx = state.idx
        /\ offsets[1 - state.idx] = 0
    BY <1>3, <1>t DEF Flip, Inv, DrainInv, Draining
  <2>2. Taken = << >> /\ Taken' = act /\ Slice(state.idx, offsets[state.idx])' = << >>
    BY <1>3, <1>e, <2>1 DEF Flip, Taken, Slice
  <2>3. Undelivered' = act /\ Undelivered = act
    BY <2>2, UndeliveredType, ConcatEmptySeq DEF Undelivered
  <2> QED
    BY <1>3, <1>a, <2>3 DEF Flip
<1>4. CASE FlipFails
  BY <1>4, <1>a DEF FlipFails, sharedVars, Undelivered, Taken, Slice
<1>5. CASE ConsumerLoadOffset
  <2>1. Taken' = Taken
    <3>1. CASE offsets[ccurr.idx] > 0
      BY <1>5, <3>1 DEF ConsumerLoadOffset, sharedVars, Taken, Slice
    <3>2. CASE ~(offsets[ccurr.idx] > 0)
      <4>1. offsets[ccurr.idx] = 0
        BY <1>t, <3>2, LogAssumption DEF Inv, TypeOK
      <4> QED
        BY <1>5, <1>e, <3>2, <4>1 DEF ConsumerLoadOffset, sharedVars, Taken
    <3> QED
      BY <3>1, <3>2
  <2> QED
    BY <1>5, <1>a, <2>1 DEF ConsumerLoadOffset, sharedVars, Undelivered, Slice
<1>6. CASE WriteOut
  <2>1. Taken = Slice(ccurr.idx, coffset) /\ Taken' = << >>
    BY <1>6 DEF WriteOut, Taken, Inv, DrainInv
  <2>2. Slice(state.idx, offsets[state.idx])' = act
    BY <1>6 DEF WriteOut, sharedVars, Slice
  <2>3. Undelivered' = act /\ Undelivered = Taken \o act /\ out' = out \o Taken
    BY <1>6, <2>1, <2>2, UndeliveredType, ConcatEmptySeq DEF Undelivered, WriteOut
  <2> QED
    BY <1>a, <2>3, UndeliveredType
<1>7. CASE Reset
  <2>1. ccurr.idx # state.idx
    BY <1>7, <1>t, StatesFields DEF Reset, Inv, TypeOK, DrainInv, Draining
  <2>2. offsets'[state.idx] = offsets[state.idx]
    BY <1>7, <1>t, <2>1 DEF Reset, Inv, TypeOK
  <2> QED
    BY <1>7, <1>a, <2>2 DEF Reset, Undelivered, Taken, Slice
<1> QED
  BY <1>1, <1>2, <1>3, <1>4, <1>5, <1>6, <1>7 DEF Consumer

(* The start of a panic is no write; a flush writes one of the buffers. *)
LEMMA PanicQueue ==
  ASSUME OneProducer, Inv, NEW p \in Producers, Panic(p) \/ PanicFlush(p)
  PROVE  /\ UNCHANGED <<Undelivered, accepted>>
         /\ \/ ~Dumped /\ ~Dumped' /\ UNCHANGED out
            \/ Dumped' /\ \E i \in Indices : out' = out \o Slice(i, offsets[i])
<1> USE DEF PGoto, sharedVars, consumerVars
<1>t. ppc \in [Producers -> PLoc]
  BY DEF Inv, TypeOK
<1>1. CASE Panic(p)
  <2>1. ~Dumped /\ ~Dumped'
    BY <1>1, <1>t DEF Panic, Dumped, OneProducer
  <2> QED
    BY <1>1, <2>1, SameUndelivered DEF Panic
<1>2. CASE PanicFlush(p)
  <2>1. Dumped' /\ UNCHANGED <<bufs, offsets, cpc, ccurr, state, accepted>>
    BY <1>2, <1>t DEF PanicFlush, Flush, Dumped
  <2>2. \E i \in Indices : out' = out \o Slice(i, offsets[i])
    BY <1>2 DEF PanicFlush, Flush, Indices
  <2> QED
    BY <2>1, <2>2, SameUndelivered
<1> QED
  BY <1>1, <1>2

-----------------------------------------------------------------------------
(* The stream, by the effect of each step on the buffers.                  *)

(* Nothing is written or delivered at first. *)
LEMMA InitStream == Init => CopiedInv /\ Undelivered = << >> /\ out = << >> /\ StreamIntact
<1> SUFFICES ASSUME Init
             PROVE  CopiedInv /\ Undelivered = << >> /\ out = << >> /\ StreamIntact
  OBVIOUS
<1>1. Taken = << >> /\ Slice(state.idx, offsets[state.idx]) = << >>
  BY DEF Init, Taken, Slice, Indices
<1>2. Undelivered = << >> /\ StreamIntact
  BY <1>1 DEF Init, StreamIntact, Undelivered
<1> QED
  BY <1>2 DEF CopiedInv, Init

(* A copied line stays where it is until its length is published. *)
LEMMA NextCopied == OneProducer /\ Inv /\ CopiedInv /\ [Next]_vars => CopiedInv'
<1> SUFFICES ASSUME OneProducer, Inv, CopiedInv, [Next]_vars PROVE CopiedInv'
  OBVIOUS
<1> USE DEF PGoto, sharedVars, consumerVars
<1>t. ppc \in [Producers -> PLoc]
  BY DEF Inv, TypeOK
<1>1. ASSUME NEW p \in Producers, Copy(p) PROVE CopiedInv'
  <2> USE <1>1 DEF Copy
  <2>1. /\ poffset[p] = offsets[pcurr[p].idx]
        /\ poffset[p] + plen[p] <= BufSize
        /\ pushes[p] \in Nat /\ plen[p] \in Nat /\ poffset[p] \in Nat
        /\ pcurr[p].idx \in Indices
        /\ bufs \in [Indices -> [0 .. BufSize - 1 -> Cells]]
    BY LogAssumption, LineAssumption DEF Inv, TypeOK, OffsetInv, States, Cells
  <2> SUFFICES ASSUME NEW j \in 1 .. plen[p]
               PROVE  bufs'[pcurr[p].idx][poffset[p] + j - 1]
                        = Line(p, pushes[p], plen[p])[j]
    BY <1>t DEF CopiedInv, OneProducer
  <2>2. /\ poffset[p] + j - 1 \in poffset[p] .. poffset[p] + plen[p] - 1
        /\ poffset[p] + j - 1 \in 0 .. BufSize - 1
        /\ (poffset[p] + j - 1) - poffset[p] + 1 = j
    BY <2>1, LogAssumption
  <2> QED
    BY <2>1, <2>2
<1>2. ASSUME NEW p \in Producers, Producer(p), ~Copy(p) PROVE CopiedInv'
  BY <1>2, <1>t DEF CopiedInv, OneProducer, Producer, LoadState, Acquire, AcquireFails,
                    LoadOffset, Publish, Clear
<1>3. ASSUME NEW p \in Producers, NEW level \in LogLevels, NEW n \in 0 .. MaxMessage,
             hlog(p, level, n)
      PROVE  CopiedInv'
  BY <1>3, <1>t DEF CopiedInv, OneProducer, hlog
<1>4. ASSUME NEW p \in Producers, Panic(p) \/ PanicFlush(p) PROVE CopiedInv'
  BY <1>4, <1>t DEF CopiedInv, OneProducer, Panic, PanicFlush, Flush
<1>5. CASE Consumer \/ UNCHANGED vars
  BY <1>5 DEF CopiedInv, Consumer, Consume, ConsumerLoad, Flip, FlipFails,
              ConsumerLoadOffset, WriteOut, Reset, producerVars, vars
<1> QED
  BY <1>1, <1>2, <1>3, <1>4, <1>5 DEF Next

(* Every step keeps the stream intact. *)
LEMMA NextStream ==
  OneProducer /\ Inv /\ CopiedInv /\ StreamIntact /\ [Next]_vars => StreamIntact'
<1> SUFFICES ASSUME OneProducer, Inv, CopiedInv, StreamIntact, [Next]_vars
             PROVE  StreamIntact'
  OBVIOUS
<1>1. ASSUME NEW p \in Producers,
             \/ Producer(p)
             \/ \E level \in LogLevels, n \in 0 .. MaxMessage : hlog(p, level, n)
      PROVE  StreamIntact'
  <2> DEFINE line == Line(p, pushes[p], plen[p])
  <2>1. ~Dumped /\ UNCHANGED out
    BY <1>1, ProducerQueue
  <2>2. CASE UNCHANGED <<Undelivered, accepted>>
    BY <2>1, <2>2 DEF StreamIntact
  <2>3. CASE Publish(p) /\ Undelivered' = Undelivered \o line /\ accepted' = accepted \o line
    <3>1. line \in Seq(Cells)
      <4>1. Bytes \subseteq Cells
        BY DEF Cells
      <4> QED
        BY <2>3, <4>1, PublishSlices
    <3> HIDE DEF line
    <3>2. out \o (Undelivered \o line) = (out \o Undelivered) \o line
      <4>1. out \in Seq(Cells) /\ Undelivered \in Seq(Cells)
        BY UndeliveredType
      <4> QED
        BY ONLY <3>1, <4>1, CellsAssociative
    <3> QED
      BY <2>1, <2>3, <3>2 DEF StreamIntact
  <2> QED
    BY <1>1, <2>2, <2>3, ProducerQueue
<1>2. ASSUME NEW p \in Producers, Panic(p) \/ PanicFlush(p) PROVE StreamIntact'
  BY <1>2, PanicQueue DEF StreamIntact
<1>3. CASE Consumer
  <2>1. UNCHANGED <<accepted, Dumped>>
    BY <1>3, ConsumerQueue
  <2>2. CASE UNCHANGED <<Undelivered, out>>
    BY <2>1, <2>2 DEF StreamIntact
  <2>3. CASE /\ Undelivered = Taken \o Undelivered'
             /\ out' = out \o Taken
             /\ Undelivered' \in Seq(Cells)
    <3>1. (out \o Taken) \o Undelivered' = out \o (Taken \o Undelivered')
      <4>1. out \in Seq(Cells) /\ Taken \in Seq(Cells) /\ Undelivered' \in Seq(Cells)
        BY <2>3, UndeliveredType
      <4> QED
        BY ONLY <4>1, CellsAssociative
    <3> QED
      BY <2>1, <2>3, <3>1 DEF StreamIntact
  <2> QED
    BY <1>3, <2>2, <2>3, ConsumerQueue
<1>4. CASE UNCHANGED vars
  BY <1>4 DEF vars, sharedVars, producerVars, consumerVars,
              StreamIntact, Dumped, Undelivered, Taken, Slice
<1> QED
  BY <1>1, <1>2, <1>3, <1>4 DEF Next

(* With one producer, a copied line stays in place (lib.rs:153-170).       *)
LEMMA CopiedHolds ==
  ASSUME OneProducer
  PROVE  Spec => []CopiedInv
<1>1. Inv /\ CopiedInv /\ [Next]_vars => CopiedInv'
  BY NextCopied
<1>2. Init => CopiedInv
  BY InitStream
<1> QED
  BY <1>1, <1>2, InvHolds, PTL DEF Spec

(* With one producer, and until a panic hook writes, the bytes written and *)
(* the bytes in the buffers are the accepted ones, in order: no flip, at   *)
(* whatever moment, loses, repeats or reorders a log line (lib.rs:128-180, *)
(* 207-250).                                                               *)
THEOREM LogStreamIntact ==
  ASSUME OneProducer
  PROVE  Spec => []StreamIntact
<1>1. Inv /\ CopiedInv /\ StreamIntact /\ [Next]_vars => StreamIntact'
  BY NextStream
<1>2. Init => StreamIntact
  BY InitStream
<1> QED
  BY <1>1, <1>2, InvHolds, CopiedHolds, PTL DEF Spec

-----------------------------------------------------------------------------
(* What reaches write(2), the panic hook included, and that the logger is  *)
(* a queue of bytes.                                                       *)
ElementsOf(s) == {s[k] : k \in DOMAIN s}

(* The bytes below the offset of buffer i. *)
Stored(i) == ElementsOf(Slice(i, offsets[i]))

(* Only accepted bytes are ever written, or below an offset. *)
LoggedInv ==
  /\ ElementsOf(out) \subseteq ElementsOf(accepted)
  /\ \A i \in Indices : Stored(i) \subseteq ElementsOf(accepted)

(* The buffers that the panic hook has not come to. *)
Unflushed(p) == CASE ppc[p] = "dead" -> {} [] ppc[p] = "flush1" -> {1} [] OTHER -> Indices

(* An accepted byte has been written, or is in a buffer that the hook has  *)
(* not come to; a buffer is only emptied after it was written.             *)
KeptInv ==
  /\ cpc = "reset" => Stored(ccurr.idx) \subseteq ElementsOf(out)
  /\ \A p \in Producers :
       ElementsOf(accepted) \subseteq ElementsOf(out) \cup UNION {Stored(i) : i \in Unflushed(p)}

ContentInv == LoggedInv /\ KeptInv

-----------------------------------------------------------------------------
(* The elements of a concatenation are those of its parts. *)
LEMMA ElementsConcat ==
  ASSUME NEW S, NEW s \in Seq(S), NEW t \in Seq(S)
  PROVE  ElementsOf(s \o t) = ElementsOf(s) \cup ElementsOf(t)
<1>1. /\ s \o t \in Seq(S)
      /\ Len(s \o t) = Len(s) + Len(t)
      /\ \A k \in 1 .. Len(s) + Len(t) :
           (s \o t)[k] = IF k <= Len(s) THEN s[k] ELSE t[k - Len(s)]
  BY ConcatProperties
<1>2. DOMAIN s = 1 .. Len(s) /\ DOMAIN t = 1 .. Len(t) /\ DOMAIN (s \o t) = 1 .. Len(s \o t)
  BY <1>1
<1>3. ASSUME NEW k \in 1 .. Len(s) + Len(t)
      PROVE  (s \o t)[k] \in ElementsOf(s) \cup ElementsOf(t)
  <2>1. CASE k <= Len(s)
    BY <1>1, <1>2, <2>1 DEF ElementsOf
  <2>2. CASE ~(k <= Len(s))
    <3>1. k - Len(s) \in 1 .. Len(t)
      BY <2>2
    <3> QED
      BY <1>1, <1>2, <2>2, <3>1 DEF ElementsOf
  <2> QED
    BY <2>1, <2>2
<1>4. ASSUME NEW k \in 1 .. Len(s) PROVE s[k] \in ElementsOf(s \o t)
  <2>1. k \in 1 .. Len(s) + Len(t) /\ k <= Len(s)
    OBVIOUS
  <2>2. (s \o t)[k] = s[k]
    BY <1>1, <2>1, Zenon
  <2> QED
    BY <1>1, <1>2, <2>1, <2>2, Zenon DEF ElementsOf
<1>5. ASSUME NEW k \in 1 .. Len(t) PROVE t[k] \in ElementsOf(s \o t)
  <2>1. Len(s) + k \in 1 .. Len(s) + Len(t) /\ ~(Len(s) + k <= Len(s)) /\ (Len(s) + k) - Len(s) = k
    OBVIOUS
  <2>2. (s \o t)[Len(s) + k] = t[k]
    BY <1>1, <2>1, Zenon
  <2> QED
    BY <1>1, <1>2, <2>1, <2>2, Zenon DEF ElementsOf
<1>6. ElementsOf(s \o t) \subseteq ElementsOf(s) \cup ElementsOf(t)
  BY <1>1, <1>2, <1>3, Zenon DEF ElementsOf
<1>7. ElementsOf(s) \subseteq ElementsOf(s \o t)
  BY <1>2, <1>4, Zenon DEF ElementsOf
<1>8. ElementsOf(t) \subseteq ElementsOf(s \o t)
  BY <1>2, <1>5, Zenon DEF ElementsOf
<1> QED
  BY <1>6, <1>7, <1>8, Zenon

(* There is nothing below offset zero. *)
LEMMA NoElements == \A f : ElementsOf([j \in 1 .. 0 |-> f[j - 1]]) = {}
<1>1. 1 .. 0 = {}
  OBVIOUS
<1> QED
  BY <1>1, Zenon DEF ElementsOf

(* The cells of a buffer below its offset. *)
LEMMA StoredCells ==
  ASSUME Inv, NEW i \in Indices
  PROVE  /\ Slice(i, offsets[i]) \in Seq(Cells)
         /\ Stored(i) = {bufs[i][j - 1] : j \in 1 .. offsets[i]}
<1>1. offsets[i] \in 0 .. BufSize
  BY DEF Inv, TypeOK
<1>2. Slice(i, offsets[i]) \in Seq(Cells)
  BY <1>1, SliceType DEF Inv
<1>3. DOMAIN Slice(i, offsets[i]) = 1 .. offsets[i]
  BY DEF Slice
<1> QED
  BY <1>2, <1>3, Zenon DEF Stored, ElementsOf, Slice

-----------------------------------------------------------------------------
(* A step that moves no byte. *)
LEMMA SameContent ==
  ASSUME ContentInv, UNCHANGED <<bufs, offsets, accepted, out>>,
         cpc' = "reset" => cpc = "reset" /\ ccurr' = ccurr,
         \A p \in Producers : Unflushed(p)' = Unflushed(p)
  PROVE  ContentInv'
<1>1. \A i : Stored(i)' = Stored(i)
  BY DEF Stored, ElementsOf, Slice
<1>2. ElementsOf(out)' = ElementsOf(out) /\ ElementsOf(accepted)' = ElementsOf(accepted)
  BY DEF ElementsOf
<1>3. LoggedInv'
  BY <1>1, <1>2, Zenon DEF ContentInv, LoggedInv
<1>4. KeptInv'
  BY <1>1, <1>2 DEF ContentInv, KeptInv
<1> QED
  BY <1>3, <1>4 DEF ContentInv

(* At first there is nothing. *)
LEMMA InitContent == Init => ContentInv
<1> SUFFICES ASSUME Init PROVE ContentInv
  OBVIOUS
<1>1. ElementsOf(out) = {} /\ ElementsOf(accepted) = {}
  BY DEF Init, ElementsOf
<1>2. \A i \in Indices : Stored(i) = {}
  BY DEF Init, Stored, ElementsOf, Slice
<1> QED
  BY <1>1, <1>2 DEF ContentInv, LoggedInv, KeptInv, Init

(* A line is accepted as soon as the offset covers it. *)
LEMMA ProducerContent ==
  ASSUME OneProducer, Inv, CopiedInv, ContentInv, NEW p \in Producers,
         \/ Producer(p)
         \/ \E level \in LogLevels, n \in 0 .. MaxMessage : hlog(p, level, n)
  PROVE  ContentInv'
<1> USE DEF PGoto, sharedVars, consumerVars
<1>t. ppc \in [Producers -> PLoc] /\ state.idx \in Indices /\ ccurr.idx \in Indices
  BY DEF Inv, TypeOK, States
<1>u. \A q \in Producers : Unflushed(q) = Indices /\ Unflushed(q)' = Indices
  <2>1. ~Dumped /\ ~Dumped'
    BY ProducerQueue
  <2> QED
    BY <2>1 DEF Dumped, Unflushed
<1>1. CASE \E level \in LogLevels, n \in 0 .. MaxMessage : hlog(p, level, n)
  BY <1>1, <1>u, SameContent DEF hlog
<1>2. CASE \/ LoadState(p) \/ Acquire(p) \/ AcquireFails(p) \/ LoadOffset(p) \/ Clear(p)
  BY <1>2, <1>u, SameContent DEF LoadState, Acquire, AcquireFails, LoadOffset, Clear
<1>3. CASE Copy(p)
  <2>1. \A i \in Indices : Slice(i, offsets[i])' = Slice(i, offsets[i])
    BY <1>3, CopySlices
  <2>2. \A i \in Indices : Stored(i)' = Stored(i)
    BY <2>1, Zenon DEF Stored, ElementsOf
  <2>3. UNCHANGED <<accepted, out, cpc, ccurr>>
    BY <1>3 DEF Copy
  <2>4. ElementsOf(out)' = ElementsOf(out) /\ ElementsOf(accepted)' = ElementsOf(accepted)
    BY <2>3 DEF ElementsOf
  <2>5. LoggedInv'
    BY <2>2, <2>4, Zenon DEF ContentInv, LoggedInv
  <2>6. KeptInv'
    BY <1>t, <1>u, <2>2, <2>3, <2>4 DEF ContentInv, KeptInv
  <2> QED
    BY <2>5, <2>6 DEF ContentInv
<1>4. CASE Publish(p)
  <2> DEFINE line == Line(p, pushes[p], plen[p])
             a == state.idx
  <2>1. UNCHANGED <<out, cpc, ccurr, state>> /\ accepted' = accepted \o line
    BY <1>4 DEF Publish
  <2>2. line \in Seq(Bytes)
    BY <1>4, PublishSlices
  <2>3. line \in Seq(Cells) /\ accepted \in Seq(Bytes)
    BY <2>2 DEF Cells, Inv, TypeOK
  <2>4. ElementsOf(accepted)' = ElementsOf(accepted) \cup ElementsOf(line)
    <3> HIDE DEF line
    <3>1. ElementsOf(accepted \o line) = ElementsOf(accepted) \cup ElementsOf(line)
      BY <2>2, <2>3, ElementsConcat
    <3> QED
      BY <2>1, <3>1 DEF ElementsOf
  <2>5. Stored(a)' = Stored(a) \cup ElementsOf(line)
    <3>1. Slice(a, offsets[a])' = Slice(a, offsets[a]) \o line
      BY <1>4, PublishSlices
    <3>2. Slice(a, offsets[a]) \in Seq(Cells)
      BY <1>t, StoredCells
    <3> HIDE DEF line
    <3>3. ElementsOf(Slice(a, offsets[a]) \o line)
            = ElementsOf(Slice(a, offsets[a])) \cup ElementsOf(line)
      BY <2>3, <3>2, ElementsConcat
    <3> QED
      BY <2>1, <3>1, <3>3 DEF Stored, ElementsOf
  <2>6. Stored(1 - a)' = Stored(1 - a)
    <3>1. Slice(1 - a, offsets[1 - a])' = Slice(1 - a, offsets[1 - a])
      BY <1>4, PublishSlices
    <3> QED
      BY <3>1 DEF Stored, ElementsOf
  <2>7. a \in Indices /\ 1 - a \in Indices /\ Indices = {a, 1 - a} /\ a' = a
    BY <1>t, <2>1 DEF Indices
  <2>8. ElementsOf(out)' = ElementsOf(out)
    BY <2>1 DEF ElementsOf
  <2> HIDE DEF line, a
  <2>9. \A i \in Indices : Stored(i) \subseteq Stored(i)'
                          /\ Stored(i)' \subseteq Stored(i) \cup ElementsOf(line)
    <3>1. ASSUME NEW i \in Indices, i = a PROVE Stored(i)' = Stored(i) \cup ElementsOf(line)
      BY <2>5, <2>7, <3>1 DEF Stored, Slice
    <3>2. ASSUME NEW i \in Indices, i = 1 - a PROVE Stored(i)' = Stored(i)
      BY <2>6, <2>7, <3>2 DEF Stored, Slice
    <3> QED
      BY <2>7, <3>1, <3>2
  <2>10. LoggedInv'
    BY <2>4, <2>8, <2>9 DEF ContentInv, LoggedInv
  <2>11. cpc' = "reset" => Stored(ccurr.idx)' \subseteq ElementsOf(out)'
    <3>1. cpc = "reset" => ccurr.idx = 1 - a /\ Stored(ccurr.idx) \subseteq ElementsOf(out)
      BY DEF ContentInv, KeptInv, Inv, DrainInv, Draining, a
    <3> QED
      BY <2>1, <2>6, <2>7, <2>8, <3>1 DEF Stored, Slice
  <2>12. ElementsOf(accepted)' \subseteq ElementsOf(out)' \cup UNION {Stored(i)' : i \in Indices}
    <3>1. ElementsOf(accepted) \subseteq ElementsOf(out) \cup UNION {Stored(i) : i \in Indices}
      BY <1>u DEF ContentInv, KeptInv
    <3>2. ElementsOf(line) \subseteq Stored(a)'
      BY <2>5
    <3> QED
      BY <2>4, <2>7, <2>8, <2>9, <3>1, <3>2
  <2>13. KeptInv'
    BY <1>u, <2>11, <2>12 DEF KeptInv
  <2> QED
    BY <2>10, <2>13 DEF ContentInv
<1> QED
  BY <1>1, <1>2, <1>3, <1>4 DEF Producer

(* A buffer is emptied only after its bytes have left. *)
LEMMA ConsumerContent ==
  ASSUME Inv, ContentInv, Consumer
  PROVE  ContentInv'
<1> USE DEF CGoto, sharedVars, producerVars
<1>t. ccurr.idx \in Indices /\ state.idx \in Indices
  BY DEF Inv, TypeOK, States
<1>u. \A p \in Producers : Unflushed(p)' = Unflushed(p)
  BY DEF Consumer, Consume, ConsumerLoad, Flip, FlipFails, ConsumerLoadOffset, WriteOut,
         Reset, Unflushed
<1>1. CASE Consume \/ ConsumerLoad \/ Flip \/ FlipFails
  BY <1>1, <1>u, SameContent DEF Consume, ConsumerLoad, Flip, FlipFails
<1>2. CASE ConsumerLoadOffset
  <2>1. UNCHANGED <<bufs, offsets, accepted, out, ccurr>>
    BY <1>2 DEF ConsumerLoadOffset
  <2>2. \A i : Stored(i)' = Stored(i)
    BY <2>1 DEF Stored, ElementsOf, Slice
  <2>3. ElementsOf(out)' = ElementsOf(out) /\ ElementsOf(accepted)' = ElementsOf(accepted)
    BY <2>1 DEF ElementsOf
  <2>4. cpc' = "reset" => Stored(ccurr.idx) = {}
    <3>1. cpc' = "reset" => offsets[ccurr.idx] = 0
      BY <1>2, <1>t, LogAssumption DEF ConsumerLoadOffset, Inv, TypeOK
    <3> QED
      BY <3>1, NoElements DEF Stored, Slice
  <2>5. LoggedInv'
    BY <2>2, <2>3, Zenon DEF ContentInv, LoggedInv
  <2>6. KeptInv'
    BY <1>u, <2>1, <2>2, <2>3, <2>4 DEF ContentInv, KeptInv
  <2> QED
    BY <2>5, <2>6 DEF ContentInv
<1>3. CASE WriteOut
  <2>1. UNCHANGED <<bufs, offsets, accepted, ccurr>>
        /\ out' = out \o Slice(ccurr.idx, offsets[ccurr.idx])
    BY <1>3 DEF WriteOut, Inv, DrainInv
  <2>2. \A i : Stored(i)' = Stored(i)
    BY <2>1 DEF Stored, ElementsOf, Slice
  <2>3. ElementsOf(accepted)' = ElementsOf(accepted)
    BY <2>1 DEF ElementsOf
  <2>4. ElementsOf(out)' = ElementsOf(out) \cup Stored(ccurr.idx)
    <3>1. Slice(ccurr.idx, offsets[ccurr.idx]) \in Seq(Cells) /\ out \in Seq(Cells)
      BY <1>t, StoredCells DEF Inv, TypeOK, Cells
    <3>2. ElementsOf(out \o Slice(ccurr.idx, offsets[ccurr.idx]))
            = ElementsOf(out) \cup ElementsOf(Slice(ccurr.idx, offsets[ccurr.idx]))
      BY <3>1, ElementsConcat
    <3> QED
      BY <2>1, <3>2 DEF ElementsOf, Stored
  <2>5. LoggedInv'
    BY <1>t, <2>2, <2>3, <2>4 DEF ContentInv, LoggedInv
  <2>6. KeptInv'
    BY <1>u, <2>1, <2>2, <2>3, <2>4 DEF ContentInv, KeptInv
  <2> QED
    BY <2>5, <2>6 DEF ContentInv
<1>4. CASE Reset
  <2>1. /\ UNCHANGED <<bufs, accepted, out, ccurr>>
        /\ offsets' = [offsets EXCEPT ![ccurr.idx] = 0]
        /\ offsets \in [Indices -> 0 .. BufSize]
        /\ cpc = "reset" /\ cpc' = "idle"
    BY <1>4 DEF Reset, Inv, TypeOK
  <2>2. \A i \in Indices \ {ccurr.idx} : Stored(i)' = Stored(i)
    BY <2>1 DEF Stored, Slice
  <2>3. ASSUME NEW i \in Indices, i = ccurr.idx PROVE Stored(i)' = {}
    <3>1. offsets'[i] = 0
      BY <2>1, <2>3
    <3> QED
      BY <3>1, NoElements DEF Stored, Slice
  <2>4. ElementsOf(out)' = ElementsOf(out) /\ ElementsOf(accepted)' = ElementsOf(accepted)
    BY <2>1 DEF ElementsOf
  <2>5. \A i \in Indices : Stored(i)' = IF i = ccurr.idx THEN {} ELSE Stored(i)
    BY <2>2, <2>3
  <2>6. LoggedInv'
    BY <2>4, <2>5 DEF ContentInv, LoggedInv
  <2>7. KeptInv'
    <3>1. Stored(ccurr.idx) \subseteq ElementsOf(out)
      BY <2>1 DEF ContentInv, KeptInv
    <3>2. \A p \in Producers : Unflushed(p) \subseteq Indices
      BY DEF Unflushed, Indices
    <3>3. ASSUME NEW p \in Producers
          PROVE  ElementsOf(accepted)'
                   \subseteq ElementsOf(out)' \cup UNION {Stored(i)' : i \in Unflushed(p)'}
      <4>1. ElementsOf(accepted) \subseteq ElementsOf(out) \cup UNION {Stored(i) : i \in Unflushed(p)}
        BY DEF ContentInv, KeptInv
      <4> QED
        BY <1>u, <2>4, <2>5, <3>1, <3>2, <4>1
    <3> QED
      BY <2>1, <3>3 DEF KeptInv
  <2> QED
    BY <2>6, <2>7 DEF ContentInv
<1> QED
  BY <1>1, <1>2, <1>3, <1>4 DEF Consumer

(* The hook writes a buffer before it is done with it. *)
LEMMA PanicContent ==
  ASSUME OneProducer, Inv, ContentInv, NEW p \in Producers, Panic(p) \/ PanicFlush(p)
  PROVE  ContentInv'
<1> USE DEF PGoto, sharedVars, consumerVars
<1>t. ppc \in [Producers -> PLoc]
  BY DEF Inv, TypeOK
<1>1. CASE Panic(p)
  <2>1. \A q \in Producers : Unflushed(q)' = Unflushed(q)
    BY <1>1, <1>t DEF Panic, Unflushed, OneProducer
  <2> QED
    BY <1>1, <2>1, SameContent DEF Panic
<1>2. ASSUME NEW i \in Indices, NEW from, NEW to, Flush(p, i, from, to),
             \A q \in Producers : Unflushed(q) \subseteq Unflushed(q)' \cup {i}
      PROVE  ContentInv'
  <2>1. UNCHANGED <<bufs, offsets, accepted, ccurr, cpc>> /\ out' = out \o Slice(i, offsets[i])
    BY <1>2 DEF Flush
  <2>2. \A k : Stored(k)' = Stored(k)
    BY <2>1 DEF Stored, ElementsOf, Slice
  <2>3. ElementsOf(accepted)' = ElementsOf(accepted)
    BY <2>1 DEF ElementsOf
  <2>4. ElementsOf(out)' = ElementsOf(out) \cup Stored(i)
    <3>1. Slice(i, offsets[i]) \in Seq(Cells) /\ out \in Seq(Cells)
      BY StoredCells DEF Inv, TypeOK, Cells
    <3>2. ElementsOf(out \o Slice(i, offsets[i])) = ElementsOf(out) \cup ElementsOf(Slice(i, offsets[i]))
      BY <3>1, ElementsConcat
    <3> QED
      BY <2>1, <3>2 DEF ElementsOf, Stored
  <2>5. LoggedInv'
    BY <2>2, <2>3, <2>4 DEF ContentInv, LoggedInv
  <2>6. KeptInv'
    <3>1. ASSUME NEW q \in Producers
          PROVE  ElementsOf(accepted)'
                   \subseteq ElementsOf(out)' \cup UNION {Stored(k)' : k \in Unflushed(q)'}
      <4>1. ElementsOf(accepted) \subseteq ElementsOf(out) \cup UNION {Stored(k) : k \in Unflushed(q)}
        BY DEF ContentInv, KeptInv
      <4> QED
        BY <1>2, <2>2, <2>3, <2>4, <4>1
    <3>2. cpc' = "reset" => Stored(ccurr.idx)' \subseteq ElementsOf(out)'
      BY <2>1, <2>2, <2>4 DEF ContentInv, KeptInv
    <3> QED
      BY <3>1, <3>2 DEF KeptInv
  <2> QED
    BY <2>5, <2>6 DEF ContentInv
<1>3. CASE Flush(p, 0, "flush0", "flush1")
  <2>1. \A q \in Producers : Unflushed(q) = Indices /\ Unflushed(q)' = {1}
    BY <1>3, <1>t DEF Flush, Unflushed, OneProducer
  <2> QED
    BY <1>2, <1>3, <2>1 DEF Indices
<1>4. CASE Flush(p, 1, "flush1", "dead")
  <2>1. \A q \in Producers : Unflushed(q) = {1} /\ Unflushed(q)' = {}
    BY <1>4, <1>t DEF Flush, Unflushed, OneProducer
  <2> QED
    BY <1>2, <1>4, <2>1 DEF Indices
<1> QED
  BY <1>1, <1>3, <1>4 DEF PanicFlush

(* Every step keeps the content of the buffers and the output apart. *)
LEMMA NextContent ==
  OneProducer /\ Inv /\ CopiedInv /\ ContentInv /\ [Next]_vars => ContentInv'
<1> SUFFICES ASSUME OneProducer, Inv, CopiedInv, ContentInv, [Next]_vars PROVE ContentInv'
  OBVIOUS
<1>1. CASE UNCHANGED vars
  <2>1. \A p \in Producers : Unflushed(p)' = Unflushed(p)
    BY <1>1 DEF vars, producerVars, Unflushed
  <2> QED
    BY <1>1, <2>1, SameContent DEF vars, sharedVars, consumerVars
<1> QED
  BY <1>1, ProducerContent, ConsumerContent, PanicContent DEF Next

(* The content invariant holds in every reachable state. *)
LEMMA ContentHolds ==
  ASSUME OneProducer
  PROVE  Spec => []ContentInv
<1>1. Inv /\ CopiedInv /\ ContentInv /\ [Next]_vars => ContentInv'
  BY NextContent
<1> QED
  BY <1>1, InitContent, InvHolds, CopiedHolds, PTL DEF Spec

(* With one producer, nothing but accepted log bytes is handed to write(2),*)
(* by the consumer or by the panic hook: no byte of a half-copied line and *)
(* no cell that was never written (lib.rs:184-201, 207-250).               *)
THEOREM LogOnlyLoggedBytes ==
  ASSUME OneProducer
  PROVE  Spec => []OnlyLoggedBytes
<1>1. ContentInv => OnlyLoggedBytes
  <2> SUFFICES ASSUME ContentInv, NEW n \in DOMAIN out
               PROVE  \E k \in DOMAIN accepted : accepted[k] = out[n]
    BY DEF OnlyLoggedBytes
  <2>1. out[n] \in ElementsOf(accepted)
    BY DEF ContentInv, LoggedInv, ElementsOf
  <2> QED
    BY <2>1 DEF ElementsOf
<1> QED
  BY <1>1, ContentHolds, PTL

(* With one producer, when the panic hook has run every accepted byte has  *)
(* been written, wherever the consumer was between its exchange, its write *)
(* and its reset (lib.rs:184-201, 207-250).                                *)
THEOREM LogNothingLostOnPanic ==
  ASSUME OneProducer
  PROVE  Spec => []NothingLostOnPanic
<1>1. ContentInv => NothingLostOnPanic
  <2> SUFFICES ASSUME ContentInv, NEW p \in Producers, ppc[p] = "dead",
                      NEW k \in DOMAIN accepted
               PROVE  \E n \in DOMAIN out : out[n] = accepted[k]
    BY DEF NothingLostOnPanic
  <2>1. ElementsOf(accepted) \subseteq ElementsOf(out)
    BY DEF ContentInv, KeptInv, Unflushed
  <2>2. accepted[k] \in ElementsOf(out)
    BY <2>1 DEF ElementsOf
  <2> QED
    BY <2>2 DEF ElementsOf
<1> QED
  BY <1>1, ContentHolds, PTL

-----------------------------------------------------------------------------
(* The refinement.  A producer in push has a line to hand over.            *)
CallInv ==
  \A p \in Producers : ppc[p] \in {"load", "cas", "offset", "copy", "publish"} =>
    pushes[p] \in 1 .. MaxPushes /\ plen[p] \in 1 .. MAX_LOG_LINE

(* A push is under way from the call on. *)
LEMMA NextCall == Inv /\ CallInv /\ [Next]_vars => CallInv'
<1> SUFFICES ASSUME Inv, CallInv, [Next]_vars PROVE CallInv'
  OBVIOUS
<1> USE DEF PGoto, sharedVars, consumerVars
<1>t. /\ ppc \in [Producers -> PLoc] /\ plen \in [Producers -> 0 .. MAX_LOG_LINE]
      /\ pushes \in [Producers -> 0 .. MaxPushes]
  BY DEF Inv, TypeOK
<1>1. ASSUME NEW p \in Producers, NEW level \in LogLevels, NEW n \in 0 .. MaxMessage,
             hlog(p, level, n)
      PROVE  CallInv'
  <2>1. Len(Formatted(level, n)) \in 1 .. MAX_LOG_LINE
    BY FormattedLen
  <2>2. pushes[p] + 1 \in 1 .. MaxPushes
    BY <1>1, <1>t, LogAssumption DEF hlog
  <2> QED
    BY <1>1, <1>t, <2>1, <2>2 DEF hlog, CallInv
<1>2. ASSUME NEW p \in Producers, Producer(p) PROVE CallInv'
  BY <1>2, <1>t DEF CallInv, Producer, LoadState, Acquire, AcquireFails, LoadOffset, Copy,
                    Publish, Clear
<1>3. ASSUME NEW p \in Producers, Panic(p) \/ PanicFlush(p) PROVE CallInv'
  BY <1>3, <1>t DEF CallInv, Panic, PanicFlush, Flush
<1>4. CASE Consumer \/ UNCHANGED vars
  BY <1>4 DEF CallInv, Consumer, Consume, ConsumerLoad, Flip, FlipFails,
              ConsumerLoadOffset, WriteOut, Reset, producerVars, vars
<1> QED
  BY <1>1, <1>2, <1>3, <1>4 DEF Next

(* The prefix and the rest of a concatenation. *)
LEMMA SplitConcat ==
  ASSUME NEW s \in Seq(Cells), NEW t \in Seq(Cells)
  PROVE  /\ SubSeq(s \o t, 1, Len(s)) = s
         /\ SubSeq(s \o t, Len(s) + 1, Len(s \o t)) = t
         /\ Len(s \o t) >= Len(s)
<1>1. Len(s \o t) = Len(s) + Len(t) /\ Len(s) \in Nat /\ Len(t) \in Nat
  BY ConcatProperties
<1>2. SubSeq(s \o t, 1, Len(s)) = s
  <2>1. CASE Len(s) = 0
    BY <2>1, SubSeqEmpty
  <2>2. CASE Len(s) # 0
    <3>1. 1 \in 1 .. Len(s) /\ Len(s) \in 1 .. Len(s)
      BY <1>1, <2>2
    <3> QED
      BY <3>1, SubSeqOfConcat1, SubSeqFull
  <2> QED
    BY <2>1, <2>2
<1>3. SubSeq(s \o t, Len(s) + 1, Len(s \o t)) = t
  <2>1. CASE Len(t) = 0
    BY <1>1, <2>1, SubSeqEmpty
  <2>2. CASE Len(t) # 0
    <3>1. /\ Len(s) + 1 \in Len(s) + 1 .. Len(s) + Len(t)
          /\ Len(s) + Len(t) \in Len(s) + 1 .. Len(s) + Len(t)
          /\ (Len(s) + 1) - Len(s) = 1
          /\ (Len(s) + Len(t)) - Len(s) = Len(t)
      BY <1>1, <2>2
    <3>2. SubSeq(s \o t, Len(s) + 1, Len(s) + Len(t)) = SubSeq(t, 1, Len(t))
      BY <3>1, SubSeqOfConcat2
    <3> QED
      BY <1>1, <3>2, SubSeqFull
  <2> QED
    BY <2>1, <2>2
<1> QED
  BY <1>1, <1>2, <1>3

(* What a buffer holds is still to be delivered, or has been written. *)
LEMMA StoredIsUndelivered ==
  ASSUME Inv, ContentInv, NEW i \in Indices
  PROVE  Stored(i) \subseteq ElementsOf(out) \cup ElementsOf(Undelivered)
<1> DEFINE act == Slice(state.idx, offsets[state.idx])
<1>1. state.idx \in Indices /\ state \in States /\ cpc \in CLoc
  BY DEF Inv, TypeOK, States
<1>2. ElementsOf(Undelivered) = ElementsOf(Taken) \cup ElementsOf(act)
  <2>1. Taken \in Seq(Cells) /\ act \in Seq(Cells)
    BY UndeliveredType
  <2> HIDE DEF act
  <2> QED
    BY <2>1, ElementsConcat DEF Undelivered, act
<1>3. CASE i = state.idx
  BY <1>2, <1>3 DEF Stored
<1>4. CASE i # state.idx
  <2>1. i = 1 - state.idx
    BY <1>1, <1>4 DEF Indices
  <2>2. CASE cpc \in {"offset", "write"}
    BY <1>2, <2>1, <2>2 DEF Inv, DrainInv, Draining, Taken, Stored
  <2>3. CASE cpc = "reset"
    BY <2>1, <2>3 DEF Inv, DrainInv, Draining, ContentInv, KeptInv
  <2>4. CASE ~Draining
    BY <2>1, <2>4, NoElements DEF Inv, DrainInv, Stored, Slice
  <2> QED
    BY <1>1, <2>2, <2>3, <2>4 DEF Draining, CLoc
<1> QED
  BY <1>3, <1>4

(* The logger starts as an empty queue. *)
LEMMA InitQueue == Init => Queue!Init
BY InitStream DEF Queue!Init, Init, Dumped

(* Every step of the logger is a step of the queue or leaves it alone. *)
LEMMA NextQueue ==
  OneProducer /\ Inv /\ CopiedInv /\ ContentInv /\ CallInv /\ [Next]_vars
    => [Queue!Next]_Queue!vars
<1> SUFFICES ASSUME OneProducer, Inv, CopiedInv, ContentInv, CallInv, [Next]_vars
             PROVE  [Queue!Next]_Queue!vars
  OBVIOUS
<1>1. ASSUME NEW p \in Producers,
             \/ Producer(p)
             \/ \E level \in LogLevels, n \in 0 .. MaxMessage : hlog(p, level, n)
      PROVE  [Queue!Next]_Queue!vars
  <2>0. ~Dumped /\ ~Dumped' /\ UNCHANGED out
    BY <1>1, ProducerQueue
  <2>1. ~Dumped /\ UNCHANGED <<out, Dumped>>
    BY <2>0 DEF Dumped
  <2>2. CASE UNCHANGED Undelivered
    BY <2>1, <2>2 DEF Queue!vars
  <2>3. CASE Publish(p) /\ Undelivered' = Undelivered \o Line(p, pushes[p], plen[p])
    <3>1. pushes[p] \in 1 .. MaxPushes /\ plen[p] \in 1 .. MAX_LOG_LINE
      BY <2>3 DEF Publish, PGoto, CallInv
    <3>2. Line(p, pushes[p], plen[p])
            \in {Line(q, k, n) : q \in Producers, k \in 1 .. MaxPushes, n \in 1 .. MAX_LOG_LINE}
      BY <3>1
    <3>3. Queue!Push(Line(p, pushes[p], plen[p]))
      BY <2>1, <2>3 DEF Queue!Push
    <3> QED
      BY <3>2, <3>3 DEF Queue!Next
  <2> QED
    BY <1>1, <2>2, <2>3, ProducerQueue
<1>2. ASSUME NEW p \in Producers, Panic(p) \/ PanicFlush(p)
      PROVE  [Queue!Next]_Queue!vars
  <2>1. UNCHANGED Undelivered
    BY <1>2, PanicQueue
  <2>2. CASE ~Dumped /\ ~Dumped' /\ UNCHANGED out
    <3>1. UNCHANGED Dumped
      BY <2>2 DEF Dumped
    <3> QED
      BY <2>1, <2>2, <3>1 DEF Queue!vars
  <2>3. ASSUME Dumped', NEW i \in Indices, out' = out \o Slice(i, offsets[i])
        PROVE  Queue!Dump
    <3>1. out \in Seq(Cells) /\ Slice(i, offsets[i]) \in Seq(Cells)
      BY UndeliveredType, StoredCells
    <3>2. Len(out') >= Len(out) /\ SubSeq(out', 1, Len(out)) = out
      BY <2>3, <3>1, SplitConcat
    <3>3. ElementsOf(out') = ElementsOf(out) \cup Stored(i)
      BY <2>3, <3>1, ElementsConcat DEF Stored
    <3>4. ElementsOf(out') \subseteq ElementsOf(out) \cup ElementsOf(Undelivered)
      BY <3>3, StoredIsUndelivered
    <3> QED
      BY <2>1, <2>3, <3>2, <3>4 DEF Queue!Dump, Queue!Elements, ElementsOf
  <2> QED
    BY <1>2, <2>2, <2>3, PanicQueue DEF Queue!Next
<1>3. CASE Consumer
  <2>1. UNCHANGED Dumped
    BY <1>3, ConsumerQueue
  <2>2. CASE UNCHANGED <<Undelivered, out>>
    BY <2>1, <2>2 DEF Queue!vars
  <2>3. CASE /\ Undelivered = Taken \o Undelivered'
             /\ out' = out \o Taken
             /\ Undelivered' \in Seq(Cells)
    <3>1. Taken \in Seq(Cells) /\ out \in Seq(Cells) /\ Undelivered \in Seq(Cells)
      BY UndeliveredType
    <3>2. /\ SubSeq(Undelivered, 1, Len(Taken)) = Taken
          /\ SubSeq(Undelivered, Len(Taken) + 1, Len(Undelivered)) = Undelivered'
          /\ Len(Undelivered) >= Len(Taken)
      BY <2>3, <3>1, SplitConcat
    <3>3. CASE Len(Taken) = 0
      <4>1. Taken = << >>
        BY <3>1, <3>3
      <4>2. out' = out /\ Undelivered' = Undelivered
        BY <2>3, <3>1, <4>1, ConcatEmptySeq
      <4> QED
        BY <2>2, <4>2
    <3>4. CASE Len(Taken) # 0
      <4>1. Len(Taken) \in DOMAIN Undelivered
        BY <3>1, <3>2, <3>4
      <4>2. Queue!Write
        BY <2>1, <2>3, <3>2, <4>1 DEF Queue!Write
      <4> QED
        BY <4>2 DEF Queue!Next
    <3> QED
      BY <3>3, <3>4
  <2> QED
    BY <1>3, <2>2, <2>3, ConsumerQueue
<1>4. CASE UNCHANGED vars
  BY <1>4 DEF vars, sharedVars, producerVars, consumerVars, Queue!vars, Dumped,
              Undelivered, Taken, Slice
<1> QED
  BY <1>1, <1>2, <1>3, <1>4 DEF Next

(* With one producer, the two buffers, the packed state word and the       *)
(* offsets are a FIFO of whole log lines for every size of the buffers,    *)
(* and a panic hook repeats bytes at worst: the safety half of             *)
(* ImplementsLogQueue (lib.rs:132-243).                                    *)
THEOREM LogImplementsQueue ==
  ASSUME OneProducer
  PROVE  Spec => Queue!Spec
<1>1. Inv /\ CallInv /\ [Next]_vars => CallInv'
  BY NextCall
<1>2. Init => CallInv
  BY DEF Init, CallInv
<1>3. Spec => []CallInv
  BY <1>1, <1>2, InvHolds, PTL DEF Spec
<1>4. Inv /\ CopiedInv /\ ContentInv /\ CallInv /\ [Next]_vars => [Queue!Next]_Queue!vars
  BY NextQueue
<1> QED
  BY <1>3, <1>4, InitQueue, InvHolds, CopiedHolds, ContentHolds, PTL DEF Spec, Queue!Spec
=============================================================================
