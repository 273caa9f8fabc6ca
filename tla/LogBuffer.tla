----------------------------- MODULE LogBuffer ------------------------------
(***************************************************************************)
(* The double-buffered logger of hoarder-log/src/lib.rs: producers append  *)
(* to the active buffer under the writer bit, the consumer flips the       *)
(* active index and drains the other buffer, and a panic hook dumps both.  *)
(* There is one action per access to the shared atomics.                   *)
(*                                                                         *)
(* Atomics take the last value written.  A relaxed load of state may       *)
(* return an older one, but then the compare-exchange that follows fails,  *)
(* which AcquireFails and FlipFails allow at any time; the loads of        *)
(* offsets in push and consume follow an acquire of state.                 *)
(***************************************************************************)
EXTENDS FmtBuf

CONSTANTS
  Producers,  \* threads that hold the &Producer
  BufSize,    \* bytes in each of the two buffers
  MaxMessage, \* bound: bytes in the message of one log call
  MaxPushes,  \* bound: calls of push by one producer
  MayPanic    \* whether a producer's thread may panic between pushes

ASSUME LogAssumption ==
  /\ BufSize \in Nat \ {0}
  /\ MaxMessage \in Nat
  /\ MaxPushes \in Nat
  /\ MayPanic \in BOOLEAN

VARIABLES
  bufs,      \* Logger.bufs
  offsets,   \* Logger.offsets
  state,     \* Logger.state: WRITER_BIT and the index of the active buffer
  ppc,       \* where each producer is in push (or panic_flush)
  pcurr,     \* curr_state of each producer
  poffset,   \* offset of each producer
  plen,      \* data.len() of each producer
  pushes,    \* calls of push each producer has made
  cpc,       \* where the consumer is in consume
  ccurr,     \* curr_state of the consumer
  coffset,   \* offset of the consumer
  accepted,  \* history: the bytes of the pushes that returned Ok, in order
  out        \* history: the bytes handed to write(2)

sharedVars == <<bufs, offsets, state>>
producerVars == <<ppc, pcurr, poffset, plen, pushes>>
consumerVars == <<cpc, ccurr, coffset>>
vars == <<sharedVars, producerVars, consumerVars, accepted, out>>

Indices == {0, 1}

States == [writer : BOOLEAN, idx : Indices]

(* A byte of a line: who pushed it, in which call, and its place there. *)
Bytes == Producers \X Nat \X Nat

Uninit == <<>>   \* a byte of AlignedBuffers that was never written

(* The k-th line of producer p with n bytes. *)
Line(p, k, n) == [j \in 1 .. n |-> <<p, k, j>>]

(* bufs[i][..n], as a slice. *)
Slice(i, n) == [j \in 1 .. n |-> bufs[i][j - 1]]

(* Logger::new. *)
Init ==
  /\ bufs = [i \in Indices |-> [j \in 0 .. BufSize - 1 |-> Uninit]]
  /\ offsets = [i \in Indices |-> 0]
  /\ state = [writer |-> FALSE, idx |-> 0]
  /\ ppc = [p \in Producers |-> "idle"]
  /\ pcurr = [p \in Producers |-> [writer |-> FALSE, idx |-> 0]]
  /\ poffset = [p \in Producers |-> 0]
  /\ plen = [p \in Producers |-> 0]
  /\ pushes = [p \in Producers |-> 0]
  /\ cpc = "idle"
  /\ ccurr = [writer |-> FALSE, idx |-> 0]
  /\ coffset = 0
  /\ accepted = << >>
  /\ out = << >>

-----------------------------------------------------------------------------
(* Producer::push. *)
PGoto(p, from, to) ==
  /\ ppc[p] = from
  /\ ppc' = [ppc EXCEPT ![p] = to]

(* A log macro formats its line on the stack and calls push with it.       *)
hlog(p, level, n) ==
  /\ PGoto(p, "idle", "load")
  /\ pushes[p] < MaxPushes
  /\ pushes' = [pushes EXCEPT ![p] = @ + 1]
  /\ plen' = [plen EXCEPT ![p] = Len(Formatted(level, n))]
  /\ UNCHANGED <<sharedVars, pcurr, poffset, consumerVars, accepted, out>>

LoadState(p) ==
  /\ PGoto(p, "load", "cas")
  /\ pcurr' = [pcurr EXCEPT ![p] = state]
  /\ UNCHANGED <<sharedVars, poffset, plen, pushes, consumerVars, accepted, out>>

(* Faulty test, for the mutants: off by one. *)
AlmostFits(p) == offsets[pcurr[p].idx] + plen[p] <= BufSize + 1

Fits(p) == offsets[pcurr[p].idx] + plen[p] <= BufSize

(* Faulty exchange, for the mutants: a push waits, without the writer bit, *)
(* until the consumer has made room for its line.                          *)
AcquireWithRoom(p) ==
  /\ PGoto(p, "cas", "offset")
  /\ Fits(p)
  /\ state = pcurr[p]
  /\ state' = [pcurr[p] EXCEPT !.writer = TRUE]
  /\ UNCHANGED <<bufs, offsets, pcurr, poffset, plen, pushes, consumerVars, accepted, out>>

(* The exchange sets the writer bit over whatever the loaded state was. *)
Acquire(p) ==
  /\ PGoto(p, "cas", "offset")
  /\ state = pcurr[p]
  /\ state' = [pcurr[p] EXCEPT !.writer = TRUE]
  /\ UNCHANGED <<bufs, offsets, pcurr, poffset, plen, pushes, consumerVars, accepted, out>>

(* A weak exchange may fail for no reason. *)
AcquireFails(p) ==
  /\ PGoto(p, "cas", "load")
  /\ UNCHANGED <<sharedVars, pcurr, poffset, plen, pushes, consumerVars, accepted, out>>

LoadOffset(p) ==
  /\ PGoto(p, "offset", IF Fits(p) THEN "copy" ELSE "clear")
  /\ poffset' = [poffset EXCEPT ![p] = offsets[pcurr[p].idx]]
  /\ UNCHANGED <<sharedVars, pcurr, plen, pushes, consumerVars, accepted, out>>

Copy(p) ==
  /\ PGoto(p, "copy", "publish")
  /\ bufs' = [bufs EXCEPT ![pcurr[p].idx] =
       [j \in 0 .. BufSize - 1 |->
          IF j \in poffset[p] .. poffset[p] + plen[p] - 1
          THEN Line(p, pushes[p], plen[p])[j - poffset[p] + 1]
          ELSE @[j]]]
  /\ UNCHANGED <<offsets, state, pcurr, poffset, plen, pushes, consumerVars, accepted, out>>

(* Faulty publication, for the mutants: a store in place of the addition. *)
PublishStores(p) ==
  /\ PGoto(p, "publish", "clear")
  /\ offsets' = [offsets EXCEPT ![pcurr[p].idx] = plen[p]]
  /\ accepted' = accepted \o Line(p, pushes[p], plen[p])
  /\ UNCHANGED <<bufs, state, pcurr, poffset, plen, pushes, consumerVars, out>>

Publish(p) ==
  /\ PGoto(p, "publish", "clear")
  /\ offsets' = [offsets EXCEPT ![pcurr[p].idx] = @ + plen[p]]
  /\ accepted' = accepted \o Line(p, pushes[p], plen[p])
  /\ UNCHANGED <<bufs, state, pcurr, poffset, plen, pushes, consumerVars, out>>

(* fetch_and(!WRITER_BIT), after a line was written or did not fit. *)
Clear(p) ==
  /\ PGoto(p, "clear", "idle")
  /\ state' = [state EXCEPT !.writer = FALSE]
  /\ UNCHANGED <<bufs, offsets, pcurr, poffset, plen, pushes, consumerVars, accepted, out>>

-----------------------------------------------------------------------------
(* Consumer::consume, called in a loop by the consumer thread.             *)
CGoto(from, to) ==
  /\ cpc = from
  /\ cpc' = to

Consume ==
  /\ CGoto("idle", "load")
  /\ UNCHANGED <<sharedVars, producerVars, ccurr, coffset, accepted, out>>

(* Faulty load, for the mutants: the writer bit is not waited for. *)
ConsumerLoadHurries ==
  /\ CGoto("load", "cas")
  /\ ccurr' = state
  /\ UNCHANGED <<sharedVars, producerVars, coffset, accepted, out>>

ConsumerLoad ==
  /\ CGoto("load", IF state.writer THEN "load" ELSE "cas")
  /\ ccurr' = state
  /\ UNCHANGED <<sharedVars, producerVars, coffset, accepted, out>>

(* The exchange makes the other buffer the active one. *)
Flip ==
  /\ CGoto("cas", "offset")
  /\ state = ccurr
  /\ state' = [writer |-> FALSE, idx |-> 1 - ccurr.idx]
  /\ UNCHANGED <<bufs, offsets, producerVars, ccurr, coffset, accepted, out>>

FlipFails ==
  /\ CGoto("cas", "load")
  /\ UNCHANGED <<sharedVars, producerVars, ccurr, coffset, accepted, out>>

ConsumerLoadOffset ==
  /\ CGoto("offset", IF offsets[ccurr.idx] > 0 THEN "write" ELSE "reset")
  /\ coffset' = offsets[ccurr.idx]
  /\ UNCHANGED <<sharedVars, producerVars, ccurr, accepted, out>>

(* cb(..): write_to_stdout. *)
WriteOut ==
  /\ CGoto("write", "reset")
  /\ out' = out \o Slice(ccurr.idx, coffset)
  /\ UNCHANGED <<sharedVars, producerVars, ccurr, coffset, accepted>>

(* Faulty reset, for the mutants: of the buffer that is active now. *)
ResetActive ==
  /\ CGoto("reset", "idle")
  /\ offsets' = [offsets EXCEPT ![state.idx] = 0]
  /\ UNCHANGED <<bufs, state, producerVars, ccurr, coffset, accepted, out>>

Reset ==
  /\ CGoto("reset", "idle")
  /\ offsets' = [offsets EXCEPT ![ccurr.idx] = 0]
  /\ UNCHANGED <<bufs, state, producerVars, ccurr, coffset, accepted, out>>

-----------------------------------------------------------------------------
(* The panic hook: panic_flush writes buffer 0 and then buffer 1, whatever *)
(* the consumer is doing.  Only the panicking thread writes to the         *)
(* buffers, so a load of an offset and the write that follows are one      *)
(* step.                                                                   *)
Panic(p) ==
  /\ MayPanic
  /\ PGoto(p, "idle", "flush0")
  /\ UNCHANGED <<sharedVars, pcurr, poffset, plen, pushes, consumerVars, accepted, out>>

(* Faulty flush, for the mutants: the whole buffer. *)
FlushWhole(p, i, from, to) ==
  /\ PGoto(p, from, to)
  /\ out' = out \o Slice(i, BufSize)
  /\ UNCHANGED <<sharedVars, pcurr, poffset, plen, pushes, consumerVars, accepted>>

Flush(p, i, from, to) ==
  /\ PGoto(p, from, to)
  /\ out' = out \o Slice(i, offsets[i])
  /\ UNCHANGED <<sharedVars, pcurr, poffset, plen, pushes, consumerVars, accepted>>

(* Faulty hook, for the mutants: only the active buffer. *)
PanicFlushActive(p) == Flush(p, state.idx, "flush0", "dead")

PanicFlush(p) == Flush(p, 0, "flush0", "flush1") \/ Flush(p, 1, "flush1", "dead")

-----------------------------------------------------------------------------
Producer(p) ==
  \/ LoadState(p) \/ Acquire(p) \/ AcquireFails(p) \/ LoadOffset(p)
  \/ Copy(p) \/ Publish(p) \/ Clear(p)

Consumer ==
  \/ Consume \/ ConsumerLoad \/ Flip \/ FlipFails
  \/ ConsumerLoadOffset \/ WriteOut \/ Reset

Next ==
  \/ \E p \in Producers :
       \/ \E level \in LogLevels, n \in 0 .. MaxMessage : hlog(p, level, n)
       \/ Producer(p)
       \/ Panic(p)
       \/ PanicFlush(p)
  \/ Consumer

Spec == Init /\ [][Next]_vars

(* No thread has panicked. *)
Alive == \A p \in Producers : ppc[p] \notin {"flush0", "flush1", "dead"}

(* A thread in push keeps running, and its exchange does not fail for      *)
(* ever: a failure is spurious or needs a flip in between.  Nothing is     *)
(* asked of the consumer, which may stop at any step.                      *)
ProducerFairness == \A p \in Producers : WF_vars(Producer(p)) /\ SF_vars(Acquire(p))

FairSpec == Spec /\ ProducerFairness

(* A consumer that keeps running, and whose exchange does not fail for     *)
(* ever, since a push is short.  The hook of a panic runs to its end; the  *)
(* consumer ends with the process some time after the panic.               *)
ConsumerFairness ==
  /\ WF_vars(Alive /\ Consumer)
  /\ SF_vars(Alive /\ Flip)
  /\ \A p \in Producers : WF_vars(PanicFlush(p))
=============================================================================
