--------------------------- MODULE LogProperties ----------------------------
(***************************************************************************)
(* What the logger guarantees, and to whom.                                *)
(***************************************************************************)
EXTENDS LogBuffer

PLoc == {"idle", "load", "cas", "offset", "copy", "publish", "clear",
         "flush0", "flush1", "dead"}
CLoc == {"idle", "load", "cas", "offset", "write", "reset"}

(* Type invariant of the logger's state. *)
TypeOK ==
  /\ bufs \in [Indices -> [0 .. BufSize - 1 -> Bytes \cup {Uninit}]]
  /\ offsets \in [Indices -> 0 .. BufSize]
  /\ state \in States
  /\ ppc \in [Producers -> PLoc]
  /\ pcurr \in [Producers -> States]
  /\ poffset \in [Producers -> 0 .. BufSize]
  /\ plen \in [Producers -> 0 .. MAX_LOG_LINE]
  /\ pushes \in [Producers -> 0 .. MaxPushes]
  /\ cpc \in CLoc
  /\ ccurr \in States
  /\ coffset \in 0 .. BufSize
  /\ accepted \in Seq(Bytes)
  /\ out \in Seq(Bytes \cup {Uninit})

-----------------------------------------------------------------------------
(* A producer that has the writer bit works on the buffer of its index; a  *)
(* consumer that has flipped works on the one it flipped away from.        *)
Writing(p) == ppc[p] \in {"offset", "copy", "publish"}
Draining == cpc \in {"offset", "write", "reset"}

(* The SAFETY comment on Logger (lib.rs:91-93): no two threads are ever on *)
(* the same index of bufs and offsets.                                     *)
MutualExclusion ==
  \A p \in Producers : Writing(p) =>
    /\ Draining => pcurr[p].idx # ccurr.idx
    /\ \A q \in Producers : Writing(q) /\ pcurr[q].idx = pcurr[p].idx => p = q

(* The first half alone, in the comment's own words: "the Producer and     *)
(* Consumer never concurrently access the same index" (lib.rs:91-92).  It  *)
(* needs a single pushing thread, which Producer, being Sync, does not     *)
(* ask for.                                                                *)
NeverSameIndex ==
  \A p \in Producers : Writing(p) /\ Draining => pcurr[p].idx # ccurr.idx

(* The bytes that were pushed and have not been written: those of the      *)
(* buffer the consumer has taken, then those of the active buffer.         *)
Taken ==
  IF cpc \in {"offset", "write"} THEN Slice(ccurr.idx, offsets[ccurr.idx]) ELSE << >>

Undelivered == Taken \o Slice(state.idx, offsets[state.idx])

(* The panic hook has written. *)
Dumped == \E p \in Producers : ppc[p] \in {"flush1", "dead"}

(* Until a panic hook writes, what was written and what is still in the    *)
(* buffers is exactly what was accepted: across any number of flips no     *)
(* byte is lost, written twice, overwritten or out of order                *)
(* (lib.rs:132-180, 204-243).                                              *)
StreamIntact == ~Dumped => out \o Undelivered = accepted

(* The logger implements the queue of LogQueue: a line is appended when    *)
(* its length is published, bytes leave in the consumer's callback, with a *)
(* fair consumer every accepted byte is written, and a panic hook repeats  *)
(* bytes at worst (lib.rs:132-243).                                        *)
Queue == INSTANCE LogQueue
           WITH Lines   <- {Line(p, k, n) :
                              p \in Producers, k \in 1 .. MaxPushes, n \in 1 .. MAX_LOG_LINE},
                queue   <- Undelivered,
                crashed <- Dumped

ImplementsLogQueue == Queue!Spec /\ (ConsumerFairness => Queue!Fairness)

(* A push that has been called returns, whether its line fits or not, also *)
(* when the consumer has stopped for good at any step of consume: it never *)
(* spins on the consumer (lib.rs:128-180).  FairSpec asks nothing of the   *)
(* consumer.                                                               *)
PushReturns == \A p \in Producers : ppc[p] = "load" ~> ppc[p] = "idle"

(* When the panic hook has run, every byte that a push had accepted has    *)
(* been written, by the consumer or by the hook, wherever the consumer was *)
(* (lib.rs:184-201).                                                       *)
NothingLostOnPanic ==
  \A p \in Producers : ppc[p] = "dead" =>
    \A k \in DOMAIN accepted : \E n \in DOMAIN out : out[n] = accepted[k]

(* The panic hook never writes memory that no push has filled.             *)
OnlyLoggedBytes == \A n \in DOMAIN out : \E k \in DOMAIN accepted : accepted[k] = out[n]
=============================================================================
