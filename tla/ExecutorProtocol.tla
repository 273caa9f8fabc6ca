-------------------------- MODULE ExecutorProtocol --------------------------
(***************************************************************************)
(* The protocol between the executor and its state machines                *)
(* (hoarder-blob/src/protocol/mod.rs): the events it delivers, the intents *)
(* they answer with, and the ExecutorContext a machine works on.           *)
(***************************************************************************)
EXTENDS Errno, Sequences, GenAlloc

CONSTANTS
  NHandlers,  \* capacity of the connection pool and of the fixed-file table
  NBufs,      \* number of buffers in io_bufs
  BufSize,    \* bytes in one buffer (0x1000)
  HdrSize,    \* size_of::<MsgHeader>() (5)
  OverflowChecks, \* whether the build checks arithmetic (debug) or wraps (release)
  Conns,      \* the client connections of a behaviour
  None        \* Option::None, and the absence of a connection in a file slot

ASSUME SizesAssumption ==
  /\ NHandlers \in Nat \ {0}
  /\ NBufs \in Nat \ {0}
  /\ BufSize \in Nat \ {0}
  /\ HdrSize \in 1 .. BufSize
  /\ OverflowChecks \in BOOLEAN

ASSUME NoneAssumption ==
  /\ None \notin Conns
  /\ None \notin GenId

(* AlignedBuffers: the buffers lie one after the other in one allocation;  *)
(* an address is an offset from its start.                                 *)
Addresses == 0 .. NBufs * BufSize - 1

(* AlignedBuffers::buf_ptr. *)
BufPtr(index) == index * BufSize

(* The bytes of a buffer, which setup() registers as its iovec and get()   *)
(* returns as its slice.                                                   *)
Iovec(index) == BufPtr(index) .. BufPtr(index) + BufSize - 1

(* Direct descriptors: setup() registers as many as there are handlers. *)
Slots == 0 .. NHandlers - 1

TCP_SERVER   == 1
CONN_HANDLER == 2

(* ObjectHandle, as the three fields its u64 packs. *)
ObjectHandle(pool, id) ==
  [pool |-> pool, index |-> id.index, generation |-> id.generation]

(* The one listener run() seeds, first object of its pool. *)
TcpHandle == ObjectHandle(TCP_SERVER, [index |-> 0, generation |-> 0])

ConnHandles ==
  [pool : {CONN_HANDLER}, index : 0 .. NHandlers - 1, generation : 0 .. GenSpan - 1]

Handles == {TcpHandle} \cup ConnHandles

(* MachineEvent.  "more" is the CQE flag more_io() tests. *)
Spawn == [kind |-> "Spawn", res |-> 0, more |-> FALSE]

IoCompleted(res, more) == [kind |-> "IoCompleted", res |-> res, more |-> more]

(* The results of an accept are direct descriptors or negative errors. *)
AcceptResults == {res \in Int : res < NHandlers}

Events(results) ==
  [kind : {"Spawn", "IoCompleted"}, res : results, more : BOOLEAN]

RunQueueEvents ==
  [reason : Events(AcceptResults), handle : {TcpHandle}]
    \cup [reason : Events(Int), handle : ConnHandles]

(* MachineIntent.  Every intent is a record with the four fields; an       *)
(* intent without a buffer has None there.                                 *)
Intent(kind, fixed, buf, off) ==
  [kind |-> kind, fixed |-> fixed, buf |-> buf, off |-> off]

Retry                   == Intent("Retry", 0, None, 0)
Terminate               == Intent("Terminate", 0, None, 0)
CloseFixed(s)           == Intent("CloseFixed", s, None, 0)
SpawnConnHandler(s)     == Intent("SpawnConnHandler", s, None, 0)
SubmitMultishotAccept   == Intent("SubmitMultishotAccept", 0, None, 0)
SubmitRecv(s, buf, off) == Intent("SubmitRecv", s, buf, off)

(* The intents of the two kinds of machine. *)
TcpIntents == {SubmitMultishotAccept} \cup {SpawnConnHandler(s) : s \in Slots}

ConnIntents ==
  {Retry, Terminate} \cup {CloseFixed(s) : s \in Slots}
    \cup [kind : {"SubmitRecv"}, fixed : Slots, buf : GenId, off : Nat]

IntentsOf(h) ==
  IF h = TcpHandle THEN TcpIntents ELSE IF h \in ConnHandles THEN ConnIntents ELSE {}

-----------------------------------------------------------------------------
VARIABLES
  intents,   \* ExecutorContext.intents[..len]: what the last machine asked for
  io_bufs,   \* ExecutorContext.buffers: the allocator of the buffer pool
  mem,       \* ExecutorContext.buffers: the memory behind them
  panic      \* "no", or the site where the process panicked

contextVars == <<intents, io_bufs, mem, panic>>

(* A byte of client data is the connection it came from and its position   *)
(* in that connection's stream; memory never written to holds None.        *)
Bytes == (Conns \X Nat) \cup {None}

(* A panic ends the process: no action is enabled in a state with one. *)
Running == panic = "no"

(* A free that stops the process. *)
FreePanics(a, id) == OverflowChecks /\ Overflows(a, id)

(* The sites at which the sources can panic on the executor's path. *)
PanicSites ==
  {"unreachable", "unexpected IO error", "offset assertion", "stale buffer",
   "run queue full", "submission queue full", "handler pool full", "handler slot taken",
   "submit_and_wait failed", "generation overflow"}
=============================================================================
