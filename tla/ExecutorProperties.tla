-------------------------- MODULE ExecutorProperties ------------------------
(***************************************************************************)
(* What the executor, its machines and the ring promise together.          *)
(***************************************************************************)
EXTENDS Executor

Live(i) == conn_data[i] # None

HandleOf(i) ==
  ObjectHandle(CONN_HANDLER, [index |-> i, generation |-> conn_alloc.generation[i]])

Receiving == {i \in 0 .. NHandlers - 1 : Live(i) /\ conn_data[i].state = "Recv"}

-----------------------------------------------------------------------------
(* Type invariant of the executor's state. *)
TypeOK ==
  /\ intents \in Seq(IntentsOf(current))
  /\ pc # "intents" => intents = << >>
  /\ io_bufs \in GenAllocs(NBufs)
  /\ mem \in [Addresses -> Bytes]
  /\ panic \in PanicSites \cup {"no"}
  /\ conn_alloc \in GenAllocs(NHandlers)
  /\ conn_data \in [0 .. NHandlers - 1 -> ConnHandlers \cup {None}]
  /\ tcp_listener \in TcpServerStates
  /\ run_queues \in [{0, 1} -> Seq(RunQueueEvents)]
  /\ current_run_queue \in {0, 1}
  /\ current \in Handles \cup {None}
  /\ pc \in {"drain", "intents", "submit", "enter", "reap"}
  /\ sq \in Seq(Sqes)
  /\ cq \in Seq(Cqes)
  /\ accepts \in Nat
  /\ reads \in Seq(Reads)
  /\ files \in [Slots -> Conns \cup {None}]
  /\ waiting \subseteq Conns
  /\ sent \in [Conns -> 0 .. MaxStream]
  /\ fin \subseteq Conns
  /\ faults \in 0 .. MaxFaults

-----------------------------------------------------------------------------
(* No unwrap, assertion or unreachable!() of the executor's path fires     *)
(* (executor/mod.rs:105, 115, 132, 139, 145, 150, 157, 158, 169, 182;      *)
(* conn_handler.rs:52, 84, 120; tcp_server.rs:40, 58).                     *)
NoPanic == panic = "no"

(* Whatever the kernel reports, no machine ever meets an event it has no   *)
(* arm for: Spawn only in Init, completions never in Init                  *)
(* (conn_handler.rs:52, tcp_server.rs:40 and 58).  Holds with every fault, *)
(* because late completions of a machine that is gone carry an old         *)
(* generation.                                                             *)
NoUnreachable == panic # "unreachable"

-----------------------------------------------------------------------------
(* The places where something that will run machine h again can be.        *)
InSeq(s, P(_)) == Cardinality({k \in DOMAIN s : P(s[k])})

Continuations(h) ==
  InSeq(run_queues[0], LAMBDA e : e.handle = h)
  + InSeq(run_queues[1], LAMBDA e : e.handle = h)
  + (IF current = h THEN Len(intents) ELSE 0)
  + InSeq(sq, LAMBDA e : e.user = h)
  + InSeq(reads, LAMBDA e : e.user = h)
  + InSeq(cq, LAMBDA e : e.user = h)

(* Every live connection machine has exactly one event, intent, request or *)
(* completion under way: none is forgotten (the executor would never run   *)
(* it again), and none is served twice.  A machine between on_closing and  *)
(* despawn has its Terminate intent.                                       *)
OneContinuation ==
  panic = "no" => \A i \in 0 .. NHandlers - 1 : Live(i) => Continuations(HandleOf(i)) = 1

(* No machine is ever left with nothing under way, however many errors its *)
(* reads complete with.                                                    *)
NoLostMachine ==
  panic = "no" => \A i \in 0 .. NHandlers - 1 : Live(i) => Continuations(HandleOf(i)) >= 1

(* Accept completions that end the multishot accept. *)
Rearms(e) == e.handle = TcpHandle /\ e.reason.kind = "IoCompleted" /\ ~e.reason.more

AcceptTokens ==
  InSeq(intents, LAMBDA i : i.kind = "SubmitMultishotAccept")
  + InSeq(sq, LAMBDA e : e.op = "accept")
  + accepts
  + InSeq(cq, LAMBDA e : e.user = TcpHandle /\ ~e.more)
  + InSeq(run_queues[0], Rearms) + InSeq(run_queues[1], Rearms)

(* While the listener accepts, exactly one multishot accept is armed, or   *)
(* on its way to the kernel, or its end is on its way back                 *)
(* (tcp_server.rs:52-55): the server neither goes deaf nor arms two.       *)
ListenerArmed ==
  panic = "no" => AcceptTokens = (IF tcp_listener = "Accepting" THEN 1 ELSE 0)

(* The kernel never has more completions to post than its queue holds:     *)
(* UringIO::new asks for no size, so it is twice that of the submission    *)
(* queue (hoarder-io/src/lib.rs:52-57).  It rests on each machine having   *)
(* one request under way, however many clients come and go while the       *)
(* executor is not reaping.                                                *)
CompletionQueueSuffices == Len(cq) <= 2 * SqEntries

-----------------------------------------------------------------------------
(* What a receiving machine has in its buffer is the start of its own      *)
(* peer's stream, with nothing lost, repeated or of another connection,    *)
(* and the header it parsed is the stream's (conn_handler.rs:80-87).       *)
ReceivedIsStream ==
  \A i \in Receiving :
    LET h == conn_data[i]
    IN  /\ \A k \in 0 .. h.offset - 1 : mem[BufPtr(h.buf_handle.index) + k] = <<h.peer, k>>
        /\ h.phase = "ReceivingBody" =>
             \A k \in 0 .. HdrSize - 1 : h.header[k] = <<h.peer, k>>

(* Machine of handle h, in one of the given states, for request checks. *)
Owns(h, states) ==
  /\ h.pool = CONN_HANDLER
  /\ IsValid(conn_alloc, h)
  /\ conn_data[h.index].state \in states

(* The target of a read lies in the buffer that machine h holds, which has *)
(* not been given back.                                                    *)
InOwnBuffer(r, h) ==
  /\ IsValid(io_bufs, h.buf_handle)
  /\ r.addr .. r.addr + r.len - 1 \subseteq Iovec(h.buf_handle.index)

(* A request in the submission queue, or a read in the kernel, belongs to  *)
(* a live machine in the matching state, acts on the connection of that    *)
(* machine, and a read writes into the buffer that the machine holds: a    *)
(* close never hits a slot that has been given to another client, the      *)
(* kernel never writes into a buffer that has been given back, nor beyond  *)
(* the end of a buffer into the next (executor/mod.rs:153-182).            *)
RequestsReachOwnPeer ==
  /\ \A k \in DOMAIN sq :
       /\ sq[k].op = "close" =>
            /\ Owns(sq[k].user, {"Closing"})
            /\ files[sq[k].fixed] = conn_data[sq[k].user.index].peer
       /\ sq[k].op = "recv" =>
            /\ Owns(sq[k].user, {"Recv"})
            /\ files[sq[k].fixed] = conn_data[sq[k].user.index].peer
            /\ InOwnBuffer(sq[k], conn_data[sq[k].user.index])
  /\ \A k \in DOMAIN reads :
       /\ Owns(reads[k].user, {"Recv"})
       /\ reads[k].conn = conn_data[reads[k].user.index].peer
       /\ InOwnBuffer(reads[k], conn_data[reads[k].user.index])

(* Buffers are neither leaked nor shared: a buffer is out of the free list *)
(* exactly when one receiving machine holds it (conn_handler.rs:57-69,     *)
(* 141-146).                                                               *)
BuffersConserved ==
  \A b \in 0 .. NBufs - 1 :
    Cardinality({i \in Receiving : conn_data[i].buf_handle.index = b})
      = IF \E k \in DOMAIN io_bufs.free_list : io_bufs.free_list[k] = b THEN 0 ELSE 1

(* A connection in a file slot is never forgotten: its accept is still on  *)
(* the way to a machine, or a live machine serves it, or its close is      *)
(* under way.                                                              *)
SlotsAccountedFor ==
  panic = "no" =>
  \A s \in Slots : files[s] # None =>
    \/ \E k \in DOMAIN cq : cq[k].user = TcpHandle /\ cq[k].res = s
    \/ \E q \in {0, 1} : \E k \in DOMAIN run_queues[q] :
         LET e == run_queues[q][k]
         IN  e.handle = TcpHandle /\ e.reason.kind = "IoCompleted" /\ e.reason.res = s
    \/ \E k \in DOMAIN intents : intents[k] \in {SpawnConnHandler(s), CloseFixed(s)}
    \/ \E i \in 0 .. NHandlers - 1 :
         Live(i) /\ conn_data[i].socket = s /\ conn_data[i].peer = files[s]
    \/ \E k \in DOMAIN sq : sq[k].op = "close" /\ sq[k].fixed = s

-----------------------------------------------------------------------------
(* A connection that an accept has put into a slot leaves it again, if     *)
(* clients hang up: its machine is spawned, gets a buffer, sees the end of *)
(* the stream, and its close is submitted, although submit_and_wait may    *)
(* come back with the submission queue untouched (executor/mod.rs:58-120,  *)
(* hoarder-io/src/lib.rs:67-80).                                           *)
ConnectionsEnd ==
  \A c \in Conns : (\E s \in Slots : files[s] = c) ~> (\A s \in Slots : files[s] # c)

-----------------------------------------------------------------------------
(* The executor as a server: a client is as far as its file slot and the   *)
(* machine that serves it are, and what the server has received of its     *)
(* stream is that machine's offset.                                        *)
Serves(i, c, state) == Live(i) /\ conn_data[i].peer = c /\ conn_data[i].state = state

Served(c, state) == \E i \in 0 .. NHandlers - 1 : Serves(i, c, state)

PhaseOf(c) ==
  IF c \in waiting THEN "waiting"
  ELSE IF \A s \in Slots : files[s] # c THEN "gone"
  ELSE IF Served(c, "Recv") THEN (IF c \in fin THEN "ended" ELSE "receiving")
  ELSE IF Served(c, "Closing") THEN "closing"
  ELSE "connected"

ReceivedOf(c) ==
  IF Served(c, "Recv")
  THEN conn_data[CHOOSE i \in 0 .. NHandlers - 1 : Serves(i, c, "Recv")].offset
  ELSE sent[c]

(* The accept that finds the file table full is the last one. *)
Refusal(res, handle) == handle = TcpHandle /\ res = -ENFILE

Accepting ==
  /\ tcp_listener # "Error"
  /\ InSeq(cq, LAMBDA e : Refusal(e.res, e.user)) = 0
  /\ \A q \in {0, 1} :
       InSeq(run_queues[q],
             LAMBDA e : e.reason.kind = "IoCompleted" /\ Refusal(e.reason.res, e.handle)) = 0

TheServer == INSTANCE Server WITH
  Clients   <- Conns,
  Places    <- NHandlers,
  Buffers   <- NBufs,
  phase     <- [c \in Conns |-> PhaseOf(c)],
  received  <- [c \in Conns |-> ReceivedOf(c)],
  accepting <- Accepting

(* The executor, its machines and the ring implement the server: a client  *)
(* is let in only while a file slot is free and turned away only when none *)
(* is, and no other is let in after it; buffers are never held by more     *)
(* clients than there are; a connection is closed only when the client has *)
(* hung up and no byte that a read took is left behind, whatever the order *)
(* of completions (executor/mod.rs:54-186).                                *)
ImplementsServer == TheServer!Spec

(* And every client that is let in is served: it gets a buffer, however    *)
(* many others wait for it, what it sends is received, and when it hangs   *)
(* up its connection is closed, although each retry may block in           *)
(* io_uring_enter (conn_handler.rs:57-69, executor/mod.rs:105).            *)
ServesEveryone == TheServer!Fairness
=============================================================================
