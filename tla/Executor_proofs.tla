--------------------------- MODULE Executor_proofs --------------------------
(***************************************************************************)
(* Proofs about the executor, for every number of clients, handlers and    *)
(* buffers.                                                                *)
(*                                                                         *)
(* First, its state is well typed.  The type invariant is inductive: it    *)
(* ties the intents to the machine that asked for them and every event,    *)
(* request and completion to the pool of its handle, which is what the     *)
(* unsafe unwraps of the source rely on (a machine past Init has a         *)
(* buffer handle; an accept's result indexes the file table).              *)
(*                                                                         *)
(* Then, in a build that checks arithmetic, for every error a read may     *)
(* complete with and every length of a generation counter: no buffer leaks *)
(* or is shared (BuffersConserved), and no machine meets an event that it  *)
(* has no arm for (NoUnreachable).  Without the checks a generation wraps, *)
(* and a handle of a machine that is gone, or of a buffer given back long  *)
(* ago, would be good again.                                               *)
(***************************************************************************)
EXTENDS ExecutorProperties, GenAlloc_proofs, FiniteSetTheorems

USE SizesAssumption, UringAssumption, GenSpanAssumption

-----------------------------------------------------------------------------
(* Queues. *)

(* Removing any position keeps the queue a queue of that kind. *)
LEMMA RemoveType == \A S : \A s \in Seq(S) : \A k \in DOMAIN s : RemoveAt(s, k) \in Seq(S)
<1> SUFFICES ASSUME NEW S, NEW s \in Seq(S), NEW k \in DOMAIN s
             PROVE  RemoveAt(s, k) \in Seq(S)
  OBVIOUS
<1>1. k \in 1 .. Len(s) /\ Len(s) \in Nat
  BY LenProperties
<1>2. SubSeq(s, 1, k - 1) \in Seq(S) /\ SubSeq(s, k + 1, Len(s)) \in Seq(S)
  BY <1>1, SMT
<1> QED
  BY <1>2, ConcatProperties DEF RemoveAt

-----------------------------------------------------------------------------
(* Memory. *)

(* Every byte of every buffer has an address in the one allocation that    *)
(* all of them share, whatever index and offset are within bounds.         *)
LEMMA BufferAddress ==
  ASSUME NEW i \in 0 .. NBufs - 1, NEW j \in 0 .. BufSize - 1
  PROVE  BufPtr(i) + j \in Addresses
<1>1. i * BufSize \in Nat /\ NBufs * BufSize \in Nat
  OBVIOUS
<1>2. NBufs = i + 1 + (NBufs - 1 - i) /\ NBufs - 1 - i \in Nat
  OBVIOUS
<1>3. NBufs * BufSize = i * BufSize + BufSize + (NBufs - 1 - i) * BufSize
  BY <1>2
<1>4. (NBufs - 1 - i) * BufSize \in Nat
  BY <1>2
<1> QED
  BY <1>1, <1>3, <1>4 DEF BufPtr, Addresses

-----------------------------------------------------------------------------
(* Handles. *)

(* The two kinds of handle are told apart by their pool. *)
LEMMA HandleKinds ==
  /\ TcpHandle.pool = TCP_SERVER
  /\ \A h \in ConnHandles : h.pool = CONN_HANDLER
  /\ TcpHandle \notin ConnHandles
  /\ TCP_SERVER # CONN_HANDLER
BY DEF TcpHandle, ConnHandles, ObjectHandle, TCP_SERVER, CONN_HANDLER

(* An event of the run queue is for the listener or for a connection. *)
LEMMA EventKinds ==
  ASSUME NEW e \in RunQueueEvents
  PROVE  /\ e.handle \in Handles
         /\ e.handle.pool = TCP_SERVER
              => e.handle = TcpHandle /\ e.reason \in Events(AcceptResults)
         /\ e.handle.pool = CONN_HANDLER
              => e.handle \in ConnHandles /\ e.reason \in Events(Int)
BY HandleKinds DEF RunQueueEvents, Handles

(* The first intent that is left, and what it says about current. *)
LEMMA IntentKinds ==
  ASSUME TypeOK, intents # << >>
  PROVE  /\ Tail(intents) \in Seq(IntentsOf(current))
         /\ Head(intents).kind \in {"SubmitMultishotAccept", "SpawnConnHandler"}
              => current = TcpHandle /\ Head(intents) \in TcpIntents
         /\ Head(intents).kind \in {"Retry", "Terminate", "CloseFixed", "SubmitRecv"}
              => current \in ConnHandles /\ Head(intents) \in ConnIntents
<1>1. Head(intents) \in IntentsOf(current) /\ Tail(intents) \in Seq(IntentsOf(current))
  BY DEF TypeOK
<1>2. \A i \in TcpIntents : i.kind \in {"SubmitMultishotAccept", "SpawnConnHandler"}
  BY DEF TcpIntents, SubmitMultishotAccept, SpawnConnHandler, Intent
<1>3. \A i \in ConnIntents : i.kind \in {"Retry", "Terminate", "CloseFixed", "SubmitRecv"}
  BY DEF ConnIntents, Retry, Terminate, CloseFixed, Intent
<1>4. \/ current = TcpHandle /\ Head(intents) \in TcpIntents
      \/ current \in ConnHandles /\ Head(intents) \in ConnIntents
  BY <1>1 DEF IntentsOf
<1> QED
  BY <1>1, <1>2, <1>3, <1>4

-----------------------------------------------------------------------------
(* The state Executor::new leaves is well typed. *)
LEMMA InitTypeOK == Init => TypeOK
<1> SUFFICES ASSUME Init PROVE TypeOK
  OBVIOUS
<1>1. io_bufs \in GenAllocs(NBufs) /\ conn_alloc \in GenAllocs(NHandlers)
  BY NewAllocType DEF Init
<1>2. run_queues \in [{0, 1} -> Seq(RunQueueEvents)]
  <2>1. RunQueueEvent(Spawn, TcpHandle) \in RunQueueEvents
    BY DEF RunQueueEvent, RunQueueEvents, Spawn, Events, AcceptResults
  <2> QED
    BY <2>1 DEF Init
<1>3. mem \in [Addresses -> Bytes]
  BY DEF Init, Bytes
<1>4. /\ intents \in Seq(IntentsOf(current))
      /\ sq \in Seq(Sqes) /\ cq \in Seq(Cqes) /\ reads \in Seq(Reads)
  BY DEF Init, UringInit
<1>5. /\ conn_data \in [0 .. NHandlers - 1 -> ConnHandlers \cup {None}]
      /\ files \in [Slots -> Conns \cup {None}]
      /\ waiting \subseteq Conns
      /\ sent \in [Conns -> 0 .. MaxStream]
  BY DEF Init, UringInit
<1>6. pc # "intents" => intents = << >>
  BY DEF Init
<1>7. /\ panic \in PanicSites \cup {"no"}
      /\ tcp_listener \in TcpServerStates
      /\ current_run_queue \in {0, 1}
      /\ current \in Handles \cup {None}
      /\ pc \in {"drain", "intents", "submit", "enter", "reap"}
  BY DEF Init, TcpServerStates
<1>8. accepts \in Nat /\ fin \subseteq Conns /\ faults \in 0 .. MaxFaults
  BY DEF Init, UringInit
<1> QED
  BY <1>1, <1>2, <1>3, <1>4, <1>5, <1>6, <1>7, <1>8, Zenon DEF TypeOK

-----------------------------------------------------------------------------
(* Steps that only move the thread: nothing else changes. *)
LEMMA MovesTypeOK ==
  ASSUME TypeOK,
         DrainDone \/ IntentsDone \/ SubmitShortcut \/ SubmitEnter \/ EnterReturns \/ ReapDone
  PROVE  TypeOK'
<1>1. UNCHANGED <<contextVars, run_queues, machineVars, ringVars, kernelVars>>
  BY Zenon DEF DrainDone, IntentsDone, SubmitShortcut, SubmitEnter, EnterReturns, ReapDone
<1>2. intents = << >>
  BY DEF DrainDone, IntentsDone, SubmitShortcut, SubmitEnter, EnterReturns, ReapDone,
         At, TypeOK
<1>3. current_run_queue' \in {0, 1} /\ current' \in Handles \cup {None}
  <2>1. \/ current_run_queue' = current_run_queue
        \/ current_run_queue' = 1 - current_run_queue
    BY Zenon DEF DrainDone, IntentsDone, SubmitShortcut, SubmitEnter, EnterReturns, ReapDone
  <2>2. current' \in {current, None}
    BY DEF DrainDone, IntentsDone, SubmitShortcut, SubmitEnter, EnterReturns, ReapDone
  <2>3. current_run_queue \in {0, 1} /\ current \in Handles \cup {None}
    BY DEF TypeOK
  <2> QED
    BY <2>1, <2>2, <2>3
<1>4. pc' \in {"drain", "submit", "enter", "reap"}
  BY DEF DrainDone, IntentsDone, SubmitShortcut, SubmitEnter, EnterReturns, ReapDone
<1>5. intents' \in Seq(IntentsOf(current)') /\ (pc' # "intents" => intents' = << >>)
  BY <1>1, <1>2 DEF contextVars
<1> QED
  BY <1>1, <1>3, <1>4, <1>5 DEF TypeOK, contextVars, machineVars, ringVars, kernelVars

(* A crash changes nothing but the panic. *)
LEMMA CrashTypeOK ==
  ASSUME TypeOK, NEW site \in PanicSites, Crash(site)
  PROVE  TypeOK'
<1>1. intents' \in Seq(IntentsOf(current)')
  BY DEF Crash, TypeOK, loopVars, IntentsOf
<1> QED
  BY <1>1 DEF Crash, TypeOK, loopVars, machineVars, ringVars, kernelVars

-----------------------------------------------------------------------------
(* Machines. *)

(* A machine past Init has a buffer handle and may ask for a read. *)
LEMMA RecvType ==
  ASSUME NEW h \in ConnHandlers, h.state # "Init"
  PROVE  /\ Recv(h) \in ConnIntents
         /\ CloseFixed(h.socket) \in ConnIntents
         /\ Closing(h) \in ConnHandlers /\ Closing(h).state = "Closing"
<1>1. h \in Machines({"Recv", "Closing", "Closed"}, GenId)
  BY DEF ConnHandlers, Machines
<1>2. Recv(h) \in ConnIntents
  BY <1>1 DEF Machines, Recv, SubmitRecv, Intent, ConnIntents
<1>3. CloseFixed(h.socket) \in ConnIntents
  BY <1>1 DEF Machines, ConnIntents
<1>4. Closing(h) \in Machines({"Closing"}, GenId)
  BY <1>1 DEF Machines, Closing
<1>5. Closing(h) \in ConnHandlers /\ Closing(h).state = "Closing"
  BY <1>4 DEF Machines, ConnHandlers
<1> QED
  BY <1>2, <1>3, <1>5

(* What a machine has after more data: the header is read only when the    *)
(* buffer handle is valid, and is then within the buffer.                  *)
LEMMA AfterDataType ==
  ASSUME TypeOK, NEW h \in ConnHandlers, h.state = "Recv", NEW n \in Nat,
         h.offset + n >= HdrSize => IsValid(io_bufs, h.buf_handle)
  PROVE  AfterData(h, n) \in ConnHandlers /\ AfterData(h, n).state = "Recv"
<1>1. h \in Machines({"Recv"}, GenId)
  BY DEF ConnHandlers, Machines
<1> DEFINE g == [h EXCEPT !.offset = @ + n]
<1>2. g \in Machines({"Recv"}, GenId) /\ g.offset = h.offset + n /\ g.buf_handle = h.buf_handle
  <2>1. h.offset \in Nat /\ h.offset + n \in Nat
    BY <1>1 DEF Machines
  <2> QED
    BY <1>1, <2>1 DEF Machines
<1>3. CASE g.offset >= HdrSize
  <2>1. Header(g) \in [0 .. HdrSize - 1 -> Bytes]
    <3>1. h.buf_handle.index \in 0 .. NBufs - 1
      BY <1>2, <1>3 DEF IsValid, TypeOK, GenAllocs
    <3>2. \A k \in 0 .. HdrSize - 1 : BufPtr(h.buf_handle.index) + k \in Addresses
      BY <3>1, BufferAddress
    <3>3. \A k \in 0 .. HdrSize - 1 : mem[BufPtr(h.buf_handle.index) + k] \in Bytes
      BY <3>2 DEF TypeOK
    <3> QED
      BY <1>2, <3>3 DEF Header
  <2>2. AfterData(h, n) = [g EXCEPT !.phase = "ReceivingBody", !.header = Header(g)]
    BY <1>3 DEF AfterData
  <2>3. AfterData(h, n) \in Machines({"Recv"}, GenId)
    BY <1>2, <2>1, <2>2 DEF Machines
  <2> QED
    BY <2>3 DEF ConnHandlers, Machines
<1>4. CASE ~(g.offset >= HdrSize)
  <2>1. AfterData(h, n) = [g EXCEPT !.phase = "ReceivingHeader", !.header = None]
    BY <1>4 DEF AfterData
  <2>2. AfterData(h, n) \in Machines({"Recv"}, GenId)
    BY <1>2, <2>1 DEF Machines
  <2> QED
    BY <2>2 DEF ConnHandlers, Machines
<1> QED
  BY <1>3, <1>4

(* What every arm of ConnHandler::process_event leaves behind. *)
ConnArmType ==
  /\ intents' \in Seq(ConnIntents)
  /\ io_bufs' \in GenAllocs(NBufs)
  /\ mem' = mem
  /\ panic' \in PanicSites \cup {"no"}
  /\ conn_data' \in [0 .. NHandlers - 1 -> ConnHandlers \cup {None}]

(* Closing frees the buffer, which may panic, and leaves the machine in    *)
(* the Closing state.                                                      *)
LEMMA CloseType ==
  ASSUME TypeOK, NEW i \in 0 .. NHandlers - 1, conn_data[i] \in ConnHandlers,
         conn_data[i].state # "Init", Close(i)
  PROVE  /\ io_bufs' \in GenAllocs(NBufs)
         /\ panic' \in PanicSites \cup {"no"}
         /\ conn_data' \in [0 .. NHandlers - 1 -> ConnHandlers \cup {None}]
<1>1. io_bufs' \in GenAllocs(NBufs) /\ panic' \in PanicSites \cup {"no"}
  <2>1. io_bufs' = io_bufs \/ io_bufs' = AfterFree(io_bufs, conn_data[i].buf_handle)
    BY DEF Close, FreeBuf
  <2>2. panic' = panic \/ panic' = "generation overflow"
    BY DEF Close
  <2>3. io_bufs \in GenAllocs(NBufs) /\ panic \in PanicSites \cup {"no"}
    BY DEF TypeOK
  <2>4. AfterFree(io_bufs, conn_data[i].buf_handle) \in GenAllocs(NBufs)
    BY <2>3, NBufs \in Nat, FreeType
  <2>5. "generation overflow" \in PanicSites
    BY DEF PanicSites
  <2>6. io_bufs' \in GenAllocs(NBufs)
    BY <2>1, <2>3, <2>4
  <2>7. panic' \in PanicSites \cup {"no"}
    BY <2>2, <2>3, <2>5
  <2> QED
    BY <2>6, <2>7
<1>2. \/ conn_data' = conn_data
      \/ conn_data' = [conn_data EXCEPT ![i] = Closing(conn_data[i])]
  BY DEF Close
<1> QED
  BY <1>1, <1>2, RecvType DEF TypeOK

(* on_init: a buffer is taken, or its exhaustion panics. *)
LEMMA OnInitType ==
  ASSUME TypeOK, NEW i \in 0 .. NHandlers - 1, conn_data[i] \in ConnHandlers, OnInit(i)
  PROVE  ConnArmType
<1> DEFINE h == [conn_data[i] EXCEPT !.state = "Recv", !.phase = "ReceivingHeader",
                                     !.buf_handle = AllocId(io_bufs)]
<1>1. CASE CanAlloc(io_bufs)
  <2>1. AllocId(io_bufs) \in GenId /\ AfterAlloc(io_bufs) \in GenAllocs(NBufs)
    BY <1>1, AllocType DEF TypeOK
  <2>2. h \in Machines({"Recv"}, GenId)
    BY <2>1 DEF ConnHandlers, Machines
  <2>3. h \in ConnHandlers /\ h.state = "Recv"
    BY <2>2 DEF ConnHandlers, Machines
  <2>4. /\ conn_data' = [conn_data EXCEPT ![i] = h]
        /\ io_bufs' = AfterAlloc(io_bufs)
        /\ intents' = <<Recv(h)>>
        /\ UNCHANGED <<mem, panic>>
    BY <1>1 DEF OnInit
  <2>5. Recv(h) \in ConnIntents
    BY <2>3, RecvType
  <2> HIDE DEF h
  <2>6. intents' \in Seq(ConnIntents)
    BY <2>4, <2>5
  <2> QED
    BY <2>1, <2>3, <2>4, <2>6 DEF TypeOK, ConnArmType
<1>2. CASE ~CanAlloc(io_bufs)
  <2>1. Retry \in ConnIntents
    BY DEF ConnIntents
  <2>2. intents' = <<Retry>> /\ UNCHANGED <<conn_data, io_bufs, mem, panic>>
    BY <1>2 DEF OnInit
  <2>3. intents' \in Seq(ConnIntents)
    BY <2>1, <2>2
  <2> QED
    BY <2>2, <2>3 DEF TypeOK, ConnArmType
<1> QED
  BY <1>1, <1>2

(* on_recv with data: the header or the body arrives, whole or in part. *)
LEMMA OnRecvDataType ==
  ASSUME TypeOK, NEW i \in 0 .. NHandlers - 1, conn_data[i] \in ConnHandlers,
         NEW res \in Int, intents = << >>, OnRecvData(i, res)
  PROVE  ConnArmType
<1>1. conn_data[i].state = "Recv" /\ res > 0 /\ UNCHANGED <<io_bufs, mem>>
  BY DEF OnRecvData
<1>. res \in Nat
  BY <1>1
<1>2. CASE conn_data[i].offset + res >= HdrSize /\ ~IsValid(io_bufs, conn_data[i].buf_handle)
  <2>1. panic' = "stale buffer" /\ UNCHANGED <<conn_data, intents>>
    BY <1>2 DEF OnRecvData
  <2>2. << >> \in Seq(ConnIntents)
    OBVIOUS
  <2>3. intents' \in Seq(ConnIntents)
    BY <2>1, <2>2, Zenon
  <2> QED
    BY <1>1, <2>1, <2>3 DEF TypeOK, ConnArmType, PanicSites
<1>3. CASE ~(conn_data[i].offset + res >= HdrSize /\ ~IsValid(io_bufs, conn_data[i].buf_handle))
  <2> DEFINE h == AfterData(conn_data[i], res)
  <2>1. /\ conn_data' = [conn_data EXCEPT ![i] = h]
        /\ intents' = <<Recv(h)>>
        /\ UNCHANGED panic
    BY <1>3 DEF OnRecvData
  <2>2. h \in ConnHandlers /\ h.state = "Recv"
    BY <1>1, <1>3, AfterDataType DEF TypeOK
  <2> HIDE DEF h
  <2>3. Recv(h) \in ConnIntents
    BY <2>2, RecvType
  <2>4. intents' \in Seq(ConnIntents)
    BY <2>1, <2>3
  <2> QED
    BY <1>1, <2>1, <2>2, <2>4 DEF TypeOK, ConnArmType
<1> QED
  BY <1>2, <1>3

(* on_recv with an error or end of file: the machine closes. *)
LEMMA OnRecvErrType ==
  ASSUME TypeOK, NEW i \in 0 .. NHandlers - 1, conn_data[i] \in ConnHandlers,
         NEW res \in Int, intents = << >>,
         \/ OnRecvRetryErr(i, res) \/ OnRecvFatalErr(i, res)
         \/ OnRecvCloseErr(i, res) \/ OnRecvOtherErr(i, res)
  PROVE  ConnArmType
<1> DEFINE h == conn_data[i]
<1>1. h.state = "Recv"
  BY DEF OnRecvRetryErr, OnRecvFatalErr, OnRecvCloseErr, OnRecvOtherErr
<1>2. /\ Recv(h) \in ConnIntents /\ CloseFixed(h.socket) \in ConnIntents
      /\ Closing(h) \in ConnHandlers /\ Closing(h).state = "Closing"
  BY <1>1, RecvType
<1>3. Recv(Closing(h)) \in ConnIntents
  BY <1>2, RecvType
<1>4. CASE OnRecvRetryErr(i, res) \/ OnRecvOtherErr(i, res)
  <2>1. intents' = <<Recv(h), Recv(h)>> \/ intents' = <<Recv(h)>>
    BY <1>4 DEF OnRecvRetryErr, OnRecvOtherErr
  <2>2. <<Recv(h), Recv(h)>> \in Seq(ConnIntents) /\ <<Recv(h)>> \in Seq(ConnIntents)
    BY <1>2
  <2>3. intents' \in Seq(ConnIntents)
    BY <2>1, <2>2, Zenon
  <2>4. UNCHANGED <<conn_data, io_bufs, mem, panic>>
    BY <1>4 DEF OnRecvRetryErr, OnRecvOtherErr
  <2> QED
    BY <2>3, <2>4 DEF TypeOK, ConnArmType
<1>5. CASE OnRecvFatalErr(i, res)
  <2>1. << >> \in Seq(ConnIntents)
    OBVIOUS
  <2>2. intents' \in Seq(ConnIntents)
    BY <1>5, <2>1, Zenon DEF OnRecvFatalErr
  <2> QED
    BY <1>5, <2>2 DEF OnRecvFatalErr, TypeOK, ConnArmType, PanicSites
<1>6. CASE OnRecvCloseErr(i, res)
  <2>1. Close(i) /\ intents' = <<CloseFixed(h.socket), Recv(Closing(h))>>
        /\ UNCHANGED mem
    BY <1>6 DEF OnRecvCloseErr
  <2>2. intents' \in Seq(ConnIntents)
    BY <1>2, <1>3, <2>1
  <2> QED
    BY <1>1, <2>1, <2>2, CloseType DEF TypeOK, ConnArmType
<1> QED
  BY <1>4, <1>5, <1>6

(* Every arm of ConnHandler::process_event keeps the types. *)
LEMMA ConnProcessEventType ==
  ASSUME TypeOK, NEW i \in 0 .. NHandlers - 1, conn_data[i] \in ConnHandlers,
         NEW event \in Events(Int), intents = << >>, ConnProcessEvent(i, event)
  PROVE  ConnArmType
<1> DEFINE h == conn_data[i]
           res == event.res
<1>1. res \in Int
  BY DEF Events
<1>2. CASE ~ConnExpects(i, event)
  <2>1. OnUnexpected(i)
    BY <1>2, Zenon DEF ConnProcessEvent
  <2>2. intents' \in Seq(ConnIntents)
    BY <2>1 DEF OnUnexpected
  <2> QED
    BY <2>1, <2>2 DEF OnUnexpected, TypeOK, ConnArmType, PanicSites
<1>3. CASE OnRecvEof(i, res) \/ OnCloseFailed(i, res)
  <2>1. /\ h.state # "Init" /\ Close(i)
        /\ intents' = <<CloseFixed(h.socket)>> /\ UNCHANGED mem
    BY <1>3 DEF OnRecvEof, OnCloseFailed
  <2>2. intents' \in Seq(ConnIntents)
    BY <2>1, RecvType
  <2> QED
    BY <2>1, <2>2, CloseType DEF TypeOK, ConnArmType
<1>4. CASE OnClosed(i, res)
  <2>1. /\ h.state = "Closing"
        /\ conn_data' = [conn_data EXCEPT ![i] = [h EXCEPT !.state = "Closed"]]
        /\ intents' = <<Terminate>>
        /\ UNCHANGED <<io_bufs, mem, panic>>
    BY <1>4 DEF OnClosed
  <2>2. [h EXCEPT !.state = "Closed"] \in ConnHandlers
    BY <2>1 DEF ConnHandlers, Machines
  <2>3. Terminate \in ConnIntents
    BY DEF ConnIntents
  <2>4. intents' \in Seq(ConnIntents)
    BY <2>1, <2>3
  <2> HIDE DEF h
  <2> QED
    BY <2>1, <2>2, <2>4 DEF TypeOK, ConnArmType
<1>5. CASE ConnExpects(i, event)
  <2>1. \/ OnInit(i) \/ OnRecvData(i, res)
        \/ OnRecvRetryErr(i, res) \/ OnRecvFatalErr(i, res)
        \/ OnRecvCloseErr(i, res) \/ OnRecvOtherErr(i, res)
        \/ OnRecvEof(i, res) \/ OnCloseFailed(i, res) \/ OnClosed(i, res)
    BY <1>5, Zenon DEF ConnProcessEvent
  <2> QED
    BY <1>1, <1>3, <1>4, <2>1, OnInitType, OnRecvDataType, OnRecvErrType
<1> QED
  BY <1>2, <1>5

-----------------------------------------------------------------------------
(* Draining. *)

(* What popping an event leaves behind, whatever its machine does. *)
LEMMA PopEventType ==
  ASSUME TypeOK, Pop
  PROVE  /\ NextEvent \in RunQueueEvents
         /\ run_queues' \in [{0, 1} -> Seq(RunQueueEvents)]
         /\ current' = NextEvent.handle
         /\ pc' = "intents"
         /\ intents = << >>
         /\ UNCHANGED <<current_run_queue, conn_alloc, ringVars, kernelVars>>
<1>1. run_queues[current_run_queue] \in Seq(RunQueueEvents)
  BY DEF TypeOK
<1>2. run_queues[current_run_queue] # << >>
  BY DEF Pop
<1>3. NextEvent \in RunQueueEvents
  BY <1>1, <1>2, PopType DEF NextEvent
<1>4. Tail(run_queues[current_run_queue]) \in Seq(RunQueueEvents)
  BY <1>1, <1>2, PopType
<1>5. run_queues' = [run_queues EXCEPT ![current_run_queue] = Tail(run_queues[current_run_queue])]
  BY DEF Pop
<1>6. run_queues' \in [{0, 1} -> Seq(RunQueueEvents)]
  BY <1>4, <1>5 DEF TypeOK
<1> QED
  BY <1>3, <1>6 DEF Pop, TypeOK

(* A dispatch is well typed when its machine's arm is. *)
LEMMA DispatchType ==
  ASSUME TypeOK, Pop, NextEvent.handle \in Handles,
         intents' \in Seq(IntentsOf(NextEvent.handle)),
         io_bufs' \in GenAllocs(NBufs),
         mem' = mem,
         panic' \in PanicSites \cup {"no"},
         conn_data' \in [0 .. NHandlers - 1 -> ConnHandlers \cup {None}],
         tcp_listener' \in TcpServerStates
  PROVE  TypeOK'
<1>1. intents' \in Seq(IntentsOf(current)')
  BY PopEventType DEF IntentsOf
<1>2. /\ run_queues' \in [{0, 1} -> Seq(RunQueueEvents)]
      /\ current' \in Handles \cup {None}
      /\ pc' = "intents"
      /\ UNCHANGED <<current_run_queue, conn_alloc, ringVars, kernelVars>>
  BY PopEventType
<1> QED
  BY <1>1, <1>2 DEF TypeOK, ringVars, kernelVars

(* An event handed to the listener keeps the state well typed. *)
LEMMA DispatchTcpTypeOK == ASSUME TypeOK, DispatchTcp PROVE TypeOK'
<1> DEFINE e == NextEvent.reason
<1>1. Pop /\ NextEvent.handle.pool = TCP_SERVER /\ TcpProcessEvent(e) /\ conn_data' = conn_data
  BY DEF DispatchTcp
<1>2. NextEvent.handle = TcpHandle /\ e \in Events(AcceptResults) /\ intents = << >>
  BY <1>1, PopEventType, EventKinds
<1>3. e.res \in AcceptResults
  BY <1>2 DEF Events
<1>4. << >> \in Seq(TcpIntents) /\ SubmitMultishotAccept \in TcpIntents
  BY DEF TcpIntents
<1>5. /\ intents' \in Seq(TcpIntents)
      /\ tcp_listener' \in TcpServerStates
      /\ panic' \in PanicSites \cup {"no"}
      /\ UNCHANGED <<io_bufs, mem>>
  <2>1. CASE OnListen
    <3>1. intents' = <<SubmitMultishotAccept>> \/ intents' = << >>
      BY <2>1 DEF OnListen
    <3>2. <<SubmitMultishotAccept>> \in Seq(TcpIntents)
      BY <1>4
    <3>3. intents' \in Seq(TcpIntents)
      BY <1>4, <3>1, <3>2, Zenon
    <3> QED
      BY <2>1, <3>3 DEF OnListen, TcpServerStates, TypeOK
  <2>2. CASE OnAccepted(e.res, e.more)
    <3>1. SpawnConnHandler(e.res) \in TcpIntents
      BY <1>3, <2>2 DEF OnAccepted, AcceptResults, Slots, TcpIntents
    <3>2. \/ intents' = <<SpawnConnHandler(e.res)>> \o << >>
          \/ intents' = <<SpawnConnHandler(e.res)>> \o <<SubmitMultishotAccept>>
      BY <2>2 DEF OnAccepted
    <3>3. /\ <<SpawnConnHandler(e.res)>> \o << >> \in Seq(TcpIntents)
          /\ <<SpawnConnHandler(e.res)>> \o <<SubmitMultishotAccept>> \in Seq(TcpIntents)
      BY <1>4, <3>1
    <3>4. intents' \in Seq(TcpIntents)
      BY <3>2, <3>3, Zenon
    <3> QED
      BY <2>2, <3>4 DEF OnAccepted, TypeOK
  <2>3. CASE OnAcceptErr(e.res)
    BY <1>4, <2>3 DEF OnAcceptErr, TcpServerStates, TypeOK
  <2>4. CASE OnTcpUnexpected(e)
    BY <1>4, <2>4 DEF OnTcpUnexpected, TypeOK, PanicSites
  <2> QED
    BY <1>1, <2>1, <2>2, <2>3, <2>4, Zenon DEF TcpProcessEvent
<1>6. IntentsOf(TcpHandle) = TcpIntents /\ TcpHandle \in Handles
  BY DEF IntentsOf, Handles
<1> QED
  BY <1>1, <1>2, <1>5, <1>6, DispatchType DEF TypeOK

(* An event handed to a live connection machine keeps the state well typed. *)
LEMMA DispatchConnTypeOK == ASSUME TypeOK, DispatchConn PROVE TypeOK'
<1> DEFINE h == NextEvent.handle
<1>1. /\ Pop /\ h.pool = CONN_HANDLER /\ Finds(h)
      /\ ConnProcessEvent(h.index, NextEvent.reason)
      /\ tcp_listener' = tcp_listener
  BY DEF DispatchConn
<1>2. h \in ConnHandles /\ NextEvent.reason \in Events(Int) /\ intents = << >>
  BY <1>1, PopEventType, EventKinds
<1>3. h.index \in 0 .. NHandlers - 1
  BY <1>2 DEF ConnHandles
<1>4. conn_data[h.index] \in ConnHandlers
  BY <1>1, <1>3 DEF Finds, TypeOK
<1>5. ConnArmType
  BY <1>1, <1>2, <1>3, <1>4, ConnProcessEventType
<1>6. IntentsOf(h) = ConnIntents /\ h \in Handles
  BY <1>2, HandleKinds DEF IntentsOf, Handles
<1> HIDE DEF h
<1> QED
  BY <1>1, <1>5, <1>6, DispatchType DEF TypeOK, ConnArmType, h

(* An event whose handle no longer resolves keeps the state well typed. *)
LEMMA DispatchMissingTypeOK == ASSUME TypeOK, DispatchMissing PROVE TypeOK'
<1>1. /\ Pop /\ intents' = << >>
      /\ UNCHANGED <<io_bufs, mem, panic, conn_data, tcp_listener>>
  BY DEF DispatchMissing
<1>2. NextEvent.handle \in Handles
  BY <1>1, PopEventType, EventKinds
<1>3. intents' \in Seq(IntentsOf(NextEvent.handle))
  BY <1>1
<1> QED
  BY <1>1, <1>2, <1>3, DispatchType DEF TypeOK

-----------------------------------------------------------------------------
(* Completing intents. *)

(* An intent that is done leaves a well typed state, if what its arm       *)
(* pushed, enqueued, spawned or freed is.                                  *)
LEMMA IntentDoneType ==
  ASSUME TypeOK, intents # << >>, pc = "intents", IntentDone,
         io_bufs' = io_bufs,
         run_queues' \in [{0, 1} -> Seq(RunQueueEvents)],
         conn_alloc' \in GenAllocs(NHandlers),
         conn_data' \in [0 .. NHandlers - 1 -> ConnHandlers \cup {None}],
         sq' \in Seq(Sqes)
  PROVE  TypeOK'
<1>1. intents' \in Seq(IntentsOf(current)) /\ current' = current /\ pc' = pc
  BY IntentKinds, Zenon DEF IntentDone
<1>2. intents' \in Seq(IntentsOf(current)')
  BY <1>1 DEF IntentsOf
<1> QED
  BY <1>1, <1>2 DEF TypeOK, IntentDone, kernelVars

(* Pushing an event on either run queue keeps the queues well typed. *)
LEMMA RunQueuePushType ==
  ASSUME TypeOK, NEW q \in {0, 1}, NEW e \in RunQueueEvents, Push(q, e)
  PROVE  run_queues' \in [{0, 1} -> Seq(RunQueueEvents)]
<1>1. Append(run_queues[q], e) \in Seq(RunQueueEvents)
  BY PushType DEF TypeOK
<1> QED
  BY <1>1 DEF Push, TypeOK

(* An intent that needs a submission entry: it is queued, or the full ring panics. *)
LEMMA EnqueueForType ==
  ASSUME TypeOK, intents # << >>, pc = "intents", NEW sqe \in Sqes, EnqueueFor(sqe)
  PROVE  TypeOK'
<1>1. CASE CanEnqueue
  <2>1. /\ sq' = Append(sq, sqe) /\ IntentDone
        /\ UNCHANGED <<io_bufs, run_queues, conn_alloc, conn_data>>
    BY <1>1, Zenon DEF EnqueueFor, Enqueue
  <2>2. Append(sq, sqe) \in Seq(Sqes)
    BY PushType DEF TypeOK
  <2> QED
    BY <2>1, <2>2, IntentDoneType DEF TypeOK
<1>2. CASE ~CanEnqueue
  BY <1>2, CrashTypeOK DEF EnqueueFor, PanicSites
<1> QED
  BY <1>1, <1>2

(* The Retry intent queues a Spawn event for the next round, or a full run queue panics. *)
LEMMA CompleteRetryTypeOK == ASSUME TypeOK, CompleteRetry PROVE TypeOK'
<1>1. pc = "intents" /\ intents # << >> /\ Head(intents).kind = "Retry"
  BY DEF CompleteRetry, AtIntent
<1>2. CASE CanPush(next_run_queue_idx)
  <2>1. /\ Push(next_run_queue_idx, RunQueueEvent(Spawn, current)) /\ IntentDone
        /\ UNCHANGED <<io_bufs, conn_alloc, conn_data, sq>>
    BY <1>2, Zenon DEF CompleteRetry
  <2>2. RunQueueEvent(Spawn, current) \in RunQueueEvents
    <3>1. current \in ConnHandles
      BY <1>1, IntentKinds
    <3>2. Spawn \in Events(Int)
      BY DEF Spawn, Events
    <3> QED
      BY <3>1, <3>2 DEF RunQueueEvent, RunQueueEvents
  <2>3. next_run_queue_idx \in {0, 1}
    BY DEF next_run_queue_idx, TypeOK
  <2>4. run_queues' \in [{0, 1} -> Seq(RunQueueEvents)]
    BY <2>1, <2>2, <2>3, RunQueuePushType
  <2> QED
    BY <1>1, <2>1, <2>4, IntentDoneType DEF TypeOK
<1>3. CASE ~CanPush(next_run_queue_idx)
  BY <1>3, CrashTypeOK DEF CompleteRetry, PanicSites
<1> QED
  BY <1>2, <1>3

(* The Accept intent becomes a submission. *)
LEMMA CompleteAcceptTypeOK == ASSUME TypeOK, CompleteAccept PROVE TypeOK'
<1>1. /\ pc = "intents" /\ intents # << >>
      /\ Head(intents).kind = "SubmitMultishotAccept"
      /\ EnqueueFor(AcceptMulti(current))
  BY DEF CompleteAccept, AtIntent
<1>2. current = TcpHandle
  BY <1>1, IntentKinds
<1>3. AcceptMulti(current) \in Sqes
  BY <1>2 DEF Sqes
<1> QED
  BY <1>1, <1>3, EnqueueForType

(* The SpawnConnHandler intent allocates a machine and queues its first event, or panics. *)
LEMMA CompleteSpawnTypeOK == ASSUME TypeOK, CompleteSpawn PROVE TypeOK'
<1> DEFINE s  == Head(intents).fixed
           id == AllocId(conn_alloc)
<1>1. pc = "intents" /\ intents # << >> /\ Head(intents).kind = "SpawnConnHandler"
  BY DEF CompleteSpawn, AtIntent
<1>2. CASE Crash("handler pool full") \/ Crash("handler slot taken") \/ Crash("run queue full")
  BY <1>2, CrashTypeOK DEF PanicSites
<1>3. CASE /\ CanAlloc(conn_alloc)
           /\ conn_alloc' = AfterAlloc(conn_alloc)
           /\ conn_data' = [conn_data EXCEPT ![id.index] = NewConnHandler(s, files[s])]
           /\ Push(current_run_queue, RunQueueEvent(Spawn, ObjectHandle(CONN_HANDLER, id)))
           /\ IntentDone
           /\ UNCHANGED <<io_bufs, sq>>
  <2>1. /\ id \in [index : 0 .. NHandlers - 1, generation : 0 .. GenSpan - 1]
        /\ conn_alloc' \in GenAllocs(NHandlers)
    BY <1>3, AllocType DEF TypeOK
  <2>2. s \in Slots
    <3>1. Head(intents) \in TcpIntents
      BY <1>1, IntentKinds
    <3> QED
      BY <1>1, <3>1 DEF TcpIntents, SubmitMultishotAccept, SpawnConnHandler, Intent
  <2>3. NewConnHandler(s, files[s]) \in ConnHandlers
    BY <2>2 DEF NewConnHandler, ConnHandlers, Machines, TypeOK
  <2>4. conn_data' \in [0 .. NHandlers - 1 -> ConnHandlers \cup {None}]
    BY <1>3, <2>1, <2>3 DEF TypeOK
  <2>5. ObjectHandle(CONN_HANDLER, id) \in ConnHandles
    BY <2>1 DEF ObjectHandle, ConnHandles
  <2>6. RunQueueEvent(Spawn, ObjectHandle(CONN_HANDLER, id)) \in RunQueueEvents
    BY <2>5 DEF RunQueueEvent, RunQueueEvents, Spawn, Events
  <2>7. run_queues' \in [{0, 1} -> Seq(RunQueueEvents)]
    BY <1>3, <2>6, RunQueuePushType DEF TypeOK
  <2> QED
    BY <1>1, <1>3, <2>1, <2>4, <2>7, IntentDoneType DEF TypeOK
<1> QED
  BY <1>2, <1>3, Zenon DEF CompleteSpawn

(* The Recv intent becomes a submission on the buffer of its machine. *)
LEMMA CompleteRecvTypeOK == ASSUME TypeOK, CompleteRecv PROVE TypeOK'
<1> DEFINE i == Head(intents)
<1>1. pc = "intents" /\ intents # << >> /\ i.kind = "SubmitRecv"
  BY DEF CompleteRecv, AtIntent
<1>2. CASE Crash("offset assertion") \/ Crash("stale buffer")
  BY <1>2, CrashTypeOK DEF PanicSites
<1>3. CASE /\ i.off < BufSize /\ IsValid(io_bufs, i.buf)
           /\ EnqueueFor(ReadFixed(current, i.fixed, BufPtr(i.buf.index) + i.off,
                                   BufSize - i.off, i.buf.index))
  <2>1. current \in ConnHandles /\ i \in ConnIntents
    BY <1>1, IntentKinds
  <2>2. i \in [kind : {"SubmitRecv"}, fixed : Slots, buf : GenId, off : Nat]
    BY <1>1, <2>1 DEF ConnIntents, Retry, Terminate, CloseFixed, Intent
  <2>3. i.off \in 0 .. BufSize - 1 /\ BufSize - i.off \in 1 .. BufSize
    BY <1>3, <2>2
  <2>4. i.buf.index \in 0 .. NBufs - 1
    BY <1>3 DEF IsValid, TypeOK, GenAllocs
  <2>5. BufPtr(i.buf.index) + i.off \in Addresses
    BY <2>3, <2>4, BufferAddress
  <2>6. ReadFixed(current, i.fixed, BufPtr(i.buf.index) + i.off,
                  BufSize - i.off, i.buf.index) \in Sqes
    BY <2>1, <2>2, <2>3, <2>4, <2>5 DEF ReadFixed, Sqes
  <2> QED
    BY <1>1, <1>3, <2>6, EnqueueForType
<1>4. i.off \in Nat
  BY <1>1, IntentKinds DEF ConnIntents, Retry, Terminate, CloseFixed, Intent
<1>5. i.off >= BufSize \/ i.off < BufSize
  BY <1>4
<1> QED
  BY <1>2, <1>3, <1>5, Zenon DEF CompleteRecv

(* The Close intent becomes a submission. *)
LEMMA CompleteCloseTypeOK == ASSUME TypeOK, CompleteClose PROVE TypeOK'
<1>1. /\ pc = "intents" /\ intents # << >> /\ Head(intents).kind = "CloseFixed"
      /\ EnqueueFor(CloseSqe(current, Head(intents).fixed))
  BY DEF CompleteClose, AtIntent
<1>2. current \in ConnHandles /\ Head(intents) \in ConnIntents
  BY <1>1, IntentKinds
<1>3. Head(intents).fixed \in Slots
  BY <1>1, <1>2 DEF ConnIntents, Retry, Terminate, CloseFixed, Intent
<1>4. CloseSqe(current, Head(intents).fixed) \in Sqes
  BY <1>2, <1>3 DEF CloseSqe, Sqes
<1> QED
  BY <1>1, <1>4, EnqueueForType

(* The Terminate intent frees the machine. *)
LEMMA CompleteTerminateTypeOK == ASSUME TypeOK, CompleteTerminate PROVE TypeOK'
<1>1. pc = "intents" /\ intents # << >>
  BY DEF CompleteTerminate, AtIntent
<1>2. CASE FreePanics(conn_alloc, current)
  BY <1>2, CrashTypeOK DEF CompleteTerminate, PanicSites
<1>3. CASE ~FreePanics(conn_alloc, current)
  <2>1. IntentDone /\ UNCHANGED <<io_bufs, run_queues, sq>>
    BY <1>3, Zenon DEF CompleteTerminate
  <2>2. conn_alloc' \in GenAllocs(NHandlers)
    BY <1>3, FreeType DEF CompleteTerminate, TypeOK
  <2>3. conn_data' \in [0 .. NHandlers - 1 -> ConnHandlers \cup {None}]
    BY <1>3 DEF CompleteTerminate, TypeOK
  <2> QED
    BY <1>1, <2>1, <2>2, <2>3, IntentDoneType DEF TypeOK
<1> QED
  BY <1>2, <1>3

-----------------------------------------------------------------------------
(* The ring and the kernel. *)

(* A step that leaves the loop, the machines and the pools alone is well   *)
(* typed when the ring and the kernel are, and what it wrote to memory is. *)
LEMMA KernelStepType ==
  ASSUME TypeOK, UNCHANGED <<intents, io_bufs, panic, loopVars, machineVars>>,
         mem' \in [Addresses -> Bytes],
         sq' \in Seq(Sqes), cq' \in Seq(Cqes), accepts' \in Nat, reads' \in Seq(Reads),
         files' \in [Slots -> Conns \cup {None}], waiting' \subseteq Conns,
         sent' \in [Conns -> 0 .. MaxStream], fin' \subseteq Conns,
         faults' \in 0 .. MaxFaults
  PROVE  TypeOK'
<1>1. intents' \in Seq(IntentsOf(current)')
  BY DEF TypeOK, loopVars, IntentsOf
<1> QED
  BY <1>1 DEF TypeOK, loopVars, machineVars

(* A completion posted by the kernel keeps the completion queue well typed. *)
LEMMA PostType ==
  ASSUME TypeOK, NEW cqe \in Cqes, Post(cqe)
  PROVE  cq' \in Seq(Cqes)
BY PushType DEF Post, TypeOK

(* Entering the kernel, which issues what was submitted, keeps the types. *)
LEMMA EnterIssuesTypeOK == ASSUME TypeOK, EnterIssues PROVE TypeOK'
<1> DEFINE e == Head(sq)
<1>1. /\ Issue /\ UNCHANGED <<contextVars, loopVars, machineVars>>
      /\ sq # << >> /\ sq' = Tail(sq)
      /\ UNCHANGED <<waiting, sent, fin, faults>>
  BY DEF EnterIssues, Issue
<1>2. e \in Sqes /\ sq' \in Seq(Sqes)
  BY <1>1, PopType DEF TypeOK
<1>3. /\ cq' \in Seq(Cqes) /\ accepts' \in Nat /\ reads' \in Seq(Reads)
      /\ files' \in [Slots -> Conns \cup {None}]
  <2>1. CASE IssueAccept
    BY <2>1 DEF IssueAccept, TypeOK
  <2>2. CASE IssueRecv
    <3> DEFINE r == [user |-> e.user, conn |-> files[e.fixed], addr |-> e.addr, len |-> e.len]
    <3>1. e \in [op : {"recv"}, user : ConnHandles, fixed : Slots, addr : Addresses,
                 len : 1 .. BufSize, buf : 0 .. NBufs - 1]
      BY <1>2, <2>2 DEF IssueRecv, Sqes, AcceptMulti
    <3>2. UNCHANGED <<accepts, files>>
      BY <2>2 DEF IssueRecv
    <3>3. \/ files[e.fixed] # None /\ reads' = Append(reads, r) /\ UNCHANGED cq
          \/ /\ UNCHANGED reads
             /\ Post(Cqe(e.user, -EFAULT, FALSE)) \/ Post(Cqe(e.user, -EBADF, FALSE))
      BY <2>2, Zenon DEF IssueRecv
    <3>4. CASE files[e.fixed] # None /\ reads' = Append(reads, r) /\ UNCHANGED cq
      <4>1. r \in Reads
        BY <3>1, <3>4 DEF Reads, TypeOK
      <4> HIDE DEF r
      <4>2. Append(reads, r) \in Seq(Reads)
        BY <4>1, PushType DEF TypeOK
      <4> QED
        BY <3>2, <3>4, <4>2 DEF TypeOK
    <3>5. CASE /\ UNCHANGED reads
               /\ Post(Cqe(e.user, -EFAULT, FALSE)) \/ Post(Cqe(e.user, -EBADF, FALSE))
      <4>1. Cqe(e.user, -EFAULT, FALSE) \in Cqes /\ Cqe(e.user, -EBADF, FALSE) \in Cqes
        BY <3>1 DEF Cqe, Cqes, EBADF, EFAULT
      <4>2. cq' \in Seq(Cqes)
        BY <3>5, <4>1, PostType
      <4> QED
        BY <3>2, <3>5, <4>2 DEF TypeOK
    <3> QED
      BY <3>3, <3>4, <3>5
  <2>3. CASE IssueClose
    <3>1. e \in [op : {"close"}, user : ConnHandles, fixed : Slots]
      BY <1>2, <2>3 DEF IssueClose, Sqes, AcceptMulti
    <3>2. PICK res \in {0, -EBADF} : Post(Cqe(e.user, res, FALSE))
      BY <2>3 DEF IssueClose
    <3>3. files' = files \/ files' = [files EXCEPT ![e.fixed] = None]
      BY <2>3 DEF IssueClose
    <3>4. Cqe(e.user, res, FALSE) \in Cqes
      BY <3>1 DEF Cqe, Cqes, EBADF
    <3>5. cq' \in Seq(Cqes)
      BY <3>2, <3>4, PostType
    <3>6. files' \in [Slots -> Conns \cup {None}]
      BY <3>3 DEF TypeOK
    <3> QED
      BY <2>3, <3>5, <3>6 DEF IssueClose, TypeOK
  <2> QED
    BY <1>1, <2>1, <2>2, <2>3, Zenon DEF Issue
<1>4. UNCHANGED <<intents, io_bufs, panic, loopVars, machineVars>> /\ mem' = mem
  BY <1>1 DEF contextVars
<1> QED
  BY <1>1, <1>2, <1>3, <1>4, KernelStepType DEF TypeOK

(* Reaping completions into run-queue events keeps the types. *)
LEMMA ReapTypeOK == ASSUME TypeOK, Reap PROVE TypeOK'
<1> DEFINE e == RunQueueEvent(IoCompleted(Head(cq).res, Head(cq).more), Head(cq).user)
<1>1. pc = "reap" /\ cq # << >>
  BY DEF Reap, At
<1>2. Head(cq) \in Cqes /\ Tail(cq) \in Seq(Cqes)
  BY <1>1, PopType DEF TypeOK
<1>3. CASE CanPush(next_run_queue_idx)
  <2>1. /\ Push(next_run_queue_idx, e) /\ cq' = Tail(cq)
        /\ UNCHANGED <<contextVars, current_run_queue, current, pc, machineVars,
                       sq, kernelVars>>
    BY <1>3, Zenon DEF Reap
  <2>2. e \in RunQueueEvents
    BY <1>2 DEF Cqes, RunQueueEvent, RunQueueEvents, IoCompleted, Events
  <2>3. next_run_queue_idx \in {0, 1}
    BY DEF next_run_queue_idx, TypeOK
  <2> HIDE DEF e
  <2>4. run_queues' \in [{0, 1} -> Seq(RunQueueEvents)]
    BY <2>1, <2>2, <2>3, RunQueuePushType
  <2>5. intents' \in Seq(IntentsOf(current)')
    BY <2>1 DEF contextVars, TypeOK, IntentsOf
  <2> QED
    BY <1>2, <2>1, <2>4, <2>5 DEF TypeOK, contextVars, machineVars, kernelVars
<1>4. CASE ~CanPush(next_run_queue_idx)
  BY <1>4, CrashTypeOK DEF Reap, PanicSites
<1> QED
  BY <1>3, <1>4

(* Connections that arrive: what they do to the ring and the file table.   *)
LEMMA KernelAcceptsTypeOK == ASSUME TypeOK, KernelAccepts PROVE TypeOK'
<1>1. PICK c \in Conns : AcceptCompletes(c)
  BY DEF KernelAccepts
<1>2. PICK s \in Slots, more \in BOOLEAN :
        /\ files' = [files EXCEPT ![s] = c]
        /\ Post(Cqe(TcpHandle, s, more))
        /\ accepts' = IF more THEN accepts ELSE accepts - 1
  BY <1>1 DEF AcceptCompletes
<1>3. Cqe(TcpHandle, s, more) \in Cqes
  BY DEF Cqe, Cqes, AcceptResults, Slots
<1>4. cq' \in Seq(Cqes)
  BY <1>2, <1>3, PostType
<1>5. files' \in [Slots -> Conns \cup {None}] /\ accepts' \in Nat
  BY <1>1, <1>2 DEF AcceptCompletes, TypeOK
<1>6. waiting' \subseteq Conns /\ UNCHANGED <<sq, reads, sent, fin, faults>>
  BY <1>1 DEF AcceptCompletes, TypeOK
<1>7. UNCHANGED <<intents, io_bufs, panic, loopVars, machineVars>> /\ mem' = mem
  BY DEF KernelAccepts, ProgramUnchanged
<1> QED
  BY <1>4, <1>5, <1>6, <1>7, KernelStepType DEF TypeOK

(* A client accepted with a full file table is dropped and the accept ends. *)
LEMMA KernelRefusesTypeOK == ASSUME TypeOK, KernelRefuses PROVE TypeOK'
<1>1. PICK c \in Conns : AcceptOverflows(c)
  BY DEF KernelRefuses
<1>2. Cqe(TcpHandle, -ENFILE, FALSE) \in Cqes
  BY DEF Cqe, Cqes, AcceptResults, ENFILE
<1>3. cq' \in Seq(Cqes)
  BY <1>1, <1>2, PostType DEF AcceptOverflows
<1>4. /\ waiting' \subseteq Conns /\ accepts' \in Nat
      /\ UNCHANGED <<sq, reads, files, sent, fin, faults>>
  BY <1>1 DEF AcceptOverflows, TypeOK
<1>5. UNCHANGED <<intents, io_bufs, panic, loopVars, machineVars>> /\ mem' = mem
  BY DEF KernelRefuses, ProgramUnchanged
<1> QED
  BY <1>3, <1>4, <1>5, KernelStepType DEF TypeOK

(* A pending read that completes, with whatever result. *)
LEMMA CompletesType ==
  ASSUME TypeOK, NEW k \in DOMAIN reads, NEW res \in Int, Completes(k, res)
  PROVE  /\ reads[k] \in Reads
         /\ reads' \in Seq(Reads)
         /\ cq' \in Seq(Cqes)
         /\ UNCHANGED <<sq, accepts, files, waiting>>
<1>1. reads \in Seq(Reads)
  BY DEF TypeOK
<1>2. reads[k] \in Reads
  BY <1>1
<1>3. reads' \in Seq(Reads)
  BY <1>1, RemoveType DEF Completes
<1>4. Cqe(reads[k].user, res, FALSE) \in Cqes
  BY <1>2 DEF Cqe, Cqes, Reads
<1>5. cq' \in Seq(Cqes)
  BY <1>4, PostType DEF Completes
<1> QED
  BY <1>2, <1>3, <1>5 DEF Completes

(* A receive that reads data fills the buffer and completes. *)
LEMMA KernelReadsTypeOK == ASSUME TypeOK, KernelReads PROVE TypeOK'
<1>1. PICK k \in DOMAIN reads, n \in 1 .. BufSize : ReadCompletes(k, n)
  BY DEF KernelReads
<1>2. Completes(k, n)
  BY <1>1 DEF ReadCompletes
<1>3. /\ reads[k] \in Reads /\ reads' \in Seq(Reads) /\ cq' \in Seq(Cqes)
      /\ UNCHANGED <<sq, accepts, files, waiting>>
  BY <1>2, CompletesType
<1> DEFINE c == reads[k].conn
           addr == reads[k].addr
<1>4. c \in Conns /\ addr \in Int
  BY <1>3 DEF Reads, Addresses
<1>5. sent' \in [Conns -> 0 .. MaxStream]
  <2>1. sent' = [sent EXCEPT ![c] = sent[c] + n] /\ n <= MaxStream - sent[c]
    BY <1>1 DEF ReadCompletes
  <2>2. sent[c] \in 0 .. MaxStream
    BY <1>4 DEF TypeOK
  <2> HIDE DEF c
  <2>3. sent[c] + n \in 0 .. MaxStream
    BY <2>1, <2>2
  <2> QED
    BY <2>1, <2>3 DEF TypeOK
<1>6. mem' \in [Addresses -> Bytes]
  <2>1. mem' = Filled(addr, c, n)
    BY <1>1 DEF ReadCompletes
  <2>2. sent[c] \in Nat
    BY <1>4 DEF TypeOK
  <2> HIDE DEF addr, c
  <2>3. \A a \in Addresses : a \in addr .. addr + n - 1 => sent[c] + (a - addr) \in Nat
    BY <1>4, <2>2 DEF Addresses
  <2>4. \A a \in Addresses : a \in addr .. addr + n - 1 => <<c, sent[c] + (a - addr)>> \in Bytes
    BY <1>4, <2>3, Zenon DEF Bytes
  <2>5. \A a \in Addresses : mem[a] \in Bytes
    BY Zenon DEF TypeOK
  <2> QED
    BY <2>1, <2>4, <2>5, Zenon DEF Filled
<1>7. UNCHANGED <<fin, faults>> /\ UNCHANGED <<intents, io_bufs, panic, loopVars, machineVars>>
  BY <1>1 DEF ReadCompletes, KernelReads, ProgramUnchanged
<1> QED
  BY <1>3, <1>5, <1>6, <1>7, KernelStepType DEF TypeOK

(* A receive that finds the end of the stream completes with zero. *)
LEMMA KernelEndsTypeOK == ASSUME TypeOK, NEW c \in Conns, KernelEnds(c) PROVE TypeOK'
<1>1. PICK k \in DOMAIN reads : ReadEnds(k)
  BY DEF KernelEnds
<1>2. Completes(k, 0) /\ fin' = fin \cup {reads[k].conn} /\ UNCHANGED <<mem, sent, faults>>
  BY <1>1 DEF ReadEnds
<1>3. /\ reads[k] \in Reads /\ reads' \in Seq(Reads) /\ cq' \in Seq(Cqes)
      /\ UNCHANGED <<sq, accepts, files, waiting>>
  BY <1>2, CompletesType
<1>4. fin' \subseteq Conns
  BY <1>2, <1>3 DEF Reads, TypeOK
<1>5. UNCHANGED <<intents, io_bufs, panic, loopVars, machineVars>>
  BY DEF KernelEnds, ProgramUnchanged
<1> QED
  BY <1>2, <1>3, <1>4, <1>5, KernelStepType DEF TypeOK

(* A receive that finds a reset connection completes with an error. *)
LEMMA KernelFailsTypeOK == ASSUME TypeOK, KernelFails PROVE TypeOK'
<1>1. PICK k \in DOMAIN reads, errno \in RecvErrnos : ReadFails(k, errno)
  BY DEF KernelFails
<1>2. /\ Completes(k, -errno) /\ faults < MaxFaults /\ faults' = faults + 1
      /\ UNCHANGED <<mem, sent, fin>>
  BY <1>1 DEF ReadFails
<1>3. /\ reads' \in Seq(Reads) /\ cq' \in Seq(Cqes)
      /\ UNCHANGED <<sq, accepts, files, waiting>>
  <2>1. -errno \in Int
    BY DEF Errnos
  <2> QED
    BY <1>2, <2>1, CompletesType
<1>4. faults' \in 0 .. MaxFaults
  BY <1>2 DEF TypeOK
<1>5. UNCHANGED <<intents, io_bufs, panic, loopVars, machineVars>>
  BY DEF KernelFails, ProgramUnchanged
<1> QED
  BY <1>2, <1>3, <1>4, <1>5, KernelStepType DEF TypeOK

-----------------------------------------------------------------------------
(* Every step of the executor and of the kernel keeps the state well typed. *)
LEMMA NextTypeOK == TypeOK /\ [Next]_vars => TypeOK'
<1> SUFFICES ASSUME TypeOK, [Next]_vars PROVE TypeOK'
  OBVIOUS
<1>1. CASE UNCHANGED vars
  <2>1. intents' \in Seq(IntentsOf(current)')
    BY <1>1 DEF vars, contextVars, loopVars, TypeOK, IntentsOf
  <2> QED
    BY <1>1, <2>1 DEF vars, contextVars, loopVars, machineVars, ringVars, kernelVars, TypeOK
<1>2. CASE Thread
  <2>1. CASE EnterError
    BY <2>1, CrashTypeOK DEF EnterError, PanicSites
  <2> QED
    BY <1>2, <2>1, DispatchTcpTypeOK, DispatchConnTypeOK, DispatchMissingTypeOK,
       MovesTypeOK, CompleteRetryTypeOK, CompleteAcceptTypeOK, CompleteSpawnTypeOK,
       CompleteRecvTypeOK, CompleteCloseTypeOK, CompleteTerminateTypeOK,
       EnterIssuesTypeOK, ReapTypeOK, Zenon DEF Thread
<1>3. CASE KernelAccepts
  BY <1>3, KernelAcceptsTypeOK
<1>4. CASE KernelRefuses
  BY <1>4, KernelRefusesTypeOK
<1>5. CASE KernelReads
  BY <1>5, KernelReadsTypeOK
<1>6. CASE KernelFails
  BY <1>6, KernelFailsTypeOK
<1>7. CASE \E c \in Conns : KernelEnds(c)
  BY <1>7, KernelEndsTypeOK
<1> QED
  BY <1>1, <1>2, <1>3, <1>4, <1>5, <1>6, <1>7, Zenon DEF Next

(* The executor's state is well typed at all times: the intents that are   *)
(* left are of the kind the current machine asks for, every handle in a    *)
(* queue is of the pool its result belongs to, no read starts outside the  *)
(* buffers (executor/mod.rs:157), and a machine past Init always has a     *)
(* buffer handle for the unwrap_unchecked at conn_handler.rs:150.          *)
THEOREM ExecTypeOK == Spec => []TypeOK
BY InitTypeOK, NextTypeOK, PTL DEF Spec

-----------------------------------------------------------------------------
(* Buffers and events. *)

(* A generation that is not the last one has a successor that is newer. *)
LEMMA NewerGeneration ==
  ASSUME NEW n \in 0 .. GenSpan - 1, n # GenSpan - 1
  PROVE  n + 1 < GenSpan /\ NextGeneration(n) = n + 1
BY DEF NextGeneration

(* Generations are numbers. *)
LEMMA GenerationType ==
  ASSUME TypeOK, NEW i \in 0 .. NHandlers - 1
  PROVE  conn_alloc.generation[i] \in Int
<1>1. conn_alloc \in GenAllocs(NHandlers)
  BY Zenon DEF TypeOK
<1>2. conn_alloc.generation \in [0 .. NHandlers - 1 -> 0 .. GenSpan - 1]
  BY <1>1 DEF GenAllocs
<1> QED
  BY <1>2

-----------------------------------------------------------------------------
(* Buffers. *)

(* The machines that have given their buffer back and keep its handle. *)
Released == {i \in 0 .. NHandlers - 1 : Live(i) /\ conn_data[i].state \in {"Closing", "Closed"}}

(* Each receiving machine holds a buffer of its own, and a buffer is free  *)
(* exactly when no machine holds it.                                       *)
BuffersExact ==
  /\ NoRepeats(io_bufs.free_list)
  /\ \A i \in Receiving : IsValid(io_bufs, conn_data[i].buf_handle)
  /\ \A i, j \in Receiving :
       conn_data[i].buf_handle.index = conn_data[j].buf_handle.index => i = j
  /\ \A b \in 0 .. NBufs - 1 :
       Occurs(io_bufs.free_list, b) <=> \A i \in Receiving : conn_data[i].buf_handle.index # b

(* What a machine gave back has a newer generation: freeing it again, as a *)
(* retried close does, has no effect.                                      *)
HandlesOutdated ==
  \A i \in Released :
    LET id == conn_data[i].buf_handle
    IN  id.index \in 0 .. NBufs - 1 /\ id.generation < io_bufs.generation[id.index]

(* A machine is despawned only when it has closed, by its last intent. *)
ClosedBeforeTerminate ==
  \A k \in DOMAIN intents :
    intents[k] = Terminate =>
      k = Len(intents) /\ Live(current.index) /\ conn_data[current.index].state = "Closed"

BuffersInv == TypeOK /\ BuffersExact /\ HandlesOutdated /\ ClosedBeforeTerminate
-----------------------------------------------------------------------------
(* How the machines' moves affect the buffers. *)

BuffersKept == BuffersExact' /\ HandlesOutdated'

(* A step that changes neither the pool nor who holds which buffer. *)
LEMMA SameHolders ==
  ASSUME BuffersExact, HandlesOutdated, io_bufs' = io_bufs,
         Receiving' = Receiving, Released' \subseteq Released,
         \A i \in Receiving \cup Released' : conn_data'[i].buf_handle = conn_data[i].buf_handle
  PROVE  BuffersKept
<1>1. NoRepeats(io_bufs'.free_list)
  BY DEF BuffersExact
<1>2. \A i \in Receiving' : IsValid(io_bufs', conn_data'[i].buf_handle)
  BY DEF BuffersExact
<1>3. \A i, j \in Receiving' :
        conn_data'[i].buf_handle.index = conn_data'[j].buf_handle.index => i = j
  BY DEF BuffersExact
<1>4. \A b \in 0 .. NBufs - 1 :
        Occurs(io_bufs'.free_list, b)
          <=> \A i \in Receiving' : conn_data'[i].buf_handle.index # b
  BY DEF BuffersExact
<1>5. HandlesOutdated'
  BY DEF HandlesOutdated
<1> QED
  BY <1>1, <1>2, <1>3, <1>4, <1>5 DEF BuffersExact, BuffersKept

(* The machine at i moves on: who receives and who has given back follows  *)
(* from the new state of that machine alone.                               *)
LEMMA MachineMoves ==
  ASSUME TypeOK, NEW i \in 0 .. NHandlers - 1, NEW g \in ConnHandlers,
         conn_data' = [conn_data EXCEPT ![i] = g]
  PROVE  /\ conn_data'[i] = g
         /\ \A j \in (0 .. NHandlers - 1) \ {i} : conn_data'[j] = conn_data[j]
         /\ Receiving' = IF g.state = "Recv" THEN Receiving \cup {i} ELSE Receiving \ {i}
         /\ Released' = IF g.state \in {"Closing", "Closed"}
                        THEN Released \cup {i} ELSE Released \ {i}
<1>1. /\ conn_data'[i] = g
      /\ \A j \in (0 .. NHandlers - 1) \ {i} : conn_data'[j] = conn_data[j]
  BY DEF TypeOK
<1>2. g # None
  BY MachineAssumption
<1> QED
  BY <1>1, <1>2 DEF Receiving, Released, Live

(* A move between two states of which neither holds a buffer, or that      *)
(* goes on with the same one.                                              *)
LEMMA MachineKeeps ==
  ASSUME TypeOK, BuffersExact, HandlesOutdated, io_bufs' = io_bufs,
         NEW i \in 0 .. NHandlers - 1, NEW g \in ConnHandlers,
         conn_data' = [conn_data EXCEPT ![i] = g],
         \/ i \in Receiving /\ g.state = "Recv"
         \/ i \in Released /\ g.state \in {"Closing", "Closed"},
         g.buf_handle = conn_data[i].buf_handle
  PROVE  BuffersKept
<1>1. Receiving' = Receiving /\ Released' \subseteq Released
  <2>1. CASE i \in Receiving /\ g.state = "Recv"
    <3>1. Receiving' = Receiving \cup {i} /\ Released' = Released \ {i}
      BY <2>1, MachineMoves
    <3> QED
      BY <2>1, <3>1
  <2>2. CASE i \in Released /\ g.state \in {"Closing", "Closed"}
    <3>1. Receiving' = Receiving \ {i} /\ Released' = Released \cup {i}
      BY <2>2, MachineMoves
    <3>2. i \notin Receiving
      BY <2>2 DEF Receiving, Released
    <3> QED
      BY <2>2, <3>1, <3>2
  <2> QED
    BY <2>1, <2>2
<1>2. \A j \in Receiving \cup Released' : conn_data'[j].buf_handle = conn_data[j].buf_handle
  BY MachineMoves DEF Receiving, Released
<1> QED
  BY <1>1, <1>2, SameHolders

(* on_init: the first free buffer becomes the machine's, which held none. *)
LEMMA MachineTakes ==
  ASSUME TypeOK, BuffersExact, HandlesOutdated, CanAlloc(io_bufs),
         NEW i \in 0 .. NHandlers - 1, i \notin Receiving,
         NEW g \in ConnHandlers, conn_data' = [conn_data EXCEPT ![i] = g],
         g.state = "Recv", g.buf_handle = AllocId(io_bufs),
         io_bufs' = AfterAlloc(io_bufs)
  PROVE  BuffersKept
<1> DEFINE list == io_bufs.free_list
           b == Head(list)
<1>1. /\ io_bufs \in GenAllocs(NBufs)
      /\ list \in Seq(0 .. NBufs - 1) /\ list # << >>
      /\ io_bufs.generation \in [0 .. NBufs - 1 -> 0 .. GenSpan - 1]
  BY DEF TypeOK, GenAllocs, CanAlloc
<1>2. io_bufs'.free_list = Tail(list) /\ io_bufs'.generation = io_bufs.generation
  BY <1>1 DEF AfterAlloc, GenAllocs
<1>3. /\ NoRepeats(Tail(list)) /\ Occurs(list, b)
      /\ \A e : Occurs(Tail(list), e) <=> Occurs(list, e) /\ e # b
  BY <1>1, PopExact DEF BuffersExact
<1>4. b \in 0 .. NBufs - 1
  BY <1>1, PopType
<1>5. g.buf_handle.index = b /\ g.buf_handle.generation = io_bufs.generation[b]
  BY DEF AllocId
<1>6. /\ Receiving' = Receiving \cup {i} /\ Released' \subseteq Released
      /\ conn_data'[i] = g /\ i \notin Released'
      /\ \A j \in (0 .. NHandlers - 1) \ {i} : conn_data'[j] = conn_data[j]
  BY MachineMoves
<1>7. \A j \in Receiving \cup Released' : j # i /\ conn_data'[j] = conn_data[j]
  BY <1>6 DEF Receiving, Released
<1>8. \A j \in Receiving : conn_data[j].buf_handle.index # b
  BY <1>3, <1>4 DEF BuffersExact
<1> HIDE DEF list, b
<1>9. \A j \in Receiving' : IsValid(io_bufs', conn_data'[j].buf_handle)
  <2>1. IsValid(io_bufs', g.buf_handle)
    BY <1>1, <1>2, <1>4, <1>5 DEF IsValid
  <2>2. \A j \in Receiving : IsValid(io_bufs', conn_data'[j].buf_handle)
    BY <1>2, <1>7 DEF IsValid, BuffersExact
  <2> QED
    BY <1>6, <2>1, <2>2
<1>10. \A j, k \in Receiving' :
         conn_data'[j].buf_handle.index = conn_data'[k].buf_handle.index => j = k
  BY <1>5, <1>6, <1>7, <1>8 DEF BuffersExact
<1>11. \A c \in 0 .. NBufs - 1 :
         Occurs(io_bufs'.free_list, c)
           <=> \A j \in Receiving' : conn_data'[j].buf_handle.index # c
  <2>1. SUFFICES ASSUME NEW c \in 0 .. NBufs - 1
                 PROVE  Occurs(Tail(list), c)
                          <=> \A j \in Receiving' : conn_data'[j].buf_handle.index # c
    BY <1>2
  <2>2. Occurs(Tail(list), c) <=> Occurs(list, c) /\ c # b
    BY <1>3
  <2>3. Occurs(list, c) <=> \A j \in Receiving : conn_data[j].buf_handle.index # c
    BY DEF BuffersExact, list
  <2>4. (\A j \in Receiving' : conn_data'[j].buf_handle.index # c)
          <=> (\A j \in Receiving : conn_data[j].buf_handle.index # c) /\ b # c
    BY <1>5, <1>6, <1>7
  <2> QED
    BY <2>2, <2>3, <2>4
<1>12. HandlesOutdated'
  BY <1>2, <1>6, <1>7 DEF HandlesOutdated
<1> QED
  BY <1>2, <1>3, <1>9, <1>10, <1>11, <1>12 DEF BuffersExact, BuffersKept

(* close() of a receiving machine: its buffer is free again, with a newer  *)
(* generation, because the increment that would wrap panics.               *)
LEMMA MachineGivesBack ==
  ASSUME TypeOK, BuffersExact, HandlesOutdated, OverflowChecks,
         NEW i \in Receiving, ~FreePanics(io_bufs, conn_data[i].buf_handle),
         NEW g \in ConnHandlers, conn_data' = [conn_data EXCEPT ![i] = g],
         g.state = "Closing", g.buf_handle = conn_data[i].buf_handle,
         io_bufs' = AfterFree(io_bufs, conn_data[i].buf_handle)
  PROVE  BuffersKept
<1> DEFINE list == io_bufs.free_list
           gens == io_bufs.generation
           id   == conn_data[i].buf_handle
           b    == id.index
<1>1. /\ list \in Seq(0 .. NBufs - 1)
      /\ gens \in [0 .. NBufs - 1 -> 0 .. GenSpan - 1]
  BY DEF TypeOK, GenAllocs
<1>2. /\ i \in 0 .. NHandlers - 1
      /\ b \in 0 .. NBufs - 1 /\ id.generation = gens[b]
      /\ IsValid(io_bufs, id)
  BY <1>1 DEF BuffersExact, IsValid, Receiving
<1>3. gens[b] + 1 < GenSpan /\ NextGeneration(gens[b]) = gens[b] + 1
  <2>1. gens[b] \in 0 .. GenSpan - 1
    BY <1>1, <1>2
  <2>2. gens[b] # GenSpan - 1
    BY <1>2, Zenon DEF FreePanics, Overflows
  <2> HIDE DEF gens, b
  <2> QED
    BY <2>1, <2>2, NewerGeneration
<1>4. /\ io_bufs'.free_list = Append(list, b)
      /\ io_bufs'.generation = [gens EXCEPT ![b] = gens[b] + 1]
  <2>1. io_bufs' = [generation |-> [gens EXCEPT ![b] = NextGeneration(gens[b])],
                    free_list  |-> Append(list, b)]
    BY <1>2, Zenon DEF AfterFree
  <2> QED
    BY <1>3, <2>1
<1>5. ~Occurs(list, b)
  BY <1>2 DEF BuffersExact
<1>6. /\ NoRepeats(Append(list, b))
      /\ \A e : Occurs(Append(list, b), e) <=> Occurs(list, e) \/ e = b
  <2>1. NoRepeats(list)
    BY DEF BuffersExact
  <2> HIDE DEF list, b
  <2> QED
    BY <1>1, <1>2, <1>5, <2>1, PushExact
<1>7. /\ Receiving' = Receiving \ {i} /\ Released' = Released \cup {i}
      /\ conn_data'[i] = g
      /\ \A j \in (0 .. NHandlers - 1) \ {i} : conn_data'[j] = conn_data[j]
  BY <1>2, MachineMoves
<1>8. \A j \in Receiving' : j \in Receiving /\ j # i /\ conn_data'[j] = conn_data[j]
  BY <1>7 DEF Receiving
<1>9. \A j \in Receiving : j # i => conn_data[j].buf_handle.index # b
  BY DEF BuffersExact
<1>10. /\ io_bufs'.generation[b] = gens[b] + 1
       /\ \A c \in (0 .. NBufs - 1) \ {b} : io_bufs'.generation[c] = gens[c]
       /\ DOMAIN io_bufs'.generation = 0 .. NBufs - 1
  BY <1>1, <1>2, <1>4
<1> HIDE DEF list, gens, b, id
<1>11. \A j \in Receiving' : IsValid(io_bufs', conn_data'[j].buf_handle)
  <2>1. SUFFICES ASSUME NEW j \in Receiving'
                 PROVE  IsValid(io_bufs', conn_data'[j].buf_handle)
    OBVIOUS
  <2>2. IsValid(io_bufs, conn_data[j].buf_handle) /\ conn_data[j].buf_handle.index # b
    BY <1>8, <1>9 DEF BuffersExact
  <2>3. conn_data'[j].buf_handle = conn_data[j].buf_handle
    BY <1>8
  <2> QED
    BY <1>1, <1>10, <2>2, <2>3 DEF IsValid, gens
<1>12. \A j, k \in Receiving' :
         conn_data'[j].buf_handle.index = conn_data'[k].buf_handle.index => j = k
  BY <1>8 DEF BuffersExact
<1>13. \A c \in 0 .. NBufs - 1 :
         Occurs(io_bufs'.free_list, c)
           <=> \A j \in Receiving' : conn_data'[j].buf_handle.index # c
  <2>1. SUFFICES ASSUME NEW c \in 0 .. NBufs - 1
                 PROVE  Occurs(Append(list, b), c)
                          <=> \A j \in Receiving' : conn_data'[j].buf_handle.index # c
    BY <1>4
  <2>2. Occurs(Append(list, b), c) <=> Occurs(list, c) \/ c = b
    BY <1>6
  <2>3. Occurs(list, c) <=> \A j \in Receiving : conn_data[j].buf_handle.index # c
    BY DEF BuffersExact, list
  <2>4. (\A j \in Receiving' : conn_data'[j].buf_handle.index # c)
          <=> \A j \in Receiving \ {i} : conn_data[j].buf_handle.index # c
    BY <1>7, <1>8
  <2>5. conn_data[i].buf_handle.index = b
    BY DEF b, id
  <2> QED
    BY <1>9, <2>2, <2>3, <2>4, <2>5
<1>14. HandlesOutdated'
  <2>1. ASSUME NEW j \in Released'
        PROVE  LET old == conn_data'[j].buf_handle
               IN  old.index \in 0 .. NBufs - 1
                     /\ old.generation < io_bufs'.generation[old.index]
    <3>1. CASE j = i
      <4>1. conn_data'[j].buf_handle = id
        BY <1>7, <3>1 DEF id
      <4>2. /\ id.index = b /\ id.generation = gens[b] /\ gens[b] \in Nat
            /\ b \in 0 .. NBufs - 1
        BY <1>1, <1>2 DEF b
      <4>3. gens[b] < io_bufs'.generation[b]
        BY <1>10, <4>2
      <4> QED
        BY <4>1, <4>2, <4>3, Zenon
    <3>2. CASE j # i
      <4> DEFINE old == conn_data[j].buf_handle
      <4>1. j \in Released /\ conn_data'[j].buf_handle = old
        BY <1>7, <3>2 DEF Released
      <4>2. old.index \in 0 .. NBufs - 1 /\ old.generation < gens[old.index]
        BY <4>1 DEF HandlesOutdated, gens
      <4>3. conn_data[j] \in Machines({"Closing", "Closed"}, GenId)
        <5>1. conn_data[j] \in ConnHandlers /\ conn_data[j].state \in {"Closing", "Closed"}
          BY <4>1 DEF Released, Live, TypeOK
        <5> QED
          BY <5>1 DEF ConnHandlers, Machines
      <4>4. old.generation \in Int /\ gens[old.index] \in Int
        BY <1>1, <4>2, <4>3 DEF Machines, GenId
      <4>5. \/ io_bufs'.generation[old.index] = gens[old.index]
            \/ io_bufs'.generation[old.index] = gens[old.index] + 1
        BY <1>10, <4>2
      <4> HIDE DEF old
      <4>6. old.generation < io_bufs'.generation[old.index]
        BY <4>2, <4>4, <4>5
      <4> QED
        BY <4>1, <4>2, <4>6
    <3> QED
      BY <3>1, <3>2
  <2> QED
    BY <2>1 DEF HandlesOutdated
<1> QED
  BY <1>4, <1>6, <1>11, <1>12, <1>13, <1>14 DEF BuffersExact, BuffersKept

-----------------------------------------------------------------------------
(* The arms of ConnHandler::process_event. *)

(* What an arm asks for, and the state its machine is then in. *)
TerminatesClosed(i) ==
  \A k \in DOMAIN intents' :
    intents'[k] = Terminate =>
      k = Len(intents') /\ conn_data'[i] # None /\ conn_data'[i].state = "Closed"

(* No other intent is mistaken for Terminate. *)
LEMMA NotTerminate ==
  /\ Retry # Terminate
  /\ \A h : Recv(h) # Terminate
  /\ \A s : CloseFixed(s) # Terminate
  /\ \A s : SpawnConnHandler(s) # Terminate
  /\ SubmitMultishotAccept # Terminate
BY DEF Retry, Terminate, CloseFixed, SpawnConnHandler, SubmitMultishotAccept,
       Recv, SubmitRecv, Intent

(* close(), of a machine that receives or that is closing already. *)
LEMMA CloseBuffers ==
  ASSUME BuffersInv, OverflowChecks, NEW i \in Receiving \cup Released, Close(i)
  PROVE  BuffersKept
<1> DEFINE h == conn_data[i]
<1>1. /\ i \in 0 .. NHandlers - 1 /\ h \in ConnHandlers
      /\ h.state \in {"Recv", "Closing", "Closed"}
  BY DEF Receiving, Released, Live, BuffersInv, TypeOK
<1>2. h \in Machines({"Recv", "Closing", "Closed"}, GenId)
  BY <1>1 DEF ConnHandlers, Machines
<1>3. h.buf_handle # None /\ h.state # "Init"
  BY <1>2, NoneAssumption DEF Machines
<1>4. Closing(h) \in ConnHandlers /\ Closing(h).state = "Closing"
  BY <1>1, <1>3, RecvType
<1>5. Closing(h).buf_handle = h.buf_handle
  BY <1>2 DEF Closing, Machines
<1>6. TypeOK /\ BuffersExact /\ HandlesOutdated
  BY DEF BuffersInv
<1>7. CASE ClosePanics(h)
  <2>1. UNCHANGED <<conn_data, io_bufs>>
    BY <1>7 DEF Close
  <2>2. Receiving' = Receiving /\ Released' = Released
    BY <2>1 DEF Receiving, Released, Live
  <2> QED
    BY <1>6, <2>1, <2>2, SameHolders
<1>8. CASE ~ClosePanics(h)
  <2>1. /\ conn_data' = [conn_data EXCEPT ![i] = Closing(h)]
        /\ io_bufs' = AfterFree(io_bufs, h.buf_handle)
    BY <1>3, <1>8 DEF Close, FreeBuf
  <2>2. CASE i \in Receiving
    <3>1. ~FreePanics(io_bufs, h.buf_handle)
      BY <1>3, <1>8 DEF ClosePanics
    <3> QED
      BY <1>4, <1>5, <1>6, <2>1, <2>2, <3>1, MachineGivesBack
  <2>3. CASE i \in Released
    <3>1. ~IsValid(io_bufs, h.buf_handle)
      <4>1. /\ h.buf_handle.index \in 0 .. NBufs - 1
            /\ h.buf_handle.generation < io_bufs.generation[h.buf_handle.index]
        BY <1>6, <2>3 DEF HandlesOutdated
      <4>2. h.buf_handle.generation \in Nat
        BY <1>2 DEF Machines, GenId
      <4> QED
        BY <4>1, <4>2 DEF IsValid
    <3>2. io_bufs' = io_bufs
      BY <2>1, <3>1 DEF AfterFree
    <3> QED
      BY <1>1, <1>4, <1>5, <1>6, <2>1, <2>3, <3>2, MachineKeeps
  <2> QED
    BY <2>2, <2>3
<1> QED
  BY <1>7, <1>8

(* An arm that changes neither machines nor buffers. *)
LEMMA NothingMoves ==
  ASSUME BuffersInv, UNCHANGED <<conn_data, io_bufs>>
  PROVE  BuffersKept
<1>1. Receiving' = Receiving /\ Released' = Released
  BY DEF Receiving, Released, Live
<1> QED
  BY <1>1, SameHolders DEF BuffersInv

(* on_init takes a buffer or asks for a retry. *)
LEMMA OnInitBuffers ==
  ASSUME BuffersInv, NEW i \in 0 .. NHandlers - 1, conn_data[i] \in ConnHandlers, OnInit(i)
  PROVE  BuffersKept /\ TerminatesClosed(i)
<1> DEFINE h == [conn_data[i] EXCEPT !.state = "Recv", !.phase = "ReceivingHeader",
                                     !.buf_handle = AllocId(io_bufs)]
<1>1. TypeOK /\ BuffersExact /\ HandlesOutdated
  BY DEF BuffersInv
<1>2. CASE CanAlloc(io_bufs)
  <2>1. AllocId(io_bufs) \in GenId
    BY <1>1, <1>2, AllocType DEF TypeOK
  <2>2. h \in Machines({"Recv"}, GenId) /\ h.buf_handle = AllocId(io_bufs)
    BY <2>1 DEF ConnHandlers, Machines
  <2>3. h \in ConnHandlers /\ h.state = "Recv"
    BY <2>2 DEF ConnHandlers, Machines
  <2>4. /\ conn_data' = [conn_data EXCEPT ![i] = h]
        /\ io_bufs' = AfterAlloc(io_bufs)
        /\ intents' = <<Recv(h)>>
    BY <1>2 DEF OnInit
  <2>5. i \notin Receiving
    BY DEF OnInit, Receiving
  <2> HIDE DEF h
  <2>6. BuffersKept
    BY <1>1, <1>2, <2>2, <2>3, <2>4, <2>5, MachineTakes
  <2>7. TerminatesClosed(i)
    BY <2>4, NotTerminate DEF TerminatesClosed
  <2> QED
    BY <2>6, <2>7
<1>3. CASE ~CanAlloc(io_bufs)
  <2>1. intents' = <<Retry>> /\ UNCHANGED <<conn_data, io_bufs>>
    BY <1>3 DEF OnInit
  <2>2. TerminatesClosed(i)
    BY <2>1, NotTerminate DEF TerminatesClosed
  <2> QED
    BY <2>1, <2>2, NothingMoves
<1> QED
  BY <1>2, <1>3

(* The arms that close, of a read or of a failed close. *)
LEMMA ClosingBuffers ==
  ASSUME BuffersInv, OverflowChecks, NEW i \in 0 .. NHandlers - 1,
         conn_data[i] \in ConnHandlers, NEW res,
         OnRecvEof(i, res) \/ OnCloseFailed(i, res) \/ OnRecvCloseErr(i, res)
  PROVE  BuffersKept /\ TerminatesClosed(i)
<1>1. Close(i) /\ conn_data[i].state \in {"Recv", "Closing"}
  BY DEF OnRecvEof, OnCloseFailed, OnRecvCloseErr
<1>2. i \in Receiving \cup Released
  BY <1>1, MachineAssumption DEF Receiving, Released, Live
<1>3. BuffersKept
  BY <1>1, <1>2, CloseBuffers
<1>4. \/ intents' = <<CloseFixed(conn_data[i].socket)>>
      \/ intents' = <<CloseFixed(conn_data[i].socket), Recv(Closing(conn_data[i]))>>
  BY DEF OnRecvEof, OnCloseFailed, OnRecvCloseErr
<1>5. TerminatesClosed(i)
  BY <1>4, NotTerminate DEF TerminatesClosed
<1> QED
  BY <1>3, <1>5

(* The arms that go on with the buffer they hold. *)
LEMMA KeepingBuffers ==
  ASSUME BuffersInv, NEW i \in 0 .. NHandlers - 1, conn_data[i] \in ConnHandlers,
         intents = << >>, NEW res \in Int,
         \/ OnRecvData(i, res) \/ OnRecvRetryErr(i, res) \/ OnRecvFatalErr(i, res)
         \/ OnRecvOtherErr(i, res) \/ OnUnexpected(i)
  PROVE  BuffersKept /\ TerminatesClosed(i)
<1>1. TypeOK /\ BuffersExact /\ HandlesOutdated
  BY DEF BuffersInv
<1>2. CASE /\ OnRecvData(i, res)
           /\ \/ conn_data[i].offset + res < HdrSize
              \/ IsValid(io_bufs, conn_data[i].buf_handle)
  <2> DEFINE g == AfterData(conn_data[i], res)
  <2>1. conn_data[i].state = "Recv" /\ res > 0 /\ io_bufs' = io_bufs
    BY <1>2 DEF OnRecvData
  <2>2. conn_data[i] \in Machines({"Recv"}, GenId)
    BY <2>1 DEF ConnHandlers, Machines
  <2>3. conn_data[i].offset + res >= HdrSize => IsValid(io_bufs, conn_data[i].buf_handle)
    BY <1>2, <2>2 DEF Machines
  <2>4. g \in ConnHandlers /\ g.state = "Recv"
    BY <1>1, <2>1, <2>3, AfterDataType
  <2>5. g.buf_handle = conn_data[i].buf_handle
    BY <2>2 DEF AfterData, Machines
  <2>6. conn_data' = [conn_data EXCEPT ![i] = g] /\ intents' = <<Recv(g)>>
    BY <2>3, <1>2 DEF OnRecvData
  <2>7. i \in Receiving
    BY <2>1, MachineAssumption DEF Receiving, Live
  <2> HIDE DEF g
  <2>8. BuffersKept
    BY <1>1, <2>1, <2>4, <2>5, <2>6, <2>7, MachineKeeps
  <2>9. TerminatesClosed(i)
    BY <2>6, NotTerminate DEF TerminatesClosed
  <2> QED
    BY <2>8, <2>9
<1>3. CASE ~ /\ OnRecvData(i, res)
             /\ \/ conn_data[i].offset + res < HdrSize
                \/ IsValid(io_bufs, conn_data[i].buf_handle)
  <2>1. /\ UNCHANGED <<conn_data, io_bufs>>
        /\ \/ intents' = << >>
           \/ intents' = <<Recv(conn_data[i])>>
           \/ intents' = <<Recv(conn_data[i]), Recv(conn_data[i])>>
    <3>1. CASE OnRecvData(i, res)
      <4>1. conn_data[i].offset + res >= HdrSize
        <5>1. conn_data[i].offset \in Nat
          BY DEF ConnHandlers, Machines
        <5> QED
          BY <1>3, <3>1, <5>1
      <4> QED
        BY <1>3, <3>1, <4>1 DEF OnRecvData
    <3>2. CASE OnRecvRetryErr(i, res) \/ OnRecvFatalErr(i, res)
                 \/ OnRecvOtherErr(i, res) \/ OnUnexpected(i)
      BY <3>2 DEF OnRecvRetryErr, OnRecvFatalErr, OnRecvOtherErr, OnUnexpected
    <3> QED
      BY <3>1, <3>2
  <2>2. TerminatesClosed(i)
    BY <2>1, NotTerminate DEF TerminatesClosed
  <2> QED
    BY <2>1, <2>2, NothingMoves
<1> QED
  BY <1>2, <1>3

(* on_closing: the machine has closed, and only then asks to be despawned. *)
LEMMA OnClosedBuffers ==
  ASSUME BuffersInv, NEW i \in 0 .. NHandlers - 1, conn_data[i] \in ConnHandlers,
         NEW res, OnClosed(i, res)
  PROVE  BuffersKept /\ TerminatesClosed(i)
<1> DEFINE g == [conn_data[i] EXCEPT !.state = "Closed"]
<1>1. conn_data[i].state = "Closing" /\ io_bufs' = io_bufs
  BY DEF OnClosed
<1>2. conn_data[i] \in Machines({"Closing"}, GenId)
  BY <1>1 DEF ConnHandlers, Machines
<1>3. g \in Machines({"Closed"}, GenId) /\ g.buf_handle = conn_data[i].buf_handle
  BY <1>2 DEF Machines
<1>4. g \in ConnHandlers /\ g.state = "Closed"
  BY <1>3 DEF ConnHandlers, Machines
<1>5. conn_data' = [conn_data EXCEPT ![i] = g]
  BY DEF OnClosed
<1>6. i \in Released
  BY <1>1, MachineAssumption DEF Released, Live
<1> HIDE DEF g
<1>7. BuffersKept
  BY <1>1, <1>3, <1>4, <1>5, <1>6, MachineKeeps DEF BuffersInv
<1>8. conn_data'[i] # None /\ conn_data'[i].state = "Closed"
  BY <1>4, <1>5, MachineAssumption DEF BuffersInv, TypeOK
<1>9. intents' = <<Terminate>>
  BY DEF OnClosed
<1> QED
  BY <1>7, <1>8, <1>9 DEF TerminatesClosed

(* ConnHandler::process_event keeps the buffers exact, whatever the event. *)
LEMMA ConnProcessEventBuffers ==
  ASSUME BuffersInv, OverflowChecks, NEW i \in 0 .. NHandlers - 1,
         conn_data[i] \in ConnHandlers, NEW event \in Events(Int),
         intents = << >>, ConnProcessEvent(i, event)
  PROVE  BuffersKept /\ TerminatesClosed(i)
<1>1. event.res \in Int
  BY DEF Events
<1>2. \/ OnInit(i) \/ OnClosed(i, event.res)
      \/ OnRecvEof(i, event.res) \/ OnCloseFailed(i, event.res) \/ OnRecvCloseErr(i, event.res)
      \/ OnRecvData(i, event.res) \/ OnRecvRetryErr(i, event.res)
      \/ OnRecvFatalErr(i, event.res) \/ OnRecvOtherErr(i, event.res) \/ OnUnexpected(i)
  BY Zenon DEF ConnProcessEvent
<1> QED
  BY <1>1, <1>2, OnInitBuffers, OnClosedBuffers, ClosingBuffers, KeepingBuffers

-----------------------------------------------------------------------------
(* The steps of the system. *)

(* Dropping the first intent leaves no Terminate but the last one. *)
LEMMA TailTerminates ==
  ASSUME BuffersInv, intents # << >>
  PROVE  \A k \in DOMAIN Tail(intents) :
           Tail(intents)[k] = Terminate =>
             /\ k = Len(Tail(intents))
             /\ Live(current.index) /\ conn_data[current.index].state = "Closed"
<1>1. intents \in Seq(IntentsOf(current))
  BY DEF BuffersInv, TypeOK
<1>2. /\ DOMAIN Tail(intents) = 1 .. Len(intents) - 1
      /\ Len(Tail(intents)) = Len(intents) - 1 /\ Len(intents) \in Nat
      /\ DOMAIN intents = 1 .. Len(intents)
      /\ \A k \in 1 .. Len(intents) - 1 : Tail(intents)[k] = intents[k + 1]
  <2>1. Len(intents) \in Nat /\ DOMAIN intents = 1 .. Len(intents)
    BY ONLY <1>1, LenProperties
  <2>2. /\ Tail(intents) \in Seq(IntentsOf(current)) /\ Len(Tail(intents)) = Len(intents) - 1
        /\ \A k \in 1 .. Len(Tail(intents)) : Tail(intents)[k] = intents[k + 1]
    <3> DEFINE S == IntentsOf(current)
    <3>1. intents \in Seq(S) /\ intents # << >>
      BY <1>1
    <3> HIDE DEF S
    <3>2. Tail(intents) \in Seq(S) /\ Len(Tail(intents)) = Len(intents) - 1
      BY ONLY <3>1, HeadTailProperties
    <3>3. \A k \in 1 .. Len(Tail(intents)) : Tail(intents)[k] = intents[k + 1]
      BY ONLY <3>1, HeadTailProperties
    <3> QED
      BY <3>2, <3>3 DEF S
  <2>3. DOMAIN Tail(intents) = 1 .. Len(Tail(intents))
    BY ONLY <2>2, LenProperties
  <2> DEFINE t == Tail(intents)
             n == Len(intents)
  <2>4. /\ n \in Nat /\ DOMAIN intents = 1 .. n
        /\ Len(t) = n - 1 /\ DOMAIN t = 1 .. Len(t)
        /\ \A k \in 1 .. Len(t) : t[k] = intents[k + 1]
    BY <2>1, <2>2, <2>3
  <2> HIDE DEF t, n
  <2>5. /\ DOMAIN t = 1 .. n - 1 /\ Len(t) = n - 1 /\ n \in Nat
        /\ DOMAIN intents = 1 .. n
        /\ \A k \in 1 .. n - 1 : t[k] = intents[k + 1]
    BY ONLY <2>4, Zenon
  <2> QED
    BY <2>5, Zenon DEF t, n
<1> SUFFICES ASSUME NEW k \in 1 .. Len(intents) - 1, intents[k + 1] = Terminate
             PROVE  /\ k = Len(intents) - 1
                    /\ Live(current.index) /\ conn_data[current.index].state = "Closed"
  BY <1>2
<1>3. k + 1 \in DOMAIN intents
  BY <1>2
<1>4. k + 1 = Len(intents) /\ Live(current.index) /\ conn_data[current.index].state = "Closed"
  BY <1>3 DEF BuffersInv, ClosedBeforeTerminate
<1> QED
  BY <1>2, <1>4

(* A step that touches neither machines nor buffers, and adds no intent. *)
LEMMA QuietStep ==
  ASSUME BuffersInv, UNCHANGED <<conn_data, io_bufs>>,
         \/ intents' = << >>
         \/ intents' = intents /\ current' = current
         \/ intents # << >> /\ intents' = Tail(intents) /\ current' = current
  PROVE  BuffersKept /\ ClosedBeforeTerminate'
<1>1. BuffersKept
  BY NothingMoves
<1>2. CASE intents' = << >>
  BY <1>1, <1>2 DEF ClosedBeforeTerminate
<1>3. CASE intents' = intents /\ current' = current
  BY <1>1, <1>3 DEF ClosedBeforeTerminate, BuffersInv, Live
<1>4. CASE intents # << >> /\ intents' = Tail(intents) /\ current' = current
  BY <1>1, <1>4, TailTerminates DEF ClosedBeforeTerminate, Live
<1> QED
  BY <1>2, <1>3, <1>4

(* The listener's intents never despawn anything. *)
LEMMA ListenerTerminatesNothing ==
  ASSUME NEW s \in Seq(IntentsOf(TcpHandle)), NEW k \in DOMAIN s
  PROVE  s[k] # Terminate
<1>1. s[k] \in TcpIntents
  BY DEF IntentsOf
<1> QED
  BY <1>1, NotTerminate DEF TcpIntents

(* Popping an event and running its machine. *)
LEMMA DispatchBuffers ==
  ASSUME BuffersInv, OverflowChecks, TypeOK',
         DispatchTcp \/ DispatchConn \/ DispatchMissing
  PROVE  BuffersKept /\ ClosedBeforeTerminate'
<1>1. TypeOK /\ Pop
  BY DEF BuffersInv, DispatchTcp, DispatchConn, DispatchMissing
<1>2. NextEvent \in RunQueueEvents /\ current' = NextEvent.handle /\ intents = << >>
  BY <1>1, PopEventType
<1>3. CASE DispatchTcp
  <2>1. UNCHANGED <<conn_data, io_bufs>>
    BY <1>3, Zenon DEF DispatchTcp, TcpProcessEvent, OnListen, OnAccepted, OnAcceptErr,
                       OnTcpUnexpected
  <2>2. current' = TcpHandle
    BY <1>2, <1>3, EventKinds DEF DispatchTcp
  <2>3. intents' \in Seq(IntentsOf(TcpHandle))
    BY <2>2 DEF TypeOK, IntentsOf
  <2>4. ClosedBeforeTerminate'
    BY <2>3, ListenerTerminatesNothing DEF ClosedBeforeTerminate
  <2> QED
    BY <2>1, <2>4, NothingMoves
<1>4. CASE DispatchConn
  <2> DEFINE h == NextEvent.handle
  <2>1. h.pool = CONN_HANDLER /\ Finds(h) /\ ConnProcessEvent(h.index, NextEvent.reason)
    BY <1>4 DEF DispatchConn
  <2>2. h \in ConnHandles /\ NextEvent.reason \in Events(Int)
    BY <1>2, <2>1, EventKinds
  <2>3. h.index \in 0 .. NHandlers - 1
    BY <2>2 DEF ConnHandles
  <2>4. conn_data[h.index] \in ConnHandlers
    BY <1>1, <2>1, <2>3 DEF Finds, TypeOK
  <2>5. BuffersKept /\ TerminatesClosed(h.index)
    BY <1>2, <2>1, <2>2, <2>3, <2>4, ConnProcessEventBuffers
  <2>6. ClosedBeforeTerminate'
    BY <1>2, <2>5 DEF TerminatesClosed, ClosedBeforeTerminate, Live
  <2> QED
    BY <2>5, <2>6
<1>5. CASE DispatchMissing
  BY <1>5, QuietStep DEF DispatchMissing
<1> QED
  BY <1>3, <1>4, <1>5

(* A machine is put into an empty place, and holds no buffer yet. *)
LEMMA SpawnBuffers ==
  ASSUME BuffersInv, CompleteSpawn, TypeOK'
  PROVE  BuffersKept /\ ClosedBeforeTerminate'
<1> DEFINE s  == Head(intents).fixed
           id == AllocId(conn_alloc)
           g  == NewConnHandler(s, files[s])
<1>1. /\ TypeOK /\ BuffersExact /\ HandlesOutdated
      /\ intents # << >> /\ Head(intents).kind = "SpawnConnHandler"
  BY DEF BuffersInv, CompleteSpawn, AtIntent
<1>2. CASE Crash("handler pool full") \/ Crash("handler slot taken") \/ Crash("run queue full")
  BY <1>2, QuietStep DEF Crash, loopVars, machineVars
<1>3. CASE /\ CanAlloc(conn_alloc)
           /\ conn_data[id.index] = None
           /\ conn_data' = [conn_data EXCEPT ![id.index] = g]
           /\ IntentDone
           /\ UNCHANGED <<io_bufs, sq>>
  <2>1. id.index \in 0 .. NHandlers - 1
    BY <1>1, <1>3, AllocType DEF TypeOK
  <2>2. conn_data'[id.index] = g /\ g.state = "Init"
    BY <1>1, <1>3, <2>1 DEF TypeOK, NewConnHandler
  <2>3. \A j \in (0 .. NHandlers - 1) \ {id.index} : conn_data'[j] = conn_data[j]
    BY <1>1, <1>3 DEF TypeOK
  <2>4. id.index \notin Receiving \cup Released
    BY <1>3 DEF Receiving, Released, Live
  <2> HIDE DEF id, g
  <2>5. Receiving' = Receiving /\ Released' = Released
    BY <2>2, <2>3, <2>4 DEF Receiving, Released, Live
  <2>6. \A j \in Receiving \cup Released' : conn_data'[j].buf_handle = conn_data[j].buf_handle
    BY <2>3, <2>4, <2>5 DEF Receiving, Released
  <2>7. BuffersKept
    BY <1>1, <1>3, <2>5, <2>6, SameHolders
  <2>8. current' = TcpHandle
    BY <1>1, <1>3, IntentKinds DEF IntentDone
  <2>9. intents' \in Seq(IntentsOf(TcpHandle))
    BY <2>8 DEF TypeOK, IntentsOf
  <2>10. ClosedBeforeTerminate'
    BY <2>9, ListenerTerminatesNothing DEF ClosedBeforeTerminate
  <2> QED
    BY <2>7, <2>10
<1> QED
  BY <1>2, <1>3, Zenon DEF CompleteSpawn

(* The machine that is despawned has closed: it holds no buffer. *)
LEMMA TerminateBuffers ==
  ASSUME BuffersInv, CompleteTerminate
  PROVE  BuffersKept /\ ClosedBeforeTerminate'
<1>1. /\ TypeOK /\ BuffersExact /\ HandlesOutdated
      /\ intents # << >> /\ Head(intents).kind = "Terminate"
  BY DEF BuffersInv, CompleteTerminate, AtIntent
<1>2. CASE FreePanics(conn_alloc, current)
  BY <1>2, QuietStep DEF CompleteTerminate, Crash, loopVars, machineVars
<1>3. CASE ~FreePanics(conn_alloc, current)
  <2>1. current \in ConnHandles /\ Head(intents) \in ConnIntents
    BY <1>1, IntentKinds
  <2>2. Head(intents) = Terminate
    BY <1>1, <2>1 DEF ConnIntents, Retry, Terminate, CloseFixed, Intent
  <2>3. intents \in Seq(ConnIntents) /\ intents[1] = Terminate /\ 1 \in DOMAIN intents
    BY <1>1, <2>1, <2>2, HandleKinds DEF TypeOK, IntentsOf
  <2>4. /\ Len(intents) = 1
        /\ Live(current.index) /\ conn_data[current.index].state = "Closed"
    BY <2>3 DEF BuffersInv, ClosedBeforeTerminate
  <2>5. intents' = Tail(intents) /\ io_bufs' = io_bufs
    BY <1>3 DEF CompleteTerminate, IntentDone
  <2>6. intents' = << >>
    BY <2>3, <2>4, <2>5
  <2>7. current.index \in 0 .. NHandlers - 1
    BY <2>1 DEF ConnHandles
  <2>8. \A j \in 0 .. NHandlers - 1 :
          \/ conn_data'[j] = conn_data[j]
          \/ j = current.index /\ conn_data'[j] = None
    BY <1>1, <1>3, <2>7 DEF CompleteTerminate, TypeOK
  <2>9. Receiving' = Receiving /\ Released' \subseteq Released
    BY <2>4, <2>8 DEF Receiving, Released, Live
  <2>10. \A j \in Receiving \cup Released' : conn_data'[j].buf_handle = conn_data[j].buf_handle
    <3>1. conn_data'[current.index] = None => current.index \notin Receiving \cup Released'
      BY <2>4 DEF Receiving, Released, Live
    <3>2. Receiving \cup Released' \subseteq 0 .. NHandlers - 1
      BY DEF Receiving, Released
    <3> QED
      BY <2>8, <3>1, <3>2
  <2>11. BuffersKept
    BY <1>1, <2>5, <2>9, <2>10, SameHolders
  <2> QED
    BY <2>6, <2>11 DEF ClosedBeforeTerminate
<1> QED
  BY <1>2, <1>3

(* Every step of the executor and of the kernel keeps the buffers exact. *)
LEMMA NextBuffers ==
  ASSUME OverflowChecks
  PROVE  BuffersInv /\ [Next]_vars => BuffersInv'
<1> SUFFICES ASSUME BuffersInv, [Next]_vars PROVE BuffersInv'
  OBVIOUS
<1>1. TypeOK'
  BY NextTypeOK DEF BuffersInv
<1> SUFFICES BuffersKept /\ ClosedBeforeTerminate'
  BY <1>1 DEF BuffersInv, BuffersKept
<1>2. CASE UNCHANGED vars
  BY <1>2, QuietStep DEF vars, contextVars, loopVars, machineVars
<1>3. CASE DispatchTcp \/ DispatchConn \/ DispatchMissing
  BY <1>1, <1>3, DispatchBuffers
<1>4. CASE CompleteSpawn
  BY <1>1, <1>4, SpawnBuffers
<1>5. CASE CompleteTerminate
  BY <1>5, TerminateBuffers
<1>6. CASE CompleteRetry \/ CompleteAccept \/ CompleteRecv \/ CompleteClose
  <2>1. intents # << >>
    BY <1>6 DEF CompleteRetry, CompleteAccept, CompleteRecv, CompleteClose, AtIntent
  <2>2. \/ IntentDone /\ UNCHANGED <<io_bufs, conn_data>>
        \/ \E site \in PanicSites : Crash(site)
    BY <1>6 DEF CompleteRetry, CompleteAccept, CompleteRecv, CompleteClose, EnqueueFor,
                PanicSites
  <2> QED
    BY <2>1, <2>2, QuietStep DEF IntentDone, Crash, loopVars, machineVars
<1>7. CASE \/ DrainDone \/ IntentsDone \/ SubmitShortcut \/ SubmitEnter
           \/ EnterIssues \/ EnterReturns \/ EnterError \/ Reap \/ ReapDone
  <2>1. /\ UNCHANGED <<conn_data, io_bufs, intents>>
        /\ current' = current \/ intents = << >>
    BY <1>7, Zenon DEF DrainDone, IntentsDone, SubmitShortcut, SubmitEnter,
       EnterIssues, EnterReturns, EnterError, Reap, ReapDone, Crash, Issue,
       contextVars, loopVars, machineVars
  <2> QED
    BY <2>1, QuietStep
<1>8. CASE \/ KernelAccepts \/ KernelRefuses \/ KernelReads \/ KernelFails
           \/ \E c \in Conns : KernelEnds(c)
  <2>1. ProgramUnchanged
    BY <1>8 DEF KernelAccepts, KernelRefuses, KernelReads, KernelFails, KernelEnds
  <2> QED
    BY <2>1, QuietStep DEF ProgramUnchanged, loopVars, machineVars
<1> QED
  BY <1>2, <1>3, <1>4, <1>5, <1>6, <1>7, <1>8, Zenon DEF Next, Thread

(* Nobody holds a buffer at first, and all of them are free. *)
LEMMA InitBuffers == Init => BuffersInv
<1> SUFFICES ASSUME Init PROVE BuffersInv
  OBVIOUS
<1>1. Receiving = {} /\ Released = {}
  BY DEF Init, Receiving, Released, Live
<1>2. /\ NoRepeats(io_bufs.free_list)
      /\ \A b \in 0 .. NBufs - 1 : Occurs(io_bufs.free_list, b)
  BY NewAllocExact DEF Init
<1>3. intents = << >>
  BY DEF Init
<1> QED
  BY <1>1, <1>2, <1>3, InitTypeOK
     DEF BuffersInv, BuffersExact, HandlesOutdated, ClosedBeforeTerminate

(* What is exact is conserved: none holds a free buffer, one holds another.*)
LEMMA ExactConserves == BuffersInv => BuffersConserved
<1> SUFFICES ASSUME BuffersInv, NEW b \in 0 .. NBufs - 1
             PROVE  Cardinality({i \in Receiving : conn_data[i].buf_handle.index = b})
                      = IF Occurs(io_bufs.free_list, b) THEN 0 ELSE 1
  BY DEF BuffersConserved, Occurs
<1> DEFINE holders == {i \in Receiving : conn_data[i].buf_handle.index = b}
<1>1. CASE Occurs(io_bufs.free_list, b)
  <2>1. holders = {}
    BY <1>1 DEF BuffersInv, BuffersExact
  <2> QED
    BY <1>1, <2>1, FS_EmptySet
<1>2. CASE ~Occurs(io_bufs.free_list, b)
  <2>1. PICK i \in Receiving : conn_data[i].buf_handle.index = b
    BY <1>2 DEF BuffersInv, BuffersExact
  <2>2. holders = {i}
    BY <2>1 DEF BuffersInv, BuffersExact
  <2> QED
    BY <1>2, <2>2, FS_Singleton
<1> QED
  BY <1>1, <1>2

(* Where arithmetic is checked, a buffer is out of the free list exactly   *)
(* when one receiving machine holds it, whatever errors reads complete     *)
(* with, however often a close is retried and however many clients come    *)
(* and go: close() gives the buffer back once (conn_handler.rs:141-146),   *)
(* because the generation of a freed handle is never the pool's again      *)
(* (alloc.rs:98-116), and a machine is despawned only after on_closing     *)
(* (conn_handler.rs:97-106).                                              *)
THEOREM ExecBuffersConserved ==
  ASSUME OverflowChecks
  PROVE  Spec => []BuffersConserved
<1>1. Init => BuffersInv
  BY InitBuffers
<1>2. BuffersInv /\ [Next]_vars => BuffersInv'
  BY NextBuffers
<1>3. BuffersInv => BuffersConserved
  BY ExactConserves
<1> QED
  BY <1>1, <1>2, <1>3, PTL DEF Spec

-----------------------------------------------------------------------------
(* Events. *)

(* The handles of the requests that are queued, pending or completed. *)
UsersOf(s) == {s[k].user : k \in DOMAIN s}

Users == UsersOf(sq) \cup UsersOf(reads) \cup UsersOf(cq)

(* The events of both run queues. *)
QueuedEvents ==
  {run_queues[0][k] : k \in DOMAIN run_queues[0]}
    \cup {run_queues[1][k] : k \in DOMAIN run_queues[1]}

IsSpawn(e) == e.reason.kind = "Spawn"

(* A handle whose machine is gone, and one that resolves. *)
Outdated(h) == h.generation < conn_alloc.generation[h.index]

Resolves(h) == h.generation = conn_alloc.generation[h.index] /\ Live(h.index)

(* A handle to complete an operation of: its machine, unless it is gone,   *)
(* has been started; a handle to start: its machine has not.               *)
Started(h) ==
  h \in ConnHandles => Outdated(h) \/ (Resolves(h) /\ conn_data[h.index].state # "Init")

Startable(h) ==
  h \in ConnHandles => Outdated(h) \/ (Resolves(h) /\ conn_data[h.index].state = "Init")

RequestsFit == \A h \in Users : Started(h)

EventsFit ==
  \A e \in QueuedEvents : IF IsSpawn(e) THEN Startable(e.handle) ELSE Started(e.handle)

(* Retry comes alone, for a machine that nothing else will start. *)
IntentsFit ==
  pc = "intents" =>
    \A k \in DOMAIN intents :
      IF intents[k].kind = "Retry"
      THEN /\ Startable(current)
           /\ Len(intents) = 1
           /\ \A e \in QueuedEvents : IsSpawn(e) => e.handle # current
      ELSE Started(current)

(* No machine is to be started twice. *)
SpawnsOnce ==
  \A p, q \in {0, 1} : \A j \in DOMAIN run_queues[p], k \in DOMAIN run_queues[q] :
    LET d == run_queues[p][j]
        e == run_queues[q][k]
    IN  IsSpawn(d) /\ IsSpawn(e) /\ d.handle = e.handle => p = q /\ j = k

(* Nothing has happened yet but the seeding of the run queue. *)
Seeded ==
  /\ pc = "drain" /\ current_run_queue = 0 /\ intents = << >>
  /\ run_queues[0] = <<RunQueueEvent(Spawn, TcpHandle)>> /\ run_queues[1] = << >>
  /\ sq = << >> /\ cq = << >> /\ reads = << >> /\ accepts = 0

ListenerStartsOnce ==
  IF tcp_listener = "Init" THEN Seeded
  ELSE \A e \in QueuedEvents : IsSpawn(e) => e.handle # TcpHandle

EventsInv ==
  RequestsFit /\ EventsFit /\ IntentsFit /\ SpawnsOnce /\ ListenerStartsOnce
    /\ NoUnreachable
-----------------------------------------------------------------------------
(* Handles of other pools are not looked up. *)
LEMMA ListenerFit == Started(TcpHandle) /\ Startable(TcpHandle)
BY HandleKinds DEF Started, Startable

(* No machine changes kind or generation. *)
Persist ==
  \A h \in ConnHandles : (Started(h) => Started(h)') /\ (Startable(h) => Startable(h)')

(* What fits still fits when the machines stay as they are. *)
LEMMA SameMachinesPersist == UNCHANGED <<conn_alloc, conn_data>> => Persist
BY DEF Persist, Started, Startable, Outdated, Resolves, Live

(* The event that a pop takes was queued, and was the only one to start    *)
(* its machine.                                                            *)
LEMMA PopEvents ==
  ASSUME TypeOK, Pop, SpawnsOnce
  PROVE  /\ SpawnsOnce'
         /\ QueuedEvents' \subseteq QueuedEvents
         /\ NextEvent \in QueuedEvents
         /\ IsSpawn(NextEvent) =>
              \A e \in QueuedEvents' : IsSpawn(e) => e.handle # NextEvent.handle
<1> DEFINE c == current_run_queue
           At1(p, k) == IF p = c THEN k + 1 ELSE k
<1>1. /\ c \in {0, 1} /\ run_queues \in [{0, 1} -> Seq(RunQueueEvents)]
      /\ run_queues[c] \in Seq(RunQueueEvents) /\ run_queues[c] # << >>
      /\ run_queues' = [run_queues EXCEPT ![c] = Tail(run_queues[c])]
  BY DEF TypeOK, Pop
<1>2. /\ DOMAIN Tail(run_queues[c]) = 1 .. Len(run_queues[c]) - 1
      /\ DOMAIN run_queues[c] = 1 .. Len(run_queues[c])
      /\ Len(run_queues[c]) \in Nat /\ Len(run_queues[c]) # 0
      /\ \A k \in 1 .. Len(run_queues[c]) - 1 : Tail(run_queues[c])[k] = run_queues[c][k + 1]
      /\ Head(run_queues[c]) = run_queues[c][1]
  BY <1>1
<1>3. ASSUME NEW p \in {0, 1}, NEW k \in DOMAIN run_queues'[p]
      PROVE  /\ k \in Nat \ {0}
             /\ At1(p, k) \in DOMAIN run_queues[p]
             /\ run_queues'[p][k] = run_queues[p][At1(p, k)]
  <2>1. CASE p = c
    BY <1>1, <1>2, <2>1
  <2>2. CASE p # c
    <3>1. run_queues'[p] = run_queues[p] /\ run_queues[p] \in Seq(RunQueueEvents)
      BY <1>1, <2>2
    <3> QED
      BY <2>2, <3>1
  <2> QED
    BY <2>1, <2>2
<1>4. ASSUME NEW p \in {0, 1}, NEW k \in DOMAIN run_queues[p]
      PROVE  run_queues[p][k] \in QueuedEvents
  BY DEF QueuedEvents
<1>5. ASSUME NEW e \in QueuedEvents'
      PROVE  \E p \in {0, 1} : \E k \in DOMAIN run_queues'[p] : e = run_queues'[p][k]
  BY DEF QueuedEvents
<1>6. 1 \in DOMAIN run_queues[c] /\ NextEvent = run_queues[c][1]
  BY <1>2 DEF NextEvent
<1> HIDE DEF At1, c
<1>7. SpawnsOnce'
  <2>1. SUFFICES ASSUME NEW p \in {0, 1}, NEW q \in {0, 1},
                        NEW j \in DOMAIN run_queues'[p], NEW k \in DOMAIN run_queues'[q],
                        IsSpawn(run_queues'[p][j]), IsSpawn(run_queues'[q][k]),
                        run_queues'[p][j].handle = run_queues'[q][k].handle
                 PROVE  p = q /\ j = k
    BY DEF SpawnsOnce, IsSpawn
  <2>2. p = q /\ At1(p, j) = At1(q, k)
    BY <1>3, <2>1 DEF SpawnsOnce
  <2>3. j \in Nat /\ k \in Nat
    BY <1>3
  <2> QED
    BY <2>2, <2>3 DEF At1
<1>8. QueuedEvents' \subseteq QueuedEvents
  BY <1>3, <1>4, <1>5
<1>9. ASSUME IsSpawn(NextEvent), NEW e \in QueuedEvents', IsSpawn(e),
             e.handle = NextEvent.handle
      PROVE  FALSE
  <2>0. PICK p \in {0, 1} : \E k \in DOMAIN run_queues'[p] : e = run_queues'[p][k]
    BY <1>5
  <2>1. PICK k \in DOMAIN run_queues'[p] : e = run_queues'[p][k]
    BY <2>0
  <2>2. p = c /\ At1(p, k) = 1
    BY <1>1, <1>3, <1>6, <1>9, <2>1 DEF SpawnsOnce
  <2>3. k \in Nat \ {0}
    BY <1>3
  <2> QED
    BY <2>2, <2>3 DEF At1
<1> QED
  BY <1>1, <1>4, <1>6, <1>7, <1>8, <1>9

(* Pushing an event, of a machine that nothing else will start if it is    *)
(* the event that starts it.                                               *)
LEMMA PushEvents ==
  ASSUME TypeOK, SpawnsOnce, NEW q \in {0, 1}, NEW e, Push(q, e),
         IsSpawn(e) => \A d \in QueuedEvents : IsSpawn(d) => d.handle # e.handle
  PROVE  SpawnsOnce' /\ QueuedEvents' \subseteq QueuedEvents \cup {e}
<1>1. /\ run_queues \in [{0, 1} -> Seq(RunQueueEvents)]
      /\ run_queues[q] \in Seq(RunQueueEvents)
      /\ run_queues' = [run_queues EXCEPT ![q] = Append(run_queues[q], e)]
  BY DEF TypeOK, Push
<1>2. /\ DOMAIN Append(run_queues[q], e) = 1 .. Len(run_queues[q]) + 1
      /\ DOMAIN run_queues[q] = 1 .. Len(run_queues[q])
      /\ Len(run_queues[q]) \in Nat
      /\ \A k \in 1 .. Len(run_queues[q]) : Append(run_queues[q], e)[k] = run_queues[q][k]
      /\ Append(run_queues[q], e)[Len(run_queues[q]) + 1] = e
  BY <1>1
<1>3. ASSUME NEW p \in {0, 1}, NEW k \in DOMAIN run_queues'[p]
      PROVE  \/ /\ k \in DOMAIN run_queues[p] /\ run_queues'[p][k] = run_queues[p][k]
                /\ run_queues[p][k] \in QueuedEvents
             \/ p = q /\ k = Len(run_queues[q]) + 1 /\ run_queues'[p][k] = e
  <2>1. CASE p = q
    BY <1>1, <1>2, <2>1 DEF QueuedEvents
  <2>2. CASE p # q
    <3>1. run_queues'[p] = run_queues[p]
      BY <1>1, <2>2
    <3> QED
      BY <3>1 DEF QueuedEvents
  <2> QED
    BY <2>1, <2>2
<1>4. SpawnsOnce'
  <2>1. SUFFICES ASSUME NEW p \in {0, 1}, NEW r \in {0, 1},
                        NEW j \in DOMAIN run_queues'[p], NEW k \in DOMAIN run_queues'[r],
                        IsSpawn(run_queues'[p][j]), IsSpawn(run_queues'[r][k]),
                        run_queues'[p][j].handle = run_queues'[r][k].handle
                 PROVE  p = r /\ j = k
    BY DEF SpawnsOnce, IsSpawn
  <2> QED
    BY <1>3, <2>1 DEF SpawnsOnce
<1>5. QueuedEvents' \subseteq QueuedEvents \cup {e}
  <2>1. SUFFICES ASSUME NEW d \in QueuedEvents' PROVE d \in QueuedEvents \cup {e}
    OBVIOUS
  <2>2. PICK p \in {0, 1} : \E k \in DOMAIN run_queues'[p] : d = run_queues'[p][k]
    BY DEF QueuedEvents
  <2>3. PICK k \in DOMAIN run_queues'[p] : d = run_queues'[p][k]
    BY <2>2
  <2> QED
    BY <1>3, <2>3
<1> QED
  BY <1>4, <1>5

(* After the first intent only others than Retry are left, of the same     *)
(* machine.                                                                *)
LEMMA RestFit ==
  ASSUME TypeOK, IntentsFit, pc = "intents", intents # << >>,
         NEW k \in DOMAIN Tail(intents)
  PROVE  Tail(intents)[k].kind # "Retry" /\ Started(current)
<1>1. intents \in Seq(IntentsOf(current))
  BY DEF TypeOK
<1>2. /\ DOMAIN Tail(intents) = 1 .. Len(intents) - 1 /\ Len(intents) \in Nat
      /\ DOMAIN intents = 1 .. Len(intents)
      /\ Tail(intents)[k] = intents[k + 1]
  BY <1>1
<1>3. k + 1 \in DOMAIN intents /\ Len(intents) # 1
  BY <1>2
<1> QED
  BY <1>2, <1>3 DEF IntentsFit

(* The tail of a queue of one is empty. *)
LEMMA TailOfOne == \A S : \A s \in Seq(S) : Len(s) = 1 => Tail(s) = << >>
<1> SUFFICES ASSUME NEW S, NEW s \in Seq(S), Len(s) = 1 PROVE Tail(s) = << >>
  OBVIOUS
<1>1. Tail(s) \in Seq(S) /\ Len(Tail(s)) = 0
  OBVIOUS
<1> QED
  BY <1>1, EmptySeq

(* The first intent, and what may be done for it. *)
LEMMA FirstFit ==
  ASSUME TypeOK, IntentsFit, pc = "intents", intents # << >>
  PROVE  IF Head(intents).kind = "Retry"
         THEN /\ Startable(current)
              /\ \A e \in QueuedEvents : IsSpawn(e) => e.handle # current
              /\ Tail(intents) = << >>
         ELSE Started(current)
<1>1. intents \in Seq(IntentsOf(current))
  BY DEF TypeOK
<1>2. 1 \in DOMAIN intents /\ Head(intents) = intents[1]
  BY <1>1
<1>3. Len(intents) = 1 => Tail(intents) = << >>
  BY <1>1, TailOfOne
<1> QED
  BY <1>2, <1>3 DEF IntentsFit

(* Intents that are done leave the rest fit. *)
LEMMA IntentsLeft ==
  ASSUME TypeOK, IntentsFit, pc = "intents", intents # << >>, Persist,
         intents' = Tail(intents), current' = current
  PROVE  IntentsFit'
<1>1. Started(current) => Started(current)'
  BY DEF Persist, Started, Outdated, Resolves, Live
<1> QED
  BY <1>1, RestFit DEF IntentsFit

(* A step that keeps machines of a kind, whose new requests and events fit,*)
(* keeps everything fit.                                                   *)
LEMMA StepFit ==
  ASSUME EventsInv, Persist, tcp_listener # "Init", tcp_listener' # "Init",
         panic' # "unreachable", SpawnsOnce', IntentsFit',
         \A h \in Users' : h \in Users \/ Started(h)',
         \A e \in QueuedEvents' :
           \/ e \in QueuedEvents
           \/ IF IsSpawn(e) THEN e.handle # TcpHandle /\ Startable(e.handle)'
              ELSE Started(e.handle)'
  PROVE  EventsInv'
<1>1. \A h : (Started(h) => Started(h)') /\ (Startable(h) => Startable(h)')
  BY DEF Persist, Started, Startable
<1>2. RequestsFit'
  BY <1>1 DEF EventsInv, RequestsFit
<1>3. EventsFit'
  <2>1. SUFFICES ASSUME NEW e \in QueuedEvents'
                 PROVE  IF IsSpawn(e) THEN Startable(e.handle)' ELSE Started(e.handle)'
    BY DEF EventsFit, IsSpawn
  <2>2. CASE e \in QueuedEvents
    BY <1>1, <2>2 DEF EventsInv, EventsFit
  <2>3. CASE e \notin QueuedEvents
    BY <2>1, <2>3
  <2> QED
    BY <2>2, <2>3
<1>4. ListenerStartsOnce'
  BY DEF EventsInv, ListenerStartsOnce, IsSpawn
<1> QED
  BY <1>2, <1>3, <1>4 DEF EventsInv, NoUnreachable

(* A step after which there are no other requests, events or machines.     *)
LEMMA QuietFit ==
  ASSUME EventsInv, tcp_listener # "Init",
         UNCHANGED <<conn_alloc, conn_data, tcp_listener, run_queues>>,
         panic' # "unreachable",
         Users' \subseteq Users \cup {TcpHandle},
         \/ intents' = << >>
         \/ UNCHANGED <<intents, current, pc>>
  PROVE  EventsInv'
<1>1. Persist
  BY SameMachinesPersist
<1>2. SpawnsOnce' /\ QueuedEvents' = QueuedEvents
  BY DEF EventsInv, SpawnsOnce, IsSpawn, QueuedEvents
<1>3. \A h \in Users' : h \in Users \/ Started(h)'
  BY ListenerFit, HandleKinds DEF Started
<1>4. IntentsFit'
  <2>1. CASE intents' = << >>
    BY <2>1 DEF IntentsFit
  <2>2. CASE UNCHANGED <<intents, current, pc>>
    BY <1>2, <2>2 DEF EventsInv, IntentsFit, IsSpawn, Started, Startable, Outdated,
                      Resolves, Live
  <2> QED
    BY <2>1, <2>2
<1> QED
  BY <1>1, <1>2, <1>3, <1>4, StepFit

-----------------------------------------------------------------------------
(* The arms of ConnHandler::process_event. *)

(* Which intents are Retry. *)
LEMMA IntentKindsOf ==
  /\ Retry.kind = "Retry" /\ Terminate.kind # "Retry"
  /\ \A h : Recv(h).kind # "Retry"
  /\ \A s : CloseFixed(s).kind # "Retry"
  /\ \A s : SpawnConnHandler(s).kind # "Retry"
  /\ SubmitMultishotAccept.kind # "Retry"
BY DEF Retry, Terminate, Recv, SubmitRecv, CloseFixed, SpawnConnHandler,
       SubmitMultishotAccept, Intent

(* A machine that is given the event it waits for starts, or asks alone    *)
(* for another try, or goes on.                                            *)
LEMMA ArmFit ==
  ASSUME TypeOK, NEW i \in 0 .. NHandlers - 1, conn_data[i] \in ConnHandlers,
         NEW event \in Events(Int), intents = << >>, panic # "unreachable",
         event.kind = "Spawn" <=> conn_data[i].state = "Init",
         ConnProcessEvent(i, event)
  PROVE  /\ panic' # "unreachable"
         /\ \A j \in (0 .. NHandlers - 1) \ {i} : conn_data'[j] = conn_data[j]
         /\ \/ /\ conn_data[i].state = "Init" /\ conn_data' = conn_data
               /\ intents' = <<Retry>>
            \/ /\ conn_data'[i] # None /\ conn_data'[i].state # "Init"
               /\ \A k \in DOMAIN intents' : intents'[k].kind # "Retry"
<1> DEFINE h == conn_data[i]
           res == event.res
<1>1. res \in Int /\ event.kind \in {"Spawn", "IoCompleted"}
      /\ h.state \in {"Init", "Recv", "Closing", "Closed"}
  BY DEF Events, ConnHandlers, Machines
<1>2. CASE ~ConnExpects(i, event)
  <2>1. OnUnexpected(i) /\ h.state = "Closed"
    BY <1>1, <1>2 DEF ConnProcessEvent, ConnExpects
  <2> QED
    BY <2>1, MachineAssumption DEF OnUnexpected
<1>3. CASE OnInit(i)
  <2>1. CASE CanAlloc(io_bufs)
    <3> DEFINE g == [h EXCEPT !.state = "Recv", !.phase = "ReceivingHeader",
                              !.buf_handle = AllocId(io_bufs)]
    <3>1. /\ conn_data' = [conn_data EXCEPT ![i] = g] /\ intents' = <<Recv(g)>>
          /\ panic' = panic
      BY <1>3, <2>1 DEF OnInit
    <3>2. g \in ConnHandlers /\ g.state = "Recv"
      <4>1. AllocId(io_bufs) \in GenId
        BY <2>1, AllocType DEF TypeOK
      <4>2. g \in Machines({"Recv"}, GenId)
        BY <4>1 DEF ConnHandlers, Machines
      <4> QED
        BY <4>2 DEF ConnHandlers, Machines
    <3> HIDE DEF g
    <3> QED
      BY <3>1, <3>2, MachineAssumption, IntentKindsOf DEF TypeOK
  <2>2. CASE ~CanAlloc(io_bufs)
    BY <1>3, <2>2 DEF OnInit
  <2> QED
    BY <2>1, <2>2
<1>4. CASE OnRecvEof(i, res) \/ OnCloseFailed(i, res) \/ OnRecvCloseErr(i, res)
  <2>1. Close(i) /\ h.state \in {"Recv", "Closing"}
    BY <1>4 DEF OnRecvEof, OnCloseFailed, OnRecvCloseErr
  <2>2. \/ intents' = <<CloseFixed(h.socket)>>
        \/ intents' = <<CloseFixed(h.socket), Recv(Closing(h))>>
    BY <1>4 DEF OnRecvEof, OnCloseFailed, OnRecvCloseErr
  <2>3. \/ conn_data' = conn_data
        \/ conn_data' = [conn_data EXCEPT ![i] = Closing(h)]
    BY <2>1 DEF Close
  <2>4. Closing(h) \in ConnHandlers /\ Closing(h).state = "Closing"
    BY <2>1, RecvType
  <2>5. panic' # "unreachable"
    BY <2>1 DEF Close
  <2>6. /\ conn_data'[i] # None /\ conn_data'[i].state # "Init"
        /\ \A j \in (0 .. NHandlers - 1) \ {i} : conn_data'[j] = conn_data[j]
    BY <2>1, <2>3, <2>4, MachineAssumption DEF TypeOK
  <2>7. \A k \in DOMAIN intents' : intents'[k].kind # "Retry"
    BY <2>2, IntentKindsOf
  <2> QED
    BY <2>5, <2>6, <2>7
<1>5. CASE OnRecvData(i, res)
  <2>1. h.state = "Recv" /\ panic' # "unreachable"
    BY <1>5 DEF OnRecvData
  <2>2. \/ conn_data' = conn_data /\ intents' = << >>
        \/ /\ conn_data' = [conn_data EXCEPT ![i] = AfterData(h, res)]
           /\ intents' = <<Recv(AfterData(h, res))>>
    BY <1>5 DEF OnRecvData
  <2>3. CASE conn_data' = conn_data /\ intents' = << >>
    BY <2>1, <2>3, MachineAssumption
  <2>4. CASE /\ ~(conn_data' = conn_data /\ intents' = << >>)
             /\ conn_data' = [conn_data EXCEPT ![i] = AfterData(h, res)]
             /\ intents' = <<Recv(AfterData(h, res))>>
    <3>1. res \in Nat /\ (h.offset + res >= HdrSize => IsValid(io_bufs, h.buf_handle))
      BY <1>1, <1>5, <2>4 DEF OnRecvData
    <3>2. AfterData(h, res) \in ConnHandlers /\ AfterData(h, res).state = "Recv"
      BY <2>1, <3>1, AfterDataType
    <3> QED
      BY <2>1, <2>4, <3>2, MachineAssumption, IntentKindsOf DEF TypeOK
  <2> QED
    BY <2>2, <2>3, <2>4
<1>6. CASE OnRecvRetryErr(i, res) \/ OnRecvFatalErr(i, res) \/ OnRecvOtherErr(i, res)
  <2>1. /\ h.state = "Recv" /\ conn_data' = conn_data
        /\ \/ intents' = << >> \/ intents' = <<Recv(h)>> \/ intents' = <<Recv(h), Recv(h)>>
        /\ panic' # "unreachable"
    BY <1>6 DEF OnRecvRetryErr, OnRecvFatalErr, OnRecvOtherErr
  <2>2. \A k \in DOMAIN intents' : intents'[k].kind # "Retry"
    BY <2>1, IntentKindsOf
  <2> QED
    BY <2>1, <2>2, MachineAssumption
<1>7. CASE OnClosed(i, res)
  <2> DEFINE g == [h EXCEPT !.state = "Closed"]
  <2>1. /\ h.state = "Closing" /\ conn_data' = [conn_data EXCEPT ![i] = g]
        /\ intents' = <<Terminate>> /\ panic' = panic
    BY <1>7 DEF OnClosed
  <2>2. g \in ConnHandlers /\ g.state = "Closed"
    <3>1. g \in Machines({"Closed"}, GenId)
      BY <2>1 DEF ConnHandlers, Machines
    <3> QED
      BY <3>1 DEF ConnHandlers, Machines
  <2> HIDE DEF g
  <2> QED
    BY <2>1, <2>2, MachineAssumption, IntentKindsOf DEF TypeOK
<1> QED
  BY <1>2, <1>3, <1>4, <1>5, <1>6, <1>7, Zenon DEF ConnProcessEvent

-----------------------------------------------------------------------------
(* Whose requests are in a queue. *)
LEMMA UsersTail ==
  \A S : \A s \in Seq(S) : s # << >> =>
    UsersOf(Tail(s)) \subseteq UsersOf(s) /\ Head(s).user \in UsersOf(s)
<1> SUFFICES ASSUME NEW S, NEW s \in Seq(S), s # << >>
             PROVE  UsersOf(Tail(s)) \subseteq UsersOf(s) /\ Head(s).user \in UsersOf(s)
  OBVIOUS
<1>1. /\ DOMAIN Tail(s) = 1 .. Len(s) - 1 /\ DOMAIN s = 1 .. Len(s)
      /\ Len(s) \in Nat /\ Len(s) # 0
      /\ \A k \in 1 .. Len(s) - 1 : Tail(s)[k] = s[k + 1]
      /\ Head(s) = s[1]
  OBVIOUS
<1>2. /\ 1 \in DOMAIN s
      /\ \A k \in 1 .. Len(s) - 1 : k + 1 \in DOMAIN s
  BY <1>1
<1> QED
  BY <1>1, <1>2 DEF UsersOf

(* A request that is added. *)
LEMMA UsersAppend ==
  \A S : \A s \in Seq(S) : \A e \in S :
    UsersOf(Append(s, e)) \subseteq UsersOf(s) \cup {e.user}
<1> SUFFICES ASSUME NEW S, NEW s \in Seq(S), NEW e \in S,
                    NEW k \in DOMAIN Append(s, e)
             PROVE  Append(s, e)[k].user \in UsersOf(s) \cup {e.user}
  BY DEF UsersOf
<1>1. /\ DOMAIN Append(s, e) = 1 .. Len(s) + 1 /\ DOMAIN s = 1 .. Len(s)
      /\ Len(s) \in Nat
      /\ \A j \in 1 .. Len(s) : Append(s, e)[j] = s[j]
      /\ Append(s, e)[Len(s) + 1] = e
  OBVIOUS
<1>2. k \in DOMAIN s \/ k = Len(s) + 1
  BY <1>1
<1> QED
  BY <1>1, <1>2 DEF UsersOf

(* A request that is taken out. *)
LEMMA UsersRemove ==
  \A S : \A s \in Seq(S) : \A k \in DOMAIN s :
    UsersOf(RemoveAt(s, k)) \subseteq UsersOf(s) /\ s[k].user \in UsersOf(s)
<1> SUFFICES ASSUME NEW S, NEW s \in Seq(S), NEW k \in DOMAIN s
             PROVE  UsersOf(RemoveAt(s, k)) \subseteq UsersOf(s) /\ s[k].user \in UsersOf(s)
  OBVIOUS
<1>1. DOMAIN s = 1 .. Len(s) /\ Len(s) \in Nat /\ k \in 1 .. Len(s)
  OBVIOUS
<1> DEFINE a == SubSeq(s, 1, k - 1)
           b == SubSeq(s, k + 1, Len(s))
<1>2. /\ a \in Seq(S) /\ Len(a) = k - 1 /\ \A j \in 1 .. k - 1 : a[j] = s[j]
  BY <1>1
<1>3. /\ b \in Seq(S) /\ Len(b) = Len(s) - k /\ \A j \in 1 .. Len(s) - k : b[j] = s[k + j]
  BY <1>1
<1>4. \A j \in DOMAIN (a \o b) : \E i \in DOMAIN s : (a \o b)[j] = s[i]
  <2> HIDE DEF a, b
  <2>1. /\ DOMAIN (a \o b) = 1 .. Len(s) - 1
        /\ \A j \in 1 .. Len(s) - 1 :
             (a \o b)[j] = IF j <= k - 1 THEN a[j] ELSE b[j - (k - 1)]
    <3>1. /\ a \o b \in Seq(S)
          /\ Len(a \o b) = Len(a) + Len(b)
          /\ \A j \in 1 .. Len(a) + Len(b) :
               (a \o b)[j] = IF j <= Len(a) THEN a[j] ELSE b[j - Len(a)]
      BY <1>2, <1>3, ConcatProperties
    <3>2. Len(a) = k - 1 /\ Len(b) = Len(s) - k /\ Len(a) + Len(b) = Len(s) - 1
      BY <1>1, <1>2, <1>3
    <3>3. DOMAIN (a \o b) = 1 .. Len(a \o b)
      BY <3>1
    <3> QED
      BY <3>1, <3>2, <3>3
  <2>2. ASSUME NEW j \in 1 .. Len(s) - 1
        PROVE  \E i \in DOMAIN s : (a \o b)[j] = s[i]
    <3>1. CASE j <= k - 1
      <4>1. j \in 1 .. k - 1 /\ j \in DOMAIN s
        BY <1>1, <3>1
      <4> QED
        BY <1>2, <2>1, <3>1, <4>1
    <3>2. CASE ~(j <= k - 1)
      <4>1. /\ j - (k - 1) \in 1 .. Len(s) - k
            /\ k + (j - (k - 1)) = j + 1 /\ j + 1 \in DOMAIN s
        BY <1>1, <3>2
      <4>2. (a \o b)[j] = s[j + 1]
        BY <1>3, <2>1, <3>2, <4>1
      <4> QED
        BY <4>1, <4>2
    <3> QED
      BY <3>1, <3>2
  <2> QED
    BY <2>1, <2>2
<1> QED
  BY <1>4 DEF UsersOf, RemoveAt

-----------------------------------------------------------------------------
(* The steps of the system, once the listener has been started. *)

(* The kernel, and the executor inside io_uring_enter: requests change     *)
(* hands, always those of the same machines.                               *)
LEMMA KernelUsers ==
  ASSUME TypeOK,
         \/ EnterIssues \/ KernelAccepts \/ KernelRefuses \/ KernelReads \/ KernelFails
         \/ \E c \in Conns : KernelEnds(c)
  PROVE  Users' \subseteq Users \cup {TcpHandle}
<1>1. sq \in Seq(Sqes) /\ cq \in Seq(Cqes) /\ reads \in Seq(Reads)
  BY DEF TypeOK
<1>2. Users' = UsersOf(sq') \cup UsersOf(reads') \cup UsersOf(cq')
  BY DEF Users, UsersOf
<1>3. CASE EnterIssues
  <2> DEFINE e == Head(sq)
  <2>1. sq # << >> /\ sq' = Tail(sq) /\ e \in Sqes
    BY <1>1, <1>3, PopType DEF EnterIssues, Issue
  <2>2. UsersOf(sq') \subseteq UsersOf(sq) /\ e.user \in UsersOf(sq)
    BY <1>1, <2>1, UsersTail
  <2>3. IssueAccept \/ IssueRecv \/ IssueClose
    BY <1>3 DEF EnterIssues, Issue
  <2>4. UsersOf(cq') \subseteq UsersOf(cq) \cup {e.user}
    <3>1. \/ cq' = cq
          \/ \E res \in Int : cq' = Append(cq, Cqe(e.user, res, FALSE)) /\ e.op \in {"recv", "close"}
      <4>1. -EFAULT \in Int /\ -EBADF \in Int /\ 0 \in Int
        BY DEF EFAULT, EBADF
      <4> QED
        BY <2>3, <4>1 DEF IssueAccept, IssueRecv, IssueClose, Post
    <3>2. ASSUME NEW res \in Int, cq' = Append(cq, Cqe(e.user, res, FALSE)),
                 e.op \in {"recv", "close"}
          PROVE  UsersOf(cq') \subseteq UsersOf(cq) \cup {e.user}
      <4>1. Cqe(e.user, res, FALSE) \in Cqes /\ Cqe(e.user, res, FALSE).user = e.user
        BY <2>1, <3>2 DEF Sqes, Cqe, Cqes, AcceptMulti
      <4> DEFINE r == Cqe(e.user, res, FALSE)
      <4>2. cq \in Seq(Cqes) /\ r \in Cqes
        BY <1>1, <4>1
      <4> HIDE DEF r
      <4>3. UsersOf(Append(cq, r)) \subseteq UsersOf(cq) \cup {r.user}
        BY ONLY <4>2, UsersAppend
      <4> QED
        BY <3>2, <4>1, <4>3 DEF r
    <3> QED
      BY <3>1, <3>2
  <2>5. UsersOf(reads') \subseteq UsersOf(reads) \cup {e.user}
    <3>1. \/ reads' = reads
          \/ /\ e.op = "recv" /\ files[e.fixed] # None /\ e.fixed \in Slots
             /\ reads' = Append(reads, [user |-> e.user, conn |-> files[e.fixed],
                                        addr |-> e.addr, len |-> e.len])
      BY <2>3 DEF IssueAccept, IssueRecv, IssueClose
    <3>2. CASE /\ e.op = "recv" /\ files[e.fixed] # None /\ e.fixed \in Slots
               /\ reads' = Append(reads, [user |-> e.user, conn |-> files[e.fixed],
                                          addr |-> e.addr, len |-> e.len])
      <4> DEFINE r == [user |-> e.user, conn |-> files[e.fixed], addr |-> e.addr, len |-> e.len]
      <4>1. e \in [op : {"recv"}, user : ConnHandles, fixed : Slots, addr : Addresses,
                   len : 1 .. BufSize, buf : 0 .. NBufs - 1]
        BY <2>1, <3>2 DEF Sqes, AcceptMulti
      <4>2. r \in Reads /\ r.user = e.user
        BY <3>2, <4>1 DEF Reads, TypeOK
      <4> HIDE DEF r
      <4>3. reads' = Append(reads, r)
        BY <3>2 DEF r
      <4> QED
        BY <1>1, <4>2, <4>3, UsersAppend
    <3> QED
      BY <3>1, <3>2
  <2> HIDE DEF e
  <2> QED
    BY <1>2, <2>2, <2>4, <2>5 DEF Users
<1>4. CASE KernelAccepts \/ KernelRefuses
  <2>1. UNCHANGED <<sq, reads>>
    BY <1>4 DEF KernelAccepts, KernelRefuses, AcceptCompletes, AcceptOverflows
  <2>2. \E res \in AcceptResults : \E more \in BOOLEAN : cq' = Append(cq, Cqe(TcpHandle, res, more))
    <3>1. -ENFILE \in AcceptResults
      BY DEF ENFILE, AcceptResults
    <3>2. Slots \subseteq AcceptResults
      BY DEF Slots, AcceptResults
    <3> QED
      BY <1>4, <3>1, <3>2 DEF KernelAccepts, KernelRefuses, AcceptCompletes, AcceptOverflows, Post
  <2>3. UsersOf(cq') \subseteq UsersOf(cq) \cup {TcpHandle}
    <3>1. PICK res \in AcceptResults : \E more \in BOOLEAN :
            cq' = Append(cq, Cqe(TcpHandle, res, more))
      BY <2>2
    <3>2. PICK more \in BOOLEAN : cq' = Append(cq, Cqe(TcpHandle, res, more))
      BY <3>1
    <3>3. Cqe(TcpHandle, res, more) \in Cqes /\ Cqe(TcpHandle, res, more).user = TcpHandle
      BY DEF Cqe, Cqes
    <3> QED
      BY <1>1, <3>2, <3>3, UsersAppend
  <2> QED
    BY <1>2, <2>1, <2>3 DEF Users
<1>5. CASE KernelReads \/ KernelFails \/ \E c \in Conns : KernelEnds(c)
  <2>1. \E k \in DOMAIN reads : \E res \in Int : Completes(k, res)
    <3>1. \A n \in 1 .. BufSize : n \in Int
      OBVIOUS
    <3>2. \A errno \in RecvErrnos : -errno \in Int
      BY DEF Errnos
    <3> QED
      BY <1>5, <3>1, <3>2 DEF KernelReads, KernelFails, KernelEnds, ReadCompletes, ReadEnds,
                              ReadFails
  <2>2. PICK k \in DOMAIN reads : \E res \in Int : Completes(k, res)
    BY <2>1
  <2>3. PICK res \in Int : Completes(k, res)
    BY <2>2
  <2>4. /\ sq' = sq /\ reads' = RemoveAt(reads, k)
        /\ cq' = Append(cq, Cqe(reads[k].user, res, FALSE))
    BY <2>3 DEF Completes, Post
  <2>5. UsersOf(reads') \subseteq UsersOf(reads) /\ reads[k].user \in UsersOf(reads)
    BY <1>1, <2>4, UsersRemove
  <2>6. UsersOf(cq') \subseteq UsersOf(cq) \cup {reads[k].user}
    <3>1. reads[k] \in Reads
      BY <1>1
    <3>2. /\ Cqe(reads[k].user, res, FALSE) \in Cqes
          /\ Cqe(reads[k].user, res, FALSE).user = reads[k].user
      BY <3>1 DEF Cqe, Cqes, Reads
    <3> DEFINE cqe == Cqe(reads[k].user, res, FALSE)
    <3> HIDE DEF cqe
    <3>3. cq' = Append(cq, cqe) /\ cqe \in Cqes /\ cqe.user = reads[k].user
      BY <2>4, <3>2 DEF cqe
    <3> QED
      BY <1>1, <3>3, UsersAppend
  <2> QED
    BY <1>2, <2>4, <2>5, <2>6 DEF Users
<1> QED
  BY <1>3, <1>4, <1>5

(* The listener is up: what the steps below start from. *)
Ready == TypeOK /\ EventsInv /\ tcp_listener # "Init"

(* A failed unwrap or assertion that is not an unreachable!(). *)
LEMMA CrashFit ==
  ASSUME Ready, NEW site, site # "unreachable", Crash(site)
  PROVE  EventsInv'
<1>1. Users' = Users
  BY DEF Crash, ringVars, kernelVars, Users, UsersOf
<1> QED
  BY <1>1, QuietFit DEF Ready, Crash, loopVars, machineVars

(* An intent that is done with nothing but a request for its machine. *)
LEMMA EnqueueFit ==
  ASSUME Ready, pc = "intents", intents # << >>, Head(intents).kind # "Retry",
         NEW sqe \in Sqes, sqe.user = current, EnqueueFor(sqe)
  PROVE  EventsInv'
<1>1. CASE CanEnqueue
  <2>1. /\ sq' = Append(sq, sqe) /\ IntentDone
        /\ UNCHANGED <<io_bufs, run_queues, conn_alloc, conn_data>>
    BY <1>1, Zenon DEF EnqueueFor, Enqueue
  <2>2. /\ intents' = Tail(intents)
        /\ UNCHANGED <<panic, current, tcp_listener, cq, reads>>
    BY <2>1 DEF IntentDone, kernelVars
  <2>3. Persist
    BY <2>1, SameMachinesPersist
  <2>4. Started(current)
    BY FirstFit DEF Ready, EventsInv
  <2>5. \A h \in Users' : h \in Users \/ Started(h)'
    <3>1. UsersOf(sq') \subseteq UsersOf(sq) \cup {current}
      BY <2>1, UsersAppend DEF Ready, TypeOK
    <3>2. Users' \subseteq Users \cup {current}
      BY <2>2, <3>1 DEF Users, UsersOf
    <3>3. \A h : Started(h) => Started(h)'
      BY <2>3 DEF Persist, Started
    <3>4. ASSUME NEW h, h = current PROVE Started(h)
      BY <2>4, <3>4 DEF Started, Outdated, Resolves, Live
    <3> QED
      BY <3>2, <3>3, <3>4
  <2>6. IntentsFit'
    BY <2>2, <2>3, IntentsLeft DEF Ready, EventsInv
  <2>7. SpawnsOnce' /\ QueuedEvents' = QueuedEvents
    BY <2>1 DEF Ready, EventsInv, SpawnsOnce, IsSpawn, QueuedEvents
  <2> QED
    BY <2>2, <2>3, <2>5, <2>6, <2>7, StepFit DEF Ready, EventsInv, NoUnreachable
<1>2. CASE ~CanEnqueue
  BY <1>2, CrashFit DEF EnqueueFor
<1> QED
  BY <1>1, <1>2

(* The intents that become requests. *)
LEMMA RequestIntentsFit ==
  ASSUME Ready, CompleteAccept \/ CompleteRecv \/ CompleteClose
  PROVE  EventsInv'
<1>1. /\ TypeOK /\ pc = "intents" /\ intents # << >>
      /\ Head(intents).kind \in {"SubmitMultishotAccept", "SubmitRecv", "CloseFixed"}
  BY DEF Ready, CompleteAccept, CompleteRecv, CompleteClose, AtIntent
<1>2. CASE CompleteAccept
  <2>1. current = TcpHandle /\ EnqueueFor(AcceptMulti(current))
    BY <1>1, <1>2, IntentKinds DEF CompleteAccept, AtIntent
  <2>2. AcceptMulti(current) \in Sqes /\ AcceptMulti(current).user = current
    BY <2>1 DEF Sqes, AcceptMulti
  <2> QED
    BY <1>1, <2>1, <2>2, EnqueueFit
<1>3. CASE CompleteClose
  <2>1. /\ current \in ConnHandles /\ Head(intents) \in ConnIntents
        /\ Head(intents).kind = "CloseFixed"
        /\ EnqueueFor(CloseSqe(current, Head(intents).fixed))
    BY <1>1, <1>3, IntentKinds DEF CompleteClose, AtIntent
  <2>2. Head(intents).fixed \in Slots
    BY <2>1 DEF ConnIntents, Retry, Terminate, CloseFixed, Intent
  <2>3. /\ CloseSqe(current, Head(intents).fixed) \in Sqes
        /\ CloseSqe(current, Head(intents).fixed).user = current
    BY <2>1, <2>2 DEF CloseSqe, Sqes
  <2> QED
    BY <1>1, <2>1, <2>3, EnqueueFit
<1>4. CASE CompleteRecv
  <2> DEFINE i == Head(intents)
             sqe == ReadFixed(current, i.fixed, BufPtr(i.buf.index) + i.off,
                              BufSize - i.off, i.buf.index)
  <2>1. \/ Crash("offset assertion") \/ Crash("stale buffer")
        \/ ~(i.off >= BufSize) /\ IsValid(io_bufs, i.buf) /\ EnqueueFor(sqe)
    BY <1>4, Zenon DEF CompleteRecv
  <2>2. current \in ConnHandles /\ i \in ConnIntents /\ i.kind = "SubmitRecv"
    BY <1>1, <1>4, IntentKinds DEF CompleteRecv, AtIntent
  <2>3. i \in [kind : {"SubmitRecv"}, fixed : Slots, buf : GenId, off : Nat]
    BY <2>2 DEF ConnIntents, Retry, Terminate, CloseFixed, Intent
  <2>4. CASE ~(i.off >= BufSize) /\ IsValid(io_bufs, i.buf) /\ EnqueueFor(sqe)
    <3>1. i.off \in 0 .. BufSize - 1 /\ BufSize - i.off \in 1 .. BufSize
      BY <2>3, <2>4
    <3>2. i.buf.index \in 0 .. NBufs - 1
      BY <1>1, <2>4 DEF IsValid, TypeOK, GenAllocs
    <3>3. BufPtr(i.buf.index) + i.off \in Addresses
      BY <3>1, <3>2, BufferAddress
    <3>4. sqe \in Sqes /\ sqe.user = current
      BY <2>2, <2>3, <3>1, <3>2, <3>3 DEF ReadFixed, Sqes
    <3> HIDE DEF sqe
    <3> QED
      BY <1>1, <2>4, <3>4, EnqueueFit
  <2> QED
    BY <2>1, <2>4, CrashFit
<1> QED
  BY <1>2, <1>3, <1>4

(* The Retry intent queues the one event that starts its machine. *)
LEMMA RetryFit ==
  ASSUME Ready, CompleteRetry
  PROVE  EventsInv'
<1> DEFINE e == RunQueueEvent(Spawn, current)
<1>1. /\ TypeOK /\ pc = "intents" /\ intents # << >> /\ Head(intents).kind = "Retry"
      /\ SpawnsOnce /\ IntentsFit
  BY DEF Ready, CompleteRetry, AtIntent, EventsInv
<1>2. /\ Startable(current) /\ Tail(intents) = << >>
      /\ \A d \in QueuedEvents : IsSpawn(d) => d.handle # current
  BY <1>1, FirstFit
<1>3. current \in ConnHandles
  BY <1>1, IntentKinds
<1>4. CASE CanPush(next_run_queue_idx)
  <2>1. /\ Push(next_run_queue_idx, e) /\ IntentDone
        /\ UNCHANGED <<io_bufs, conn_alloc, conn_data, sq>>
    BY <1>4, Zenon DEF CompleteRetry
  <2>2. next_run_queue_idx \in {0, 1}
    BY <1>1 DEF next_run_queue_idx, TypeOK
  <2>3. e.handle = current /\ IsSpawn(e)
    BY DEF RunQueueEvent, IsSpawn, Spawn
  <2> HIDE DEF e
  <2>4. SpawnsOnce' /\ QueuedEvents' \subseteq QueuedEvents \cup {e}
    BY <1>1, <1>2, <2>1, <2>2, <2>3, PushEvents
  <2>5. /\ intents' = << >>
        /\ UNCHANGED <<panic, tcp_listener, cq, reads>>
    BY <1>2, <2>1 DEF IntentDone, kernelVars
  <2>6. Persist /\ Users' = Users
    BY <2>1, <2>5, SameMachinesPersist DEF Users, UsersOf
  <2>7. \A d \in QueuedEvents' :
          d \in QueuedEvents \/ (IsSpawn(d) /\ d.handle # TcpHandle /\ Startable(d.handle)')
    <3>1. SUFFICES ASSUME NEW d, d = e
                   PROVE  IsSpawn(d) /\ d.handle # TcpHandle /\ Startable(d.handle)'
      BY <2>4
    <3>2. d.handle \in ConnHandles /\ d.handle # TcpHandle
      BY <1>3, <2>3, <3>1, HandleKinds
    <3>3. Startable(d.handle)
      BY <1>2, <2>3, <3>1 DEF Startable, Outdated, Resolves, Live
    <3> QED
      BY <2>3, <2>6, <3>1, <3>2, <3>3 DEF Persist
  <2>8. IntentsFit'
    BY <2>5 DEF IntentsFit
  <2> QED
    BY <2>4, <2>5, <2>6, <2>7, <2>8, StepFit DEF Ready, EventsInv, NoUnreachable
<1>5. CASE ~CanPush(next_run_queue_idx)
  BY <1>5, CrashFit DEF CompleteRetry
<1> QED
  BY <1>4, <1>5

(* A new machine: whatever is left for its place is of an older one.       *)
LEMMA SpawnFit ==
  ASSUME Ready, CompleteSpawn
  PROVE  EventsInv'
<1> DEFINE s  == Head(intents).fixed
           id == AllocId(conn_alloc)
           h  == ObjectHandle(CONN_HANDLER, id)
           e  == RunQueueEvent(Spawn, h)
           g  == NewConnHandler(s, files[s])
<1>1. /\ TypeOK /\ pc = "intents" /\ intents # << >>
      /\ Head(intents).kind = "SpawnConnHandler"
      /\ SpawnsOnce /\ IntentsFit
  BY DEF Ready, CompleteSpawn, AtIntent, EventsInv
<1>2. CASE Crash("handler pool full") \/ Crash("handler slot taken") \/ Crash("run queue full")
  BY <1>2, CrashFit
<1>3. CASE /\ CanAlloc(conn_alloc)
           /\ conn_data[id.index] = None
           /\ conn_alloc' = AfterAlloc(conn_alloc)
           /\ conn_data' = [conn_data EXCEPT ![id.index] = g]
           /\ Push(current_run_queue, e)
           /\ IntentDone
           /\ UNCHANGED <<io_bufs, sq>>
  <2>1. /\ id \in [index : 0 .. NHandlers - 1, generation : 0 .. GenSpan - 1]
        /\ id.generation = conn_alloc.generation[id.index]
    <3>1. id.generation = conn_alloc.generation[id.index]
      BY DEF AllocId
    <3> QED
      BY <1>1, <1>3, <3>1, AllocType DEF TypeOK
  <2>2. /\ h \in ConnHandles /\ h.index = id.index
        /\ h.generation = conn_alloc.generation[h.index]
    BY <2>1 DEF ObjectHandle, ConnHandles
  <2>3. conn_alloc'.generation = conn_alloc.generation
    BY <1>3 DEF AfterAlloc
  <2>4. g \in ConnHandlers /\ g.state = "Init"
    <3>1. s \in Slots
      <4>1. Head(intents) \in TcpIntents
        BY <1>1, IntentKinds
      <4> QED
        BY <1>1, <4>1 DEF TcpIntents, SubmitMultishotAccept, SpawnConnHandler, Intent
    <3> QED
      BY <1>1, <3>1 DEF NewConnHandler, ConnHandlers, Machines, TypeOK
  <2>5. e.handle = h /\ IsSpawn(e)
    BY DEF RunQueueEvent, IsSpawn, Spawn
  <2> HIDE DEF id, g, h, e
  <2>6. /\ conn_data'[h.index] = g
        /\ \A j \in (0 .. NHandlers - 1) \ {h.index} : conn_data'[j] = conn_data[j]
    BY <1>1, <1>3, <2>1, <2>2 DEF TypeOK
  <2>7. \A t \in ConnHandles : t.index = h.index => ~Resolves(t)
    BY <1>3, <2>2 DEF Resolves, Live
  <2>8. Persist
    <3>1. SUFFICES ASSUME NEW t \in ConnHandles
                   PROVE  (Started(t) => Started(t)') /\ (Startable(t) => Startable(t)')
      BY DEF Persist
    <3>2. t.index \in 0 .. NHandlers - 1
      BY DEF ConnHandles
    <3>3. CASE t.index = h.index
      BY <2>3, <2>7, <3>3 DEF Started, Startable, Outdated
    <3>4. CASE t.index # h.index
      <4>1. conn_data'[t.index] = conn_data[t.index]
        BY <2>6, <3>2, <3>4
      <4> QED
        BY <2>3, <4>1 DEF Started, Startable, Outdated, Resolves, Live
    <3> QED
      BY <3>3, <3>4
  <2>9. /\ h.generation = conn_alloc'.generation[h.index]
        /\ conn_data'[h.index] # None /\ conn_data'[h.index].state = "Init"
    BY <2>2, <2>3, <2>4, <2>6, MachineAssumption
  <2>10. \A d \in QueuedEvents : IsSpawn(d) => d.handle # h
    <3>1. SUFFICES ASSUME NEW d \in QueuedEvents, IsSpawn(d), d.handle = h PROVE FALSE
      OBVIOUS
    <3>2. Startable(d.handle)
      BY <3>1 DEF Ready, EventsInv, EventsFit
    <3>3. d.handle \in ConnHandles /\ ~Resolves(d.handle)
      BY <2>2, <2>7, <3>1
    <3>4. conn_alloc.generation[h.index] \in Int
      <4>1. h.index \in 0 .. NHandlers - 1
        BY <2>2 DEF ConnHandles
      <4> QED
        BY <1>1, <4>1, GenerationType
    <3>5. ~Outdated(d.handle)
      BY <2>2, <3>1, <3>4 DEF Outdated
    <3> QED
      BY <3>2, <3>3, <3>5 DEF Startable
  <2>11. SpawnsOnce' /\ QueuedEvents' \subseteq QueuedEvents \cup {e}
    BY <1>1, <1>3, <2>5, <2>10, PushEvents DEF TypeOK
  <2>12. /\ intents' = Tail(intents)
         /\ UNCHANGED <<panic, current, tcp_listener, cq, reads>>
    BY <1>3 DEF IntentDone, kernelVars
  <2>13. Users' = Users
    BY <1>3, <2>12 DEF Users, UsersOf
  <2>14. \A d \in QueuedEvents' :
           d \in QueuedEvents \/ (IsSpawn(d) /\ d.handle # TcpHandle /\ Startable(d.handle)')
    <3>1. SUFFICES ASSUME NEW d, d = e
                   PROVE  IsSpawn(d) /\ d.handle # TcpHandle /\ Startable(d.handle)'
      BY <2>11
    <3>2. d.handle = h /\ d.handle \in ConnHandles /\ d.handle # TcpHandle
      BY <2>2, <2>5, <3>1, HandleKinds
    <3> QED
      BY <2>5, <2>9, <3>1, <3>2 DEF Startable, Outdated, Resolves, Live
  <2>15. IntentsFit'
    BY <1>1, <2>8, <2>12, IntentsLeft
  <2> QED
    BY <2>8, <2>11, <2>12, <2>13, <2>14, <2>15, StepFit DEF Ready, EventsInv, NoUnreachable
<1> QED
  BY <1>2, <1>3, Zenon DEF CompleteSpawn

(* A machine that is gone: whatever is left for it is outdated from now on,*)
(* because the increment that would wrap panics.                           *)
LEMMA TerminateFit ==
  ASSUME Ready, OverflowChecks, CompleteTerminate
  PROVE  EventsInv'
<1>1. /\ TypeOK /\ pc = "intents" /\ intents # << >> /\ Head(intents).kind = "Terminate"
      /\ IntentsFit
  BY DEF Ready, CompleteTerminate, AtIntent, EventsInv
<1>2. CASE FreePanics(conn_alloc, current)
  BY <1>2, CrashFit DEF CompleteTerminate
<1>3. CASE ~FreePanics(conn_alloc, current)
  <2>1. /\ conn_alloc' = AfterFree(conn_alloc, current)
        /\ conn_data' = IF IsValid(conn_alloc, current)
                        THEN [conn_data EXCEPT ![current.index] = None] ELSE conn_data
        /\ IntentDone /\ UNCHANGED <<io_bufs, run_queues, sq>>
    BY <1>3, Zenon DEF CompleteTerminate
  <2>2. Persist
    <3>1. CASE ~IsValid(conn_alloc, current)
      BY <2>1, <3>1, SameMachinesPersist DEF AfterFree
    <3>2. CASE IsValid(conn_alloc, current)
      <4> DEFINE gens == conn_alloc.generation
                 b    == current.index
      <4>1. /\ gens \in [0 .. NHandlers - 1 -> 0 .. GenSpan - 1]
            /\ conn_data \in [0 .. NHandlers - 1 -> ConnHandlers \cup {None}]
            /\ b \in 0 .. NHandlers - 1
        BY <1>1, <3>2 DEF TypeOK, GenAllocs, IsValid
      <4>2. gens[b] # GenSpan - 1
        BY <1>3, <3>2, Zenon DEF FreePanics, Overflows
      <4>3. /\ conn_alloc'.generation = [gens EXCEPT ![b] = NextGeneration(gens[b])]
            /\ conn_data' = [conn_data EXCEPT ![b] = None]
        BY <2>1, <3>2 DEF AfterFree
      <4> HIDE DEF gens, b
      <4>4. NextGeneration(gens[b]) = gens[b] + 1
        BY <4>1, <4>2, NewerGeneration
      <4>5. SUFFICES ASSUME NEW t \in ConnHandles
                     PROVE  (Started(t) => Started(t)') /\ (Startable(t) => Startable(t)')
        BY DEF Persist
      <4>6. t.index \in 0 .. NHandlers - 1 /\ t.generation \in Nat
        BY DEF ConnHandles
      <4>7. CASE t.index = b
        <5>1. conn_alloc'.generation[t.index] = gens[b] + 1 /\ gens[b] \in Int
          BY <4>1, <4>3, <4>4, <4>7
        <5>2. (Outdated(t) \/ Resolves(t)) => t.generation < gens[b] + 1
          BY <4>6, <4>7, <5>1 DEF Outdated, Resolves, gens
        <5>3. (Outdated(t) \/ Resolves(t)) => Outdated(t)'
          BY <5>1, <5>2 DEF Outdated
        <5> QED
          BY <5>3 DEF Started, Startable
      <4>8. CASE t.index # b
        <5>1. /\ conn_alloc'.generation[t.index] = conn_alloc.generation[t.index]
              /\ conn_data'[t.index] = conn_data[t.index]
          BY <4>1, <4>3, <4>6, <4>8 DEF gens
        <5> QED
          BY <5>1 DEF Started, Startable, Outdated, Resolves, Live
      <4> QED
        BY <4>7, <4>8
    <3> QED
      BY <3>1, <3>2
  <2>3. /\ intents' = Tail(intents)
        /\ UNCHANGED <<panic, current, tcp_listener, cq, reads>>
    BY <2>1 DEF IntentDone, kernelVars
  <2>4. IntentsFit'
    BY <1>1, <2>2, <2>3, IntentsLeft
  <2>5. Users' = Users /\ SpawnsOnce' /\ QueuedEvents' = QueuedEvents
    BY <2>1, <2>3 DEF Ready, EventsInv, Users, UsersOf, SpawnsOnce, IsSpawn, QueuedEvents
  <2> QED
    BY <2>2, <2>3, <2>4, <2>5, StepFit DEF Ready, EventsInv, NoUnreachable
<1> QED
  BY <1>2, <1>3

(* A completion becomes an event of the machine that it is for. *)
LEMMA ReapFit ==
  ASSUME Ready, Reap
  PROVE  EventsInv'
<1> DEFINE c == Head(cq)
           e == RunQueueEvent(IoCompleted(c.res, c.more), c.user)
<1>1. /\ TypeOK /\ cq # << >> /\ cq \in Seq(Cqes) /\ intents = << >> /\ SpawnsOnce
  BY DEF Ready, Reap, At, TypeOK, EventsInv
<1>2. CASE CanPush(next_run_queue_idx)
  <2>1. /\ Push(next_run_queue_idx, e) /\ cq' = Tail(cq)
        /\ UNCHANGED <<contextVars, current_run_queue, current, pc, machineVars, sq, kernelVars>>
    BY <1>2, Zenon DEF Reap
  <2>2. next_run_queue_idx \in {0, 1}
    BY <1>1 DEF next_run_queue_idx, TypeOK
  <2>3. e.handle = c.user /\ ~IsSpawn(e)
    BY DEF RunQueueEvent, IsSpawn, IoCompleted
  <2>4. UsersOf(cq') \subseteq UsersOf(cq) /\ c.user \in UsersOf(cq)
    BY <1>1, <2>1, UsersTail
  <2> HIDE DEF e, c
  <2>5. SpawnsOnce' /\ QueuedEvents' \subseteq QueuedEvents \cup {e}
    BY <1>1, <2>1, <2>2, <2>3, PushEvents
  <2>6. UNCHANGED <<intents, panic, sq, reads, conn_alloc, conn_data, tcp_listener>>
    BY <2>1 DEF contextVars, machineVars, kernelVars
  <2>7. Persist /\ Users' \subseteq Users
    BY <2>4, <2>6, SameMachinesPersist DEF Users, UsersOf
  <2>8. Started(c.user)
    BY <2>4 DEF Users, Ready, EventsInv, RequestsFit
  <2>9. \A d \in QueuedEvents' : d \in QueuedEvents \/ (~IsSpawn(d) /\ Started(d.handle)')
    <3>1. SUFFICES ASSUME NEW d, d = e
                   PROVE  ~IsSpawn(d) /\ Started(d.handle)'
      BY <2>5
    <3>2. Started(d.handle)
      BY <2>3, <2>8, <3>1 DEF Started, Outdated, Resolves, Live
    <3> QED
      BY <2>3, <2>7, <3>1, <3>2 DEF Persist, Started
  <2>10. IntentsFit'
    BY <1>1, <2>6 DEF IntentsFit
  <2> QED
    BY <2>5, <2>6, <2>7, <2>9, <2>10, StepFit DEF Ready, EventsInv, NoUnreachable
<1>3. CASE ~CanPush(next_run_queue_idx)
  BY <1>3, CrashFit DEF Reap
<1> QED
  BY <1>2, <1>3

(* An event for the listener, which waits for completions only. *)
LEMMA DispatchTcpFit ==
  ASSUME Ready, DispatchTcp
  PROVE  EventsInv'
<1> DEFINE e == NextEvent.reason
<1>1. /\ TypeOK /\ Pop /\ SpawnsOnce /\ panic # "unreachable"
      /\ NextEvent.handle.pool = TCP_SERVER
      /\ TcpProcessEvent(e) /\ conn_data' = conn_data
  BY DEF Ready, DispatchTcp, EventsInv, NoUnreachable
<1>2. /\ SpawnsOnce' /\ QueuedEvents' \subseteq QueuedEvents /\ NextEvent \in QueuedEvents
  BY <1>1, PopEvents
<1>3. /\ NextEvent.handle = TcpHandle /\ current' = TcpHandle /\ e \in Events(AcceptResults)
      /\ UNCHANGED <<conn_alloc, ringVars, kernelVars>>
  BY <1>1, PopEventType, EventKinds
<1>4. e.kind = "IoCompleted"
  <2>1. ~IsSpawn(NextEvent)
    BY <1>2, <1>3 DEF Ready, EventsInv, ListenerStartsOnce
  <2> QED
    BY <1>3, <2>1 DEF IsSpawn, Events
<1>5. /\ tcp_listener \in {"Accepting", "Error"}
  BY DEF Ready, TypeOK, TcpServerStates
<1>6. /\ panic' # "unreachable" /\ tcp_listener' # "Init"
      /\ \A k \in DOMAIN intents' : intents'[k].kind # "Retry"
  <2>1. CASE OnAccepted(e.res, e.more)
    <3>1. \/ intents' = <<SpawnConnHandler(e.res)>> \o << >>
          \/ intents' = <<SpawnConnHandler(e.res)>> \o <<SubmitMultishotAccept>>
      BY <2>1 DEF OnAccepted
    <3>2. \/ intents' = <<SpawnConnHandler(e.res)>>
          \/ intents' = <<SpawnConnHandler(e.res), SubmitMultishotAccept>>
      BY <3>1
    <3>3. \A k \in DOMAIN intents' : intents'[k].kind # "Retry"
      BY <3>2, IntentKindsOf
    <3> QED
      BY <1>1, <1>5, <2>1, <3>3 DEF OnAccepted
  <2>2. CASE OnAcceptErr(e.res)
    BY <1>1, <2>2 DEF OnAcceptErr
  <2>3. CASE OnTcpUnexpected(e) /\ ~TcpExpects(e)
    BY <1>1, <1>4, <1>5, <2>3 DEF OnTcpUnexpected, TcpExpects
  <2> QED
    BY <1>1, <1>5, <2>1, <2>2, <2>3 DEF TcpProcessEvent, OnListen
<1>7. Persist /\ Users' = Users
  BY <1>1, <1>3, SameMachinesPersist DEF ringVars, kernelVars, Users, UsersOf
<1>8. IntentsFit'
  <2>1. Started(current)'
    BY <1>3, HandleKinds DEF Started
  <2> QED
    BY <1>6, <2>1 DEF IntentsFit
<1> QED
  BY <1>2, <1>6, <1>7, <1>8, StepFit DEF Ready

(* An event for a machine that is there is one that it waits for. *)
LEMMA DispatchConnFit ==
  ASSUME Ready, DispatchConn
  PROVE  EventsInv'
<1>1. /\ TypeOK /\ Pop /\ SpawnsOnce /\ panic # "unreachable" /\ tcp_listener # "Init"
      /\ NextEvent.handle.pool = CONN_HANDLER /\ Finds(NextEvent.handle)
      /\ ConnProcessEvent(NextEvent.handle.index, NextEvent.reason)
      /\ tcp_listener' = tcp_listener
  BY DEF Ready, DispatchConn, EventsInv, NoUnreachable
<1>2. /\ NextEvent.handle \in ConnHandles /\ NextEvent.reason \in Events(Int)
      /\ intents = << >> /\ current' = NextEvent.handle
      /\ UNCHANGED <<conn_alloc, ringVars, kernelVars>>
  BY <1>1, PopEventType, EventKinds
<1>3. /\ SpawnsOnce' /\ QueuedEvents' \subseteq QueuedEvents /\ NextEvent \in QueuedEvents
      /\ IsSpawn(NextEvent) =>
           \A e \in QueuedEvents' : IsSpawn(e) => e.handle # NextEvent.handle
  BY <1>1, PopEvents
<1>4. PICK h \in ConnHandles : h = NextEvent.handle
  BY <1>2
<1>5. PICK event \in Events(Int) : event = NextEvent.reason
  BY <1>2
<1> DEFINE i == h.index
<1>6. i \in 0 .. NHandlers - 1
  BY DEF ConnHandles
<1>7. Resolves(h) /\ ~Outdated(h) /\ conn_data[i] # None
  <2>1. conn_alloc.generation[h.index] \in Int
    BY <1>1, <1>6, GenerationType
  <2> QED
    BY <1>1, <1>4, <2>1 DEF Finds, IsValid, Resolves, Outdated, Live
<1>8. event.kind = "Spawn" <=> conn_data[i].state = "Init"
  <2>1. IF IsSpawn(NextEvent) THEN Startable(NextEvent.handle) ELSE Started(NextEvent.handle)
    BY <1>3 DEF Ready, EventsInv, EventsFit
  <2>2. IF event.kind = "Spawn" THEN Startable(h) ELSE Started(h)
    BY <1>4, <1>5, <2>1 DEF IsSpawn, Startable, Started, Outdated, Resolves, Live
  <2> QED
    BY <1>7, <2>2 DEF Startable, Started
<1>9. conn_data[i] \in ConnHandlers
  BY <1>1, <1>6, <1>7 DEF TypeOK
<1>10. ConnProcessEvent(i, event)
  <2>1. ConnProcessEvent(NextEvent.handle.index, NextEvent.reason)
    BY <1>1
  <2> QED
    BY <1>4, <1>5, <2>1
<1>11. /\ panic' # "unreachable"
       /\ \A j \in (0 .. NHandlers - 1) \ {i} : conn_data'[j] = conn_data[j]
       /\ \/ /\ conn_data[i].state = "Init" /\ conn_data' = conn_data
             /\ intents' = <<Retry>>
          \/ /\ conn_data'[i] # None /\ conn_data'[i].state # "Init"
             /\ \A k \in DOMAIN intents' : intents'[k].kind # "Retry"
  BY <1>1, <1>2, <1>6, <1>8, <1>9, <1>10, ArmFit
<1>12. Users' = Users
  BY <1>2 DEF ringVars, kernelVars, Users, UsersOf
<1>13. CASE conn_data[i].state = "Init" /\ conn_data' = conn_data /\ intents' = <<Retry>>
  <2>1. Persist
    BY <1>2, <1>13, SameMachinesPersist
  <2>2. IsSpawn(NextEvent) /\ Startable(h)
    BY <1>5, <1>7, <1>8, <1>13 DEF IsSpawn, Startable
  <2>3. IntentsFit'
    <3>1. DOMAIN intents' = {1} /\ Len(intents') = 1 /\ intents'[1].kind = "Retry"
      BY <1>13, IntentKindsOf
    <3>2. Startable(h)'
      BY <2>1, <2>2 DEF Persist
    <3>3. Startable(current)'
      BY <1>2, <1>4, <3>2 DEF Startable, Outdated, Resolves, Live
    <3>4. \A e \in QueuedEvents' : IsSpawn(e) => e.handle # current'
      BY <1>2, <1>3, <2>2
    <3> QED
      BY <3>1, <3>3, <3>4 DEF IntentsFit, IsSpawn
  <2> QED
    BY <1>1, <1>3, <1>11, <1>12, <2>1, <2>3, StepFit DEF Ready
<1>14. CASE /\ conn_data'[i] # None /\ conn_data'[i].state # "Init"
            /\ \A k \in DOMAIN intents' : intents'[k].kind # "Retry"
  <2>1. ASSUME NEW t, t \in ConnHandles => t.index # i
        PROVE  (Started(t) => Started(t)') /\ (Startable(t) => Startable(t)')
    <3>1. CASE t \in ConnHandles
      <4>1. t.index \in (0 .. NHandlers - 1) \ {i}
        BY <2>1, <3>1 DEF ConnHandles
      <4>2. conn_data'[t.index] = conn_data[t.index]
        BY <1>11, <4>1
      <4> QED
        BY <1>2, <4>2 DEF Started, Startable, Outdated, Resolves, Live
    <3>2. CASE t \notin ConnHandles
      BY <3>2 DEF Started, Startable
    <3> QED
      BY <3>1, <3>2
  <2>2. ASSUME NEW t, Started(t) PROVE Started(t)'
    <3>1. CASE t \in ConnHandles /\ t.index = i
      BY <1>2, <1>14, <2>2, <3>1 DEF Started, Outdated, Resolves, Live
    <3> QED
      BY <2>1, <2>2, <3>1
  <2>3. RequestsFit'
    BY <1>12, <2>2 DEF Ready, EventsInv, RequestsFit
  <2>4. EventsFit'
    <3>1. SUFFICES ASSUME NEW e \in QueuedEvents'
                   PROVE  IF IsSpawn(e) THEN Startable(e.handle)' ELSE Started(e.handle)'
      BY DEF EventsFit, IsSpawn
    <3>2. IF IsSpawn(e) THEN Startable(e.handle) ELSE Started(e.handle)
      BY <1>3 DEF Ready, EventsInv, EventsFit
    <3>3. CASE ~IsSpawn(e)
      BY <2>2, <3>2, <3>3
    <3>4. CASE IsSpawn(e) /\ e.handle \in ConnHandles /\ e.handle.index = i
      <4>1. CASE Outdated(e.handle)
        BY <1>2, <3>4, <4>1 DEF Startable, Outdated
      <4>2. CASE ~Outdated(e.handle)
        <5>1. Resolves(e.handle) /\ conn_data[i].state = "Init"
          BY <3>2, <3>4, <4>2 DEF Startable
        <5>2. e.handle = h
          BY <1>7, <3>4, <5>1 DEF Resolves, ConnHandles
        <5>3. IsSpawn(NextEvent)
          BY <1>5, <1>8, <5>1 DEF IsSpawn
        <5> QED
          BY <1>3, <1>4, <3>4, <5>2, <5>3
      <4> QED
        BY <4>1, <4>2
    <3>5. CASE IsSpawn(e) /\ (e.handle \in ConnHandles => e.handle.index # i)
      BY <2>1, <3>2, <3>5
    <3> QED
      BY <3>3, <3>4, <3>5
  <2>5. IntentsFit'
    <3>1. Started(current)'
      BY <1>2, <1>4, <1>7, <1>14 DEF Started, Outdated, Resolves, Live
    <3> QED
      BY <1>14, <3>1 DEF IntentsFit
  <2>6. ListenerStartsOnce'
    BY <1>1, <1>3 DEF Ready, EventsInv, ListenerStartsOnce, IsSpawn
  <2> QED
    BY <1>3, <1>11, <2>3, <2>4, <2>5, <2>6 DEF EventsInv, NoUnreachable
<1> QED
  BY <1>11, <1>13, <1>14

(* An event whose machine is gone is dropped. *)
LEMMA DispatchMissingFit ==
  ASSUME Ready, DispatchMissing
  PROVE  EventsInv'
<1>1. /\ TypeOK /\ Pop /\ SpawnsOnce /\ panic # "unreachable" /\ intents' = << >>
      /\ UNCHANGED <<panic, conn_data, tcp_listener>>
  BY DEF Ready, DispatchMissing, EventsInv, NoUnreachable
<1>2. SpawnsOnce' /\ QueuedEvents' \subseteq QueuedEvents
  BY <1>1, PopEvents
<1>3. UNCHANGED <<conn_alloc, ringVars, kernelVars>>
  BY <1>1, PopEventType
<1>4. Persist /\ Users' = Users
  BY <1>1, <1>3, SameMachinesPersist DEF ringVars, kernelVars, Users, UsersOf
<1>5. IntentsFit'
  BY <1>1 DEF IntentsFit
<1> QED
  BY <1>1, <1>2, <1>4, <1>5, StepFit DEF Ready

(* Steps that only move the thread. *)
LEMMA MovesFit ==
  ASSUME Ready,
         \/ DrainDone \/ IntentsDone \/ SubmitShortcut \/ SubmitEnter
         \/ EnterReturns \/ ReapDone
  PROVE  EventsInv'
<1>1. UNCHANGED <<contextVars, run_queues, machineVars, ringVars, kernelVars>>
  BY Zenon DEF DrainDone, IntentsDone, SubmitShortcut, SubmitEnter, EnterReturns, ReapDone
<1>2. intents = << >>
  BY DEF Ready, DrainDone, IntentsDone, SubmitShortcut, SubmitEnter, EnterReturns, ReapDone,
         At, TypeOK
<1>3. Users' = Users
  BY <1>1 DEF ringVars, kernelVars, Users, UsersOf
<1> QED
  BY <1>1, <1>2, <1>3, QuietFit DEF Ready, EventsInv, NoUnreachable, contextVars, machineVars

(* Steps of the kernel. *)
LEMMA KernelFit ==
  ASSUME Ready,
         \/ EnterIssues \/ KernelAccepts \/ KernelRefuses \/ KernelReads \/ KernelFails
         \/ \E c \in Conns : KernelEnds(c)
  PROVE  EventsInv'
<1>1. UNCHANGED <<intents, panic, loopVars, machineVars>>
  BY DEF EnterIssues, KernelAccepts, KernelRefuses, KernelReads, KernelFails, KernelEnds,
         ProgramUnchanged, contextVars
<1>2. Users' \subseteq Users \cup {TcpHandle}
  BY KernelUsers DEF Ready
<1> QED
  BY <1>1, <1>2, QuietFit DEF Ready, EventsInv, NoUnreachable, loopVars, machineVars

(* Every step once the listener is up. *)
LEMMA ReadyFit ==
  ASSUME OverflowChecks, Ready, Next
  PROVE  EventsInv'
<1>1. CASE EnterError
  BY <1>1, CrashFit DEF EnterError
<1> QED
  BY <1>1, DispatchTcpFit, DispatchConnFit, DispatchMissingFit, MovesFit, KernelFit,
     RequestIntentsFit, RetryFit, SpawnFit, TerminateFit, ReapFit, Zenon DEF Next, Thread

-----------------------------------------------------------------------------
(* Before the listener is up there is one thing to do: to start it. *)
LEMMA FirstStep ==
  ASSUME TypeOK, EventsInv, tcp_listener = "Init", Next
  PROVE  EventsInv'
<1>1. /\ pc = "drain" /\ current_run_queue = 0 /\ intents = << >>
      /\ run_queues[0] = <<RunQueueEvent(Spawn, TcpHandle)>> /\ run_queues[1] = << >>
      /\ sq = << >> /\ cq = << >> /\ reads = << >> /\ accepts = 0
      /\ panic # "unreachable"
  BY DEF EventsInv, ListenerStartsOnce, Seeded, NoUnreachable
<1>2. /\ NextEvent = RunQueueEvent(Spawn, TcpHandle)
      /\ NextEvent.handle = TcpHandle /\ NextEvent.reason = Spawn
      /\ run_queues[current_run_queue] # << >>
  BY <1>1 DEF NextEvent, RunQueueEvent
<1>3. DOMAIN reads = {}
  BY <1>1
<1>4. DispatchTcp
  <2>1. ~ (\/ KernelAccepts \/ KernelRefuses \/ KernelReads \/ KernelFails
           \/ \E c \in Conns : KernelEnds(c))
    BY <1>1, <1>3 DEF KernelAccepts, KernelRefuses, KernelReads, KernelFails, KernelEnds,
                      AcceptCompletes, AcceptOverflows
  <2>2. ~DispatchConn /\ ~DispatchMissing
    BY <1>2, HandleKinds DEF DispatchConn, DispatchMissing
  <2>3. ~DrainDone
    BY <1>1, <1>2 DEF DrainDone
  <2>4. /\ ~CompleteRetry /\ ~CompleteAccept /\ ~CompleteSpawn /\ ~CompleteRecv
        /\ ~CompleteClose /\ ~CompleteTerminate /\ ~IntentsDone
    BY <1>1 DEF CompleteRetry, CompleteAccept, CompleteSpawn, CompleteRecv, CompleteClose,
                CompleteTerminate, IntentsDone, AtIntent
  <2>5. /\ ~SubmitShortcut /\ ~SubmitEnter /\ ~EnterIssues /\ ~EnterReturns
        /\ ~EnterError /\ ~Reap /\ ~ReapDone
    BY <1>1 DEF SubmitShortcut, SubmitEnter, EnterIssues, EnterReturns, EnterError, Reap,
                ReapDone, At
  <2> QED
    BY <2>1, <2>2, <2>3, <2>4, <2>5, Zenon DEF Next, Thread
<1>5. OnListen
  <2>1. TcpExpects(Spawn)
    BY DEF TcpExpects, Spawn
  <2>2. TcpProcessEvent(Spawn)
    BY <1>2, <1>4 DEF DispatchTcp
  <2> QED
    BY <2>1, <2>2 DEF TcpProcessEvent, OnAccepted, OnAcceptErr
<1>6. /\ Pop /\ current' = TcpHandle /\ UNCHANGED <<ringVars, kernelVars>>
      /\ run_queues' = [run_queues EXCEPT ![0] = Tail(run_queues[0])]
  BY <1>1, <1>2, <1>4 DEF DispatchTcp, Pop
<1>7. run_queues'[0] = << >> /\ run_queues'[1] = << >>
  BY <1>1, <1>6 DEF TypeOK
<1>8. QueuedEvents' = {} /\ Users' = {}
  BY <1>1, <1>6, <1>7 DEF QueuedEvents, Users, UsersOf, ringVars, kernelVars
<1>9. SpawnsOnce'
  BY <1>7 DEF SpawnsOnce
<1>10. IntentsFit'
  <2>1. Started(current)'
    BY <1>6, HandleKinds DEF Started
  <2>2. \A k \in DOMAIN intents' : intents'[k].kind # "Retry"
    BY <1>5, IntentKindsOf DEF OnListen
  <2> QED
    BY <2>1, <2>2 DEF IntentsFit
<1>11. tcp_listener' # "Init" /\ panic' # "unreachable"
  BY <1>1, <1>5 DEF OnListen
<1> QED
  BY <1>8, <1>9, <1>10, <1>11
     DEF EventsInv, RequestsFit, EventsFit, ListenerStartsOnce, NoUnreachable

(* A step that changes nothing. *)
LEMMA StutterFit == EventsInv /\ UNCHANGED vars => EventsInv'
BY DEF vars, contextVars, loopVars, machineVars, ringVars, kernelVars,
       EventsInv, RequestsFit, EventsFit, IntentsFit, SpawnsOnce, ListenerStartsOnce, Seeded,
       NoUnreachable, Users, UsersOf, QueuedEvents, IsSpawn, Started, Startable, Outdated,
       Resolves, Live

(* Nothing has been started or asked for but the listener. *)
LEMMA InitFit == Init => EventsInv
<1> SUFFICES ASSUME Init PROVE EventsInv
  OBVIOUS
<1>1. Seeded /\ tcp_listener = "Init" /\ panic = "no"
  BY DEF Init, UringInit, Seeded
<1>2. Users = {} /\ \A e \in QueuedEvents : e = RunQueueEvent(Spawn, TcpHandle)
  BY <1>1 DEF Seeded, Users, UsersOf, QueuedEvents
<1>3. EventsFit
  BY <1>2, ListenerFit DEF EventsFit, IsSpawn, RunQueueEvent, Spawn
<1>4. SpawnsOnce
  BY <1>1 DEF Seeded, SpawnsOnce
<1> QED
  BY <1>1, <1>2, <1>3, <1>4
     DEF EventsInv, RequestsFit, IntentsFit, Seeded, ListenerStartsOnce, NoUnreachable

(* Where arithmetic is checked, no machine ever meets an event that it has *)
(* no arm for, whatever errors reads complete with and however late their  *)
(* completions come (conn_handler.rs:52, tcp_server.rs:40 and 58): a       *)
(* machine is started by one event, its Retry is the only other way to     *)
(* start it, and what is left of a machine that is gone carries an older   *)
(* generation than its successor's (executor/mod.rs:125-151, 184).         *)
THEOREM ExecNoUnreachable ==
  ASSUME OverflowChecks
  PROVE  Spec => []NoUnreachable
<1>1. Init => TypeOK /\ EventsInv
  BY InitTypeOK, InitFit
<1>2. TypeOK /\ EventsInv /\ [Next]_vars => (TypeOK /\ EventsInv)'
  BY NextTypeOK, FirstStep, ReadyFit, StutterFit DEF Ready
<1>3. EventsInv => NoUnreachable
  BY DEF EventsInv
<1> QED
  BY <1>1, <1>2, <1>3, PTL DEF Spec
=============================================================================
