---------------------------- MODULE ConnHandler -----------------------------
(***************************************************************************)
(* The per-connection state machine of                                     *)
(* hoarder-blob/src/state_machine/conn_handler.rs.  conn_data is the data  *)
(* array of the ObjectPool<ConnHandler>; the actions below are the arms of *)
(* ConnHandler::process_event for the machine at index i, with everything  *)
(* the arm's helpers (close, recv, handle_io_error) do.                    *)
(***************************************************************************)
EXTENDS ExecutorProtocol

VARIABLE conn_data

(* ConnHandler.  phase and header are the RecvPhase inside Recv(_); peer   *)
(* is a history field: the connection that was in the file slot when the   *)
(* machine was created.                                                    *)
Machines(states, buf_handles) ==
  [state      : states,
   phase      : {"ReceivingHeader", "ReceivingBody"},
   header     : [0 .. HdrSize - 1 -> Bytes] \cup {None},
   socket     : Slots,
   buf_handle : buf_handles,
   offset     : Nat,
   peer       : Conns \cup {None}]

(* buf_handle() unwraps unchecked: past Init there has to be a handle. *)
ConnHandlers ==
  Machines({"Init"}, {None}) \cup Machines({"Recv", "Closing", "Closed"}, GenId)

(* An empty place of the pool's data array is told from a machine. *)
ASSUME MachineAssumption == None \notin ConnHandlers

NewConnHandler(s, c) ==
  [state |-> "Init", phase |-> "ReceivingHeader", header |-> None,
   socket |-> s, buf_handle |-> None, offset |-> 0, peer |-> c]

(* Faulty list, for the mutants: EHOSTUNREACH is retried as well. *)
MoreRetryErrnos == {EINTR, EAGAIN, ENOBUFS, ENOMEM, ETIMEDOUT, EHOSTUNREACH}

(* The arms of handle_io_error. *)
RetryErrnos == {EINTR, EAGAIN, ENOBUFS, ENOMEM, ETIMEDOUT}

FatalErrnos == {EBADF, EFAULT, EINVAL, ENOTSOCK, EAFNOSUPPORT, EOPNOTSUPP}

CloseErrnos == {EIO, ECONNRESET, ENOTCONN, ESHUTDOWN, ECONNABORTED,
                ENETDOWN, ENETUNREACH, ENETRESET}

(* Faulty recv(), for the mutants: what was read before is overwritten. *)
RecvFromStart(h) == SubmitRecv(h.socket, h.buf_handle, 0)

(* recv(): the intent a machine submits to read more. *)
Recv(h) == SubmitRecv(h.socket, h.buf_handle, h.offset)

(* close(): the machine and the buffer pool after it; the CloseFixed       *)
(* intent is the caller's.  buf_handle keeps the freed handle.  The free   *)
(* of a buffer's last generation panics in a debug build.                  *)
Closing(h) == [h EXCEPT !.state = "Closing", !.offset = 0]

(* Faulty close(), for the mutants: the buffer is not given back. *)
LeakBuf(h) == io_bufs

FreeBuf(h) ==
  IF h.buf_handle = None THEN io_bufs ELSE AfterFree(io_bufs, h.buf_handle)

ClosePanics(h) == h.buf_handle # None /\ FreePanics(io_bufs, h.buf_handle)

Close(i) ==
  IF ClosePanics(conn_data[i])
  THEN /\ panic' = "generation overflow"
       /\ UNCHANGED <<conn_data, io_bufs>>
  ELSE /\ conn_data' = [conn_data EXCEPT ![i] = Closing(@)]
       /\ io_bufs' = FreeBuf(conn_data[i])
       /\ UNCHANGED panic

-----------------------------------------------------------------------------
(* Faulty on_init, for the mutants: the machine does not keep its handle. *)
OnInitForgetsHandle(i) ==
  /\ conn_data[i].state = "Init"
  /\ CanAlloc(io_bufs)
  /\ conn_data' = [conn_data EXCEPT ![i].state = "Recv"]
  /\ io_bufs' = AfterAlloc(io_bufs)
  /\ intents' = <<Recv(conn_data[i])>>
  /\ UNCHANGED <<mem, panic>>

(* Faulty on_init, for the mutants: no retry when there is no buffer. *)
OnInitGivesUp(i) ==
  /\ conn_data[i].state = "Init"
  /\ IF CanAlloc(io_bufs)
     THEN LET h == [conn_data[i] EXCEPT !.state = "Recv", !.buf_handle = AllocId(io_bufs)]
          IN  /\ conn_data' = [conn_data EXCEPT ![i] = h]
              /\ io_bufs' = AfterAlloc(io_bufs)
              /\ intents' = <<Recv(h)>>
     ELSE /\ intents' = << >>
          /\ UNCHANGED <<conn_data, io_bufs>>
  /\ UNCHANGED <<mem, panic>>

(* (Spawn, Init): on_init. *)
OnInit(i) ==
  /\ conn_data[i].state = "Init"
  /\ IF CanAlloc(io_bufs)
     THEN LET h == [conn_data[i] EXCEPT !.state = "Recv",
                                        !.phase = "ReceivingHeader",
                                        !.buf_handle = AllocId(io_bufs)]
          IN  /\ conn_data' = [conn_data EXCEPT ![i] = h]
              /\ io_bufs' = AfterAlloc(io_bufs)
              /\ intents' = <<Recv(h)>>
     ELSE /\ intents' = <<Retry>>
          /\ UNCHANGED <<conn_data, io_bufs>>
  /\ UNCHANGED <<mem, panic>>

(* Faulty end of stream, for the mutants: the descriptor stays open. *)
OnRecvEofTerminates(i, res) ==
  /\ conn_data[i].state = "Recv"
  /\ res = 0
  /\ Close(i)
  /\ intents' = <<Terminate>>
  /\ UNCHANGED mem

(* (IoCompleted(0), Recv): the peer has shut the stream down. *)
OnRecvEof(i, res) ==
  /\ conn_data[i].state = "Recv"
  /\ res = 0
  /\ Close(i)
  /\ intents' = <<CloseFixed(conn_data[i].socket)>>
  /\ UNCHANGED mem

(* The header is read again from the start of the buffer on every          *)
(* completion once HdrSize bytes are there.                                *)
Header(h) == [k \in 0 .. HdrSize - 1 |-> mem[BufPtr(h.buf_handle.index) + k]]

AfterData(h, n) ==
  LET g == [h EXCEPT !.offset = @ + n]
  IN  IF g.offset >= HdrSize
      THEN [g EXCEPT !.phase = "ReceivingBody", !.header = Header(g)]
      ELSE [g EXCEPT !.phase = "ReceivingHeader", !.header = None]

(* Faulty on_recv, for the mutants: the next read is asked for by the arm  *)
(* and again at the end.                                                   *)
OnRecvDataTwice(i, res) ==
  /\ conn_data[i].state = "Recv"
  /\ res > 0
  /\ LET h == AfterData(conn_data[i], res)
     IN  /\ conn_data' = [conn_data EXCEPT ![i] = h]
         /\ intents' = <<Recv(h), Recv(h)>>
  /\ UNCHANGED <<io_bufs, mem, panic>>

(* (IoCompleted(n), Recv) with n > 0. *)
OnRecvData(i, res) ==
  /\ conn_data[i].state = "Recv"
  /\ res > 0
  /\ IF conn_data[i].offset + res >= HdrSize /\ ~IsValid(io_bufs, conn_data[i].buf_handle)
     THEN /\ panic' = "stale buffer"
          /\ UNCHANGED <<conn_data, intents>>
     ELSE LET h == AfterData(conn_data[i], res)
          IN  /\ conn_data' = [conn_data EXCEPT ![i] = h]
              /\ intents' = <<Recv(h)>>
              /\ UNCHANGED panic
  /\ UNCHANGED <<io_bufs, mem>>

(* (IoCompleted(-errno), Recv): handle_io_error, one action per arm, each  *)
(* followed by the recv() that ends on_recv.                               *)
OnRecvRetryErr(i, res) ==
  /\ conn_data[i].state = "Recv"
  /\ res < 0 /\ from_raw_syscall_error(res) \in RetryErrnos
  /\ intents' = <<Recv(conn_data[i]), Recv(conn_data[i])>>
  /\ UNCHANGED <<conn_data, io_bufs, mem, panic>>

OnRecvFatalErr(i, res) ==
  /\ conn_data[i].state = "Recv"
  /\ res < 0 /\ from_raw_syscall_error(res) \in FatalErrnos
  /\ panic' = "unexpected IO error"
  /\ UNCHANGED <<conn_data, intents, io_bufs, mem>>

OnRecvCloseErr(i, res) ==
  /\ conn_data[i].state = "Recv"
  /\ res < 0 /\ from_raw_syscall_error(res) \in CloseErrnos
  /\ Close(i)
  /\ intents' = <<CloseFixed(conn_data[i].socket), Recv(Closing(conn_data[i]))>>
  /\ UNCHANGED mem

(* Faulty last arm, for the mutants: it returns without a recv(). *)
OnRecvOtherErrReturns(i, res) ==
  /\ conn_data[i].state = "Recv"
  /\ res < 0 /\ from_raw_syscall_error(res) \notin RetryErrnos \cup FatalErrnos \cup CloseErrnos
  /\ intents' = << >>
  /\ UNCHANGED <<conn_data, io_bufs, mem, panic>>

OnRecvOtherErr(i, res) ==
  /\ conn_data[i].state = "Recv"
  /\ res < 0 /\ from_raw_syscall_error(res) \notin RetryErrnos \cup FatalErrnos \cup CloseErrnos
  /\ intents' = <<Recv(conn_data[i])>>
  /\ UNCHANGED <<conn_data, io_bufs, mem, panic>>

(* (IoCompleted(0), Closing): the descriptor is closed. *)
OnClosed(i, res) ==
  /\ conn_data[i].state = "Closing"
  /\ res = 0
  /\ conn_data' = [conn_data EXCEPT ![i].state = "Closed"]
  /\ intents' = <<Terminate>>
  /\ UNCHANGED <<io_bufs, mem, panic>>

(* (IoCompleted(other), Closing): try closing again. *)
OnCloseFailed(i, res) ==
  /\ conn_data[i].state = "Closing"
  /\ res # 0
  /\ Close(i)
  /\ intents' = <<CloseFixed(conn_data[i].socket)>>
  /\ UNCHANGED mem

(* The pairs of event and state that process_event has an arm for, besides *)
(* (_, Closed).                                                            *)
ConnExpects(i, event) ==
  \/ event.kind = "Spawn" /\ conn_data[i].state = "Init"
  \/ event.kind = "IoCompleted" /\ conn_data[i].state \in {"Recv", "Closing"}

(* Any other pair: a closed machine ignores the event, the rest is         *)
(* unreachable!().                                                         *)
OnUnexpected(i) ==
  /\ panic' = IF conn_data[i].state = "Closed" THEN panic ELSE "unreachable"
  /\ intents' = << >>
  /\ UNCHANGED <<conn_data, io_bufs, mem>>

(* ConnHandler::process_event. *)
ConnProcessEvent(i, event) ==
  IF ConnExpects(i, event)
  THEN \/ OnInit(i)
       \/ OnRecvEof(i, event.res)
       \/ OnRecvData(i, event.res)
       \/ OnRecvRetryErr(i, event.res)
       \/ OnRecvFatalErr(i, event.res)
       \/ OnRecvCloseErr(i, event.res)
       \/ OnRecvOtherErr(i, event.res)
       \/ OnClosed(i, event.res)
       \/ OnCloseFailed(i, event.res)
  ELSE OnUnexpected(i)
=============================================================================
