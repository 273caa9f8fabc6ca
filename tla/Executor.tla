------------------------------ MODULE Executor ------------------------------
(***************************************************************************)
(* The event loop of hoarder-blob/src/executor/mod.rs, composed with the   *)
(* two kinds of state machine it runs (TcpServer, ConnHandler) and the     *)
(* ring it submits to (Uring).                                             *)
(*                                                                         *)
(* pc is the place of the one executor thread in run():                    *)
(*   "drain"   popping the current run queue                               *)
(*   "intents" inside complete_intent                                      *)
(*   "submit"  entering submit_and_wait(1)                                 *)
(*   "enter"   inside io_uring_enter                                       *)
(*   "reap"    moving completions to the next run queue                    *)
(* The kernel's completions interleave with all of them.                   *)
(***************************************************************************)
EXTENDS ConnHandler, TcpServer, Uring, FiniteSets

VARIABLES
  conn_alloc,         \* the GenAlloc of conn_handler_pool
  run_queues,         \* the two run queues
  current_run_queue,  \* 0 or 1
  current,            \* the handle complete_intent works for
  pc

loopVars == <<run_queues, current_run_queue, current, pc>>
machineVars == <<conn_alloc, conn_data, tcp_listener>>
vars == <<contextVars, loopVars, machineVars, ringVars, kernelVars>>

(* Faulty size, for the mutants: one entry for every handler. *)
OneEntryPerHandler == NHandlers

RunQueueSize == 2 * NHandlers

next_run_queue_idx == 1 - current_run_queue

RunQueueEvent(reason, handle) == [reason |-> reason, handle |-> handle]

CanPush(q) == Len(run_queues[q]) < RunQueueSize

Push(q, event) == run_queues' = [run_queues EXCEPT ![q] = Append(@, event)]

(* Executor::new, setup and seed_run_queue: empty pools, the file table    *)
(* and the buffers registered, and the listener spawned.                   *)
Init ==
  /\ UringInit
  /\ intents = << >>
  /\ io_bufs = NewAlloc(NBufs)
  /\ mem = [a \in Addresses |-> None]
  /\ panic = "no"
  /\ conn_alloc = NewAlloc(NHandlers)
  /\ conn_data = [i \in 0 .. NHandlers - 1 |-> None]
  /\ tcp_listener = "Init"
  /\ run_queues = [q \in {0, 1} |->
                     IF q = 0 THEN <<RunQueueEvent(Spawn, TcpHandle)>> ELSE << >>]
  /\ current_run_queue = 0
  /\ current = None
  /\ pc = "drain"

(* A failed unwrap or assertion. *)
Crash(site) ==
  /\ panic' = site
  /\ UNCHANGED <<intents, io_bufs, mem, loopVars, machineVars, ringVars, kernelVars>>

-----------------------------------------------------------------------------
(* Draining the current run queue: pop one event and hand it to its        *)
(* machine.                                                                *)
NextEvent == Head(run_queues[current_run_queue])

Pop ==
  /\ Running
  /\ pc = "drain"
  /\ run_queues[current_run_queue] # << >>
  /\ run_queues' = [run_queues EXCEPT ![current_run_queue] = Tail(@)]
  /\ current' = NextEvent.handle
  /\ pc' = "intents"
  /\ UNCHANGED <<current_run_queue, conn_alloc, ringVars, kernelVars>>

DispatchTcp ==
  /\ Pop
  /\ NextEvent.handle.pool = TCP_SERVER
  /\ TcpProcessEvent(NextEvent.reason)
  /\ UNCHANGED conn_data

(* Faulty get_mut, for the mutants: the generation is not compared. *)
FindsByIndex(handle) == conn_data[handle.index] # None

(* ObjectPool::get_mut finds a machine. *)
Finds(handle) == IsValid(conn_alloc, handle) /\ conn_data[handle.index] # None

DispatchConn ==
  /\ Pop
  /\ NextEvent.handle.pool = CONN_HANDLER
  /\ Finds(NextEvent.handle)
  /\ ConnProcessEvent(NextEvent.handle.index, NextEvent.reason)
  /\ UNCHANGED tcp_listener

(* "CONN_HANDLER MISSING": the handle's machine is gone. *)
DispatchMissing ==
  /\ Pop
  /\ NextEvent.handle.pool = CONN_HANDLER
  /\ ~Finds(NextEvent.handle)
  /\ intents' = << >>
  /\ UNCHANGED <<io_bufs, mem, panic, conn_data, tcp_listener>>

DrainDone ==
  /\ Running
  /\ pc = "drain"
  /\ run_queues[current_run_queue] = << >>
  /\ pc' = "submit"
  /\ UNCHANGED <<contextVars, run_queues, current_run_queue, current,
                 machineVars, ringVars, kernelVars>>

-----------------------------------------------------------------------------
(* complete_intent: one action per arm of the match, taken for the first   *)
(* intent that is left.                                                    *)
AtIntent(kind) ==
  /\ Running
  /\ pc = "intents"
  /\ intents # << >>
  /\ Head(intents).kind = kind

IntentDone ==
  /\ intents' = Tail(intents)
  /\ UNCHANGED <<mem, panic, current_run_queue, current, pc, tcp_listener, cq, kernelVars>>

(* Intents that enqueue an SQE for the current machine. *)
EnqueueFor(sqe) ==
  IF CanEnqueue
  THEN /\ Enqueue(sqe)
       /\ IntentDone
       /\ UNCHANGED <<io_bufs, run_queues, conn_alloc, conn_data>>
  ELSE Crash("submission queue full")

CompleteRetry ==
  /\ AtIntent("Retry")
  /\ IF CanPush(next_run_queue_idx)
     THEN /\ Push(next_run_queue_idx, RunQueueEvent(Spawn, current))
          /\ IntentDone
          /\ UNCHANGED <<io_bufs, conn_alloc, conn_data, sq>>
     ELSE Crash("run queue full")

CompleteAccept ==
  /\ AtIntent("SubmitMultishotAccept")
  /\ EnqueueFor(AcceptMulti(current))

(* conn_handler_pool.spawn and the new machine's first event, which goes   *)
(* to the run queue that is being drained.                                 *)
CompleteSpawn ==
  /\ AtIntent("SpawnConnHandler")
  /\ LET s  == Head(intents).fixed
         id == AllocId(conn_alloc)
     IN  IF ~CanAlloc(conn_alloc)
         THEN Crash("handler pool full")
         ELSE IF conn_data[id.index] # None
         THEN Crash("handler slot taken")
         ELSE IF ~CanPush(current_run_queue)
         THEN Crash("run queue full")
         ELSE /\ conn_alloc' = AfterAlloc(conn_alloc)
              /\ conn_data' = [conn_data EXCEPT ![id.index] = NewConnHandler(s, files[s])]
              /\ Push(current_run_queue, RunQueueEvent(Spawn, ObjectHandle(CONN_HANDLER, id)))
              /\ IntentDone
              /\ UNCHANGED <<io_bufs, sq>>

CompleteRecv ==
  /\ AtIntent("SubmitRecv")
  /\ LET i == Head(intents)
     IN  IF i.off >= BufSize
         THEN Crash("offset assertion")
         ELSE IF ~IsValid(io_bufs, i.buf)
         THEN Crash("stale buffer")
         ELSE EnqueueFor(ReadFixed(current, i.fixed, BufPtr(i.buf.index) + i.off,
                                   BufSize - i.off, i.buf.index))

(* Faulty close, for the mutants: the machine's index is taken for the     *)
(* descriptor.                                                             *)
CompleteCloseByIndex ==
  /\ AtIntent("CloseFixed")
  /\ EnqueueFor(CloseSqe(current, current.index))

CompleteClose ==
  /\ AtIntent("CloseFixed")
  /\ EnqueueFor(CloseSqe(current, Head(intents).fixed))

(* conn_handler_pool.despawn; only connection machines terminate. *)
CompleteTerminate ==
  /\ AtIntent("Terminate")
  /\ IF FreePanics(conn_alloc, current)
     THEN Crash("generation overflow")
     ELSE /\ conn_alloc' = AfterFree(conn_alloc, current)
          /\ conn_data' = IF IsValid(conn_alloc, current)
                          THEN [conn_data EXCEPT ![current.index] = None]
                          ELSE conn_data
          /\ IntentDone
          /\ UNCHANGED <<io_bufs, run_queues, sq>>

IntentsDone ==
  /\ Running
  /\ pc = "intents"
  /\ intents = << >>
  /\ pc' = "drain"
  /\ current' = None
  /\ UNCHANGED <<contextVars, run_queues, current_run_queue, machineVars,
                 ringVars, kernelVars>>

-----------------------------------------------------------------------------
(* submit_and_wait(1).  Without SQPOLL need_wakeup() is never set, so a    *)
(* completion that is already there makes it return at once; otherwise     *)
(* io_uring_enter takes the whole submission queue and waits for one.      *)
At(place) == Running /\ pc = place

SubmitShortcut ==
  /\ At("submit")
  /\ Len(cq) >= 1
  /\ pc' = "reap"
  /\ UNCHANGED <<contextVars, run_queues, current_run_queue, current,
                 machineVars, ringVars, kernelVars>>

SubmitEnter ==
  /\ At("submit")
  /\ Len(cq) < 1
  /\ pc' = "enter"
  /\ UNCHANGED <<contextVars, run_queues, current_run_queue, current,
                 machineVars, ringVars, kernelVars>>

EnterIssues ==
  /\ At("enter")
  /\ Issue
  /\ UNCHANGED <<contextVars, loopVars, machineVars>>

(* A signal that interrupts the wait after entries were taken makes the    *)
(* call return without a completion.                                       *)
EnterReturns ==
  /\ At("enter")
  /\ sq = << >>
  /\ Len(cq) >= 1 \/ EnterFails
  /\ pc' = "reap"
  /\ UNCHANGED <<contextVars, run_queues, current_run_queue, current,
                 machineVars, ringVars, kernelVars>>

(* io_uring_enter takes nothing and returns an error. *)
EnterError ==
  /\ At("submit")
  /\ Len(cq) < 1
  /\ EnterFails
  /\ Crash("submit_and_wait failed")

(* Draining the completion queue into the next run queue, then switching   *)
(* the queues.                                                             *)
Reap ==
  /\ At("reap")
  /\ cq # << >>
  /\ IF CanPush(next_run_queue_idx)
     THEN /\ Push(next_run_queue_idx,
                  RunQueueEvent(IoCompleted(Head(cq).res, Head(cq).more), Head(cq).user))
          /\ cq' = Tail(cq)
          /\ UNCHANGED <<contextVars, current_run_queue, current, pc, machineVars,
                         sq, kernelVars>>
     ELSE Crash("run queue full")

ReapDone ==
  /\ At("reap")
  /\ cq = << >>
  /\ current_run_queue' = 1 - current_run_queue
  /\ pc' = "drain"
  /\ UNCHANGED <<contextVars, run_queues, current, machineVars, ringVars, kernelVars>>

-----------------------------------------------------------------------------
(* Kernel steps leave the program's own variables alone. *)
ProgramUnchanged == UNCHANGED <<intents, io_bufs, panic, loopVars, machineVars>>

KernelAccepts ==
  /\ Running
  /\ \E c \in Conns : AcceptCompletes(c)
  /\ ProgramUnchanged
  /\ UNCHANGED mem

KernelRefuses ==
  /\ Running
  /\ \E c \in Conns : AcceptOverflows(c)
  /\ ProgramUnchanged
  /\ UNCHANGED mem

KernelReads ==
  /\ Running
  /\ \E k \in DOMAIN reads, n \in 1 .. BufSize : ReadCompletes(k, n)
  /\ ProgramUnchanged

KernelEnds(c) ==
  /\ Running
  /\ \E k \in DOMAIN reads : reads[k].conn = c /\ ReadEnds(k)
  /\ ProgramUnchanged

KernelFails ==
  /\ Running
  /\ \E k \in DOMAIN reads, errno \in RecvErrnos : ReadFails(k, errno)
  /\ ProgramUnchanged

(* What the executor thread does, io_uring_enter included. *)
Thread ==
  \/ DispatchTcp \/ DispatchConn \/ DispatchMissing \/ DrainDone
  \/ CompleteRetry \/ CompleteAccept \/ CompleteSpawn \/ CompleteRecv
  \/ CompleteClose \/ CompleteTerminate \/ IntentsDone
  \/ SubmitShortcut \/ SubmitEnter \/ EnterIssues \/ EnterReturns \/ EnterError
  \/ Reap \/ ReapDone

Next ==
  \/ Thread
  \/ KernelAccepts \/ KernelRefuses \/ KernelReads \/ KernelFails
  \/ \E c \in Conns : KernelEnds(c)

Spec == Init /\ [][Next]_vars

(* The thread keeps running, and every client hangs up in the end: the     *)
(* read that waits for it completes.                                       *)
Fairness == WF_vars(Thread) /\ \A c \in Conns : WF_vars(KernelEnds(c))

FairSpec == Spec /\ Fairness
=============================================================================
