# A TLA+ model of hoarder

This directory models hoarder, a single-threaded io_uring server with a
double-buffered logger, in TLA+. It checks small instances with TLC and proves
theorems for every instance with TLAPS. Line numbers refer to the files under
`src/`.

## 1. Inventory

| Component | State | Operations | Modelled in |
|---|---|---|---|
| Executor (`hoarder-blob/src/executor/mod.rs`) | two run queues, the pools, the intents of the last machine | `run`: drain, `complete_intent`, submit, reap, switch | `Executor` |
| Protocol (`protocol/mod.rs`) | `ExecutorContext` | `submit_intent` | `ExecutorProtocol` |
| Connection machine (`state_machine/conn_handler.rs`) | state, socket, buffer handle, offset | `process_event` and its helpers | `ConnHandler` |
| Listener machine (`state_machine/tcp_server.rs`) | state | `process_event`, `listen` | `TcpServer` |
| UringIO (`hoarder-io/src/lib.rs`) | submission and completion queue | `enqueue`, `submit_and_wait`, `completion` | `Uring`, `Executor` |
| Kernel (external) | armed accepts, pending reads, file table | issue, complete, fail | `Uring` |
| GenAlloc, BufferPool, ObjectPool (`hoarder-collections/src/alloc.rs`) | generations, free list, objects | `alloc`, `free`, `is_valid`, `spawn`, `get`, `get_mut`, `despawn` | `GenAlloc`, used by `Executor` and `ConnHandler`; `ObjectPool`, `HandleRegistry` |
| RingBuffer (`hoarder-collections/src/collections.rs`) | cells, two indices, length | `new`, `from_fixed_iter`, `push`, `pop` | `RingBuffer`, `FifoQueue` |
| Logger (`hoarder-log/src/lib.rs`, `hoarder-blob/src/main.rs`) | two buffers, two offsets, one atomic state | `push`, `consume`, `panic_flush` | `LogBuffer`, `LogQueue` |
| Log formatting (`hoarder-log/src/lib.rs`) | `FmtBuf` | `write_str`, `as_bytes`, the macros | `FmtBuf`, used by `LogBuffer` |
| Array, AlignedBuffers (`hoarder-collections/src/collections.rs`, `alloc.rs`) | memory | construction, indexing | flat memory in `ExecutorProtocol`; the cells of `ObjectPool` |
| Errors (`hoarder-common/src/error.rs`) | none | errno table, `from_raw_syscall_error`, formatting | `Errno`; formatting is left out |
| main | none | wiring | its parameters and threads are the models' setting |

How they interact. The executor's one thread pops an event from the current run
queue and gives it to the machine of the event's handle; the machine answers
with intents, and the executor carries them out: new events in a run queue, new
machines, entries in the submission queue. `submit_and_wait(1)` hands the
entries to the kernel, whose completions are drained into the other run queue;
then the two queues are switched. Machines share the buffer pool, and the
kernel writes into its buffers while reads are pending. The logger is shared by
the thread that logs, a consumer thread that calls `consume` every two
milliseconds, and the panic hook.

What is hard: completions interleave with everything the thread does and come
in any order; handles, buffers and file slots are reused, so that a late
completion or a second read may meet a new owner; errors lead to a second read,
to a retry of the close, or to a panic; the queues have fixed sizes; a machine
that nobody will run again is silently lost; the logger uses no lock and its
writer bit is set by a compare-exchange that does not look at it. Every such
place is listed under `hazards` in `PROJECT.json`, with the properties aimed
at it.

What makes each component correct:

- executor and machines: no panic, no event without an arm, exactly one thing
  under way for every live machine, exactly one armed accept, no machine or
  slot forgotten, progress of every connection;
- data: what a machine has in its buffer is the start of its own client's
  stream; no request reaches another client's slot, a buffer given back, or the
  bytes behind its own buffer;
- all of these together: a server that lets in as many clients as it has
  places, serves as many as it has buffers, and forgets no byte and no client;
- allocator: a buffer is free or held by one receiving machine; a handle leads
  to its own object and, once that is gone, to none;
- log line: the first bytes of prefix, message and newline, and no others;
- ring buffer: exactly the cells in the window are initialised; FIFO order;
- logger: mutual exclusion on each buffer; nothing lost, repeated or
  reordered; a push does not wait for the consumer; a panic loses nothing.

## 2. Plan

Modules in the order they are written, each building on those before it.

1. `GenAlloc`, `ExecutorProtocol`, `ConnHandler`, `TcpServer`, `Uring`,
   composed by `Executor`; `ExecutorProperties`, `ExecutorClaims`,
   `MCExecutor`; `Executor_proofs` with the type invariant. *Done.*
2. `LogBuffer` with its abstract specification `LogQueue`; `LogProperties`,
   `MCLog`; `LogBuffer_proofs`. *Done.*
3. `RingBuffer` with its abstract specification `FifoQueue`;
   `RingBuffer_proofs`. *Done.*
4. `ObjectPool` over `GenAlloc`, with arbitrary callers, small widths so that
   indices are masked and generations wrap, in the debug and the release reading
   of `+= 1`; its abstract specification `HandleRegistry`; the packing of
   `ObjectHandle`; `GenAlloc_proofs`, `ObjectPool_proofs`. *Done.*
5. `FmtBuf` and `Errno`, used by the logger and by the machines. *Done.*
6. `Server`, what the executor promises its clients, without queues, machines or
   ring, and the executor shown to implement it. *Done: the safety half proved
   (item 8), the liveness half by TLC.*
7. Proofs: `BuffersConserved` and `NoUnreachable` (`Executor_proofs`),
   `NoLostMachine`, `OneContinuation`, `ListenerArmed` and `SlotsAccountedFor`
   (`Continuations_proofs`), `RequestsReachOwnPeer` and `ReceivedIsStream`
   (`Peers_proofs`, with the invariant that ties slots, clients and machines),
   `CompletionQueueSuffices` and `NoPanic` (`Limits_proofs`, with the bounds on what is
   under way at a time), the panic hook and the refinement of `LogQueue`
   (`LogBuffer_proofs`). *Done.*
8. A proof that the executor implements `Server` (`ImplementsServer`, in
   `Peers_proofs`), which needs the invariants of item 7. *Done.*

## 3. The executor

### State and actions

`Executor` extends the modules of the parts, so that they share variables as the
Rust code shares memory. The generation and the free list of a pool are one
record (`io_bufs`, `conn_alloc`), the machines are `conn_data`. `pc` is the place
of the thread in `run`:

| `pc` | Code | Actions |
|---|---|---|
| `drain` | 58-98 | `DispatchTcp`, `DispatchConn`, `DispatchMissing`, `DrainDone` |
| `intents` | 100-102, 123-186 | `CompleteRetry`, `CompleteAccept`, `CompleteSpawn`, `CompleteRecv`, `CompleteClose`, `CompleteTerminate`, `IntentsDone` |
| `submit` | `hoarder-io` 67-73 | `SubmitShortcut`, `SubmitEnter`, `EnterError` |
| `enter` | `hoarder-io` 75-80 | `EnterIssues`, `EnterReturns` |
| `reap` | 107-119 | `Reap`, `ReapDone` |

A dispatch pops the event and runs the whole of `process_event`, since nothing
else changes the program's state meanwhile; each intent is a step of its own,
and the kernel may act between any two steps. A failed unwrap, an assertion or
an `unreachable!()` sets `panic` to its site, after which nothing happens.

`TcpServer` and `ConnHandler` have one action per arm of the match, with
everything its helpers do. `recv()` after `handle_io_error` is part of each error
action, so that two or zero intents come out exactly as in the code.

Data are abstracted: a byte is the connection it comes from and its position in
that connection's stream. `peer` in a machine is a history field. The `fd` of
the listener is left out. The offset in an intent is a `u16` in the code. The
assertion stops the program at the first read that starts at 4096 or beyond; with
several reads in flight one more completion can carry the offset past that, to
less than 8192, so it is never truncated.
The ring buffers behind the run queues and the free lists are FIFO sequences
with a bound, which is what `RingBuffer` is proved to implement.

The I/O buffers lie one after the other in one allocation, as `AlignedBuffers`
makes them: `mem` is a function on `Addresses`, a read carries an address and a
length, and nothing but the code's arithmetic keeps it from the next buffer. The
kernel knows the buffers as the iovecs that were registered and fails a read
that leaves its iovec with `EFAULT`.

A generation counts modulo `GenSpan` (2^32). `OverflowChecks` says how the binary was
built: with the checks, freeing an index whose generation is the last one panics,
in `close` as in `despawn`; without, the generation starts again at zero.

### The kernel

Modelled as the code uses it, in `Uring`:

- without SQPOLL (`main.rs:38`), the kernel takes submission entries only in
  `io_uring_enter`, in order;
- a multishot accept takes a free slot of the file table for each client; any
  accept may be its last (`more`); with a full table it fails with `ENFILE` and
  ends;
- a read holds on to the connection it found in its slot; it completes with
  some bytes, with the end of the stream, or with an error, at any time and in
  any order relative to the others; on an empty slot it fails with `EBADF`;
- a close of a direct descriptor completes in `io_uring_enter`;
- `io_uring_enter` may fail, or be interrupted while it waits (`EnterFails`);
  the interruption is allowed even if nothing was submitted, which allows more
  than the kernel does.

`UringIO::new` asks for no size of the completion queue, so the kernel gives it
twice the entries of the submission queue. What the kernel does when it is full
is not modelled; `CompletionQueueSuffices` says that this never happens within the
bounds of `exec_safe`, where the submission queue has three entries.

### The server

`Server` is the abstract specification: clients that are waiting, connected,
receiving, ended, closing and gone, a number of places, a number of buffers, the
bytes of each stream sent and received, and whether anybody is let in at all.
`TheServer` in `ExecutorProperties` is the refinement mapping. The phase of a client
is read off its file slot and the machine that serves it; a client whose accept
is still on its way, or whose machine waits for a buffer, is connected; what is
received of its stream is its machine's offset, and everything once the
machine has let go of its buffer, which `Drop` permits only if that is so. A
client that finds no place is turned away, and no other is let in after it
(finding 5): the listener's refusal counts from the moment the kernel posts it.

`ImplementsServer` is the safety half, that every step of the executor is a step of
`Server` or none; `ServesEveryone` is the fairness of `Server`: every client that was
let in is given a buffer, received from and closed. Errors of reads are not in `Server`:
the code's answer to most is a panic or a second read (findings 1 and 4), which
the other runs show.

### Bounds

`Conns` is the set of clients: each connects once. `MaxStream` bounds the bytes of
a client, `MaxFaults` the reads that fail, `RecvErrnos` the errors they fail with;
the sizes of the pools, buffers and queues are parameters of the code. `GenSpan`
is small where the code has 2^32. In `exec_safe` no run frees an index that
often; in `exec_faults` the generation of the one buffer is at its last
value when the third client lets go of it, which panics; in `exec_live` the
generations wrap. `SqEntries` is as small as the run allows, to show what the
submission queue needs.

### Runs

- `exec_safe` (four clients, two handlers, one buffer of four bytes with a header
  of two, streams of three bytes, one error outside the lists of
  `handle_io_error`). There are more clients than handlers, so slots, machines
  and handles are reused; there are more machines than buffers, so machines
  wait and retry; the submission queue has three entries, one more than there
  are handlers, and that is enough. `NoPanic` holds within provisos. Three have a run that shows what happens
  outside them: streams shorter than the buffer (`exec_full_buffer`), no error that
  closes the connection (`exec_reset`), and no more than 2N completions in a tick
  (`exec_run_queue`; it takes five clients to reach five completions with two
  handlers). Two more exclude panics that the code has on purpose: no error
  from the list that `handle_io_error` ends in `panic!` (`RecvErrnos`), and no
  `io_uring_enter` that fails, which the unwrap at `executor/mod.rs:105` turns into
  a panic (`EnterFails`). Retried errors are left out as well, since they double the
  reads and with them the entries of both queues;
- `exec_faults` (three clients, two read errors from the classes retry, fatal,
  close and other, failures of `io_uring_enter`). Here panics are part of the
  code's behaviour; what has to hold is that machines never see an unexpected
  event, although late completions of old machines come in, and that machines,
  buffers and slots are not lost. `NoLostMachine` and `SlotsAccountedFor` say nothing
  of a state after a panic, so that of an interrupted `io_uring_enter` they cover
  what the loop does when it goes on, not the unwrap that stops it. Whose bytes
  and whose slot a second read or close acts on is not among them; finding 4
  shows why it could not be;
- `exec_live` (three clients, two handlers, one buffer, generations of two values
  in a release build): every accepted connection leaves its slot, and the
  executor implements `Server` and serves everyone. A generation that wraps does no
  harm there, since no handle is kept for that long. `submit_and_wait` returns without submitting
  anything when a completion is already there (`hoarder-io/src/lib.rs:71`, although
  the comment at 22-24 promises to submit "all the batched requests");
  `SubmitShortcut` has this, and the run shows that the batch is submitted in a
  later tick.
- Five runs that state what a comment, an assertion or a doc says and end in a
  counterexample; see *Findings*.

Safety runs use symmetry on clients, which nothing distinguishes; the liveness
run does not. Deadlock is not checked in these runs: when every client has come
and gone the server waits in `io_uring_enter` for ever, as it should, and after a
panic nothing moves.

### Fairness

`Fairness` has two parts. The thread of `run` never stops by itself and is
scheduled: `WF_vars(Thread)`. Every client hangs up in the end, after which a
pending read of its connection completes: `WF_vars(KernelEnds(c))`, for each
client. No fairness is assumed of accepts, of data or of errors, so a client
may never come, and the listener may fail. `ConnectionsEnd` and `ServesEveryone` are
conditional on clients that hang up; the code has no timeouts that would make
more possible.

### Findings

1. `exec_reset` (`conn_handler.rs:93`): an error such as `ECONNRESET` closes the machine
   and frees its buffer; the `recv()` that follows asks for a read into it, and
   the unwrap at `executor/mod.rs:158` stops the server.
2. `exec_full_buffer` (`conn_handler.rs:80`): nothing takes bytes out of the buffer, and
   once it is full the assertion at `executor/mod.rs:157` stops the server.
3. `exec_run_queue` (`executor/mod.rs:33`): in one tick every handler's close can
   complete, a new client can take each slot that became free, and one client
   more can be refused: 2N + 1 completions for 2N entries.
4. `exec_second_close` (`conn_handler.rs:101`): after an error that is retried two
   reads are under way, since `handle_io_error` and `on_recv` both call `recv`. The
   first ends, the machine asks for its close, and the second fails before the
   close is done: `on_closing` takes that for a close that failed and "tries
   again". The second close stays in the submission queue for a tick, since
   `submit_and_wait` returns at once when a completion is there; meanwhile the
   first one frees the slot, the machine terminates, the next client is accepted
   into the slot and a machine is spawned for it. `ClosesOwnClient` fails there: what
   is about to be closed is the connection of the new client. Without retried
   errors `RequestsReachOwnPeer` excludes it. By the same arm, a second read that
   sees the end of the stream counts as a close that is done; `exec_faults` shows
   that the close still happens and that no slot is lost.
5. `exec_rearm` (`tcp_server.rs:44`): the refusal of a client ends the multishot
   accept, and the listener, now in `Error`, arms no other.

## 4. The pools

`ObjectPool` is a pool with callers that nothing restrains: they spawn, look up,
write through and despawn under any handle that they were ever given, in any
order. A handle is one number, packed and unpacked as `ObjectHandle` does. `age` is
a history variable: how often the index of a handle was freed since the handle
was given out. Callers are taken not to hold a handle while its index is freed as
often as a generation has values (`Held`), 2^32 times in the code; after that many
a handle may be good again, by design.

`HandleRegistry` is the abstract specification: live handles with their objects,
stale ones that somebody may still hold, and no indices or generations. A spawn
picks a handle that nobody holds; a look finds the object of a live handle and
nothing for a stale one. The registry may stop, as the pool does when a debug
build finds the generation at its end.

`pools` uses a capacity of 7 with indices of two bits, so that the mask leaves
three indices. The code masks the capacity with 2^24 - 1 (`alloc.rs:86`), which wraps a
larger one where the comment above it says that the mask limits it; the
properties are about the capacity after the mask, and do not judge the mask
itself. There are generations of three values, two objects, and both readings of
the increment, chosen in `Init`. Every handle comes to be stale, and every generation wraps, within these
sizes. It shows that no index is in the free list twice or lost from it
(`FreeExact`: the assertion in `spawn` and the unwrap in `free` hold), and that the pool
implements the registry. Deadlock is not checked: after a panic nothing moves.

`BufferPool` is the same allocator over the I/O buffers, and is part of the
executor's model.

## 5. The logger

`LogBuffer` has one action per access to an atomic or to a buffer. `ppc` is the
place of each producer in `push` (or in the panic hook), `cpc` that of the consumer
in `consume`. `accepted` and `out` are history variables: the bytes whose length a
push has published, and the bytes handed to `write(2)`.

Memory model. The model is sequentially consistent. That covers the code:
every read of a buffer or of an offset in `push` and `consume` comes after an
acquire of `state` that synchronises with the release by which the other side
gave the buffer up; a stale relaxed load of `state` makes the exchange fail, and
`AcquireFails` and `FlipFails` allow a failure at any time, as a weak exchange
does. The one exception is `panic_flush`, whose relaxed loads are of offsets that
only the panicking thread increases; a stale value of the consumer's reset can
only make it write bytes once more, which `NothingLostOnPanic` permits.

`hlog` is a call of one of the macros: it puts the line together in a `FmtBuf`, the
prefix of the level, the message and a newline, each cut to the room that is
left, and hands it to `push`. A line that is cut loses its newline; the code
documents the truncation (`lib.rs:48`).

Bounds: `BufSize` bytes in a buffer, lines of at most `MAX_LOG_LINE` bytes, messages
of at most `MaxMessage`, `MaxPushes` pushes per producer. Three bytes and lines of one
or two let a line fit exactly, not fit by one, and let both buffers be filled,
drained and swapped several times; four pushes are enough for that.

Runs:

- `log_queue`: one producer that may panic between any two calls, and the
  consumer, which the hook may meet anywhere. The type invariant, mutual
  exclusion and `StreamIntact`; that the hook leaves no accepted byte unwritten and
  writes nothing that was not logged; that the logger implements `LogQueue`; and
  that a push returns. The run's `FairSpec` is fair to the pushing thread only: it
  keeps running, and a weak exchange, which fails of itself or because of a flip
  in between, does not fail for ever. The consumer may stop for good at any step,
  with a full buffer or right after a flip, and still no push waits for it
  (`PushReturns`; its mutant waits for room before it takes the writer bit, which
  would pass with a fair consumer). That what was pushed is written in the end,
  the fairness of `LogQueue`, does need the consumer, and `ImplementsLogQueue` has
  `ConsumerFairness` as the premise of that part alone: the consumer is scheduled
  until a panic, since the process then ends, and its exchange does not fail for
  ever, since a push is short; the hook runs to its end;
- `log_two_producers` (finding 6): the exchange in `push` does not exclude a state
  with the writer bit set, and the first of two pushes to finish clears the bit
  of both. The comment at `lib.rs:91-92` is true for one pushing thread, which is
  how `main.rs` uses the logger, and not for what the type `Producer`, which is
  `Sync`, permits.

Lines that do not fit are dropped by `push` and by the macros that ignore its
error; the model does the same, and `accepted` does not hold them.

## 6. The ring buffer

`RingBuffer` has the cells of `MaybeUninit`, and `pop` moves the value out. `ring`
checks on four cells and three values, over every history, that the initialised
cells are exactly the window of `len` cells from the read index on, and that the
buffer implements `FifoQueue`. Deadlock is checked. `from_fixed_iter` is an initial
state, since it fills the buffer by as many pushes as it has cells.

## 7. Proofs

TLAPS checks these for every value of the constants. Assumptions on constants
are the named `ASSUME`s of the modules, which TLC evaluates in the runs: sizes are
positive (`SizesAssumption`, `UringAssumption`, `GenSpanAssumption`, `PoolAssumption`,
`LineAssumption`, `LogAssumption`, `RingAssumption`), and `None` and `Uninit` are not
values (`NoneAssumption`, `MachineAssumption`, `RingAssumption`). What a theorem
assumes beyond these is in its statement and named here.

### The allocator and the pools

`GenAlloc_proofs` has lemmas about queues without repetitions (what a pop and a push
do to what occurs in them) and about `alloc` and `free`. `ObjectPool_proofs` has:

- `HandleFields`: id, index and generation survive the packing, for all widths;
- `PoolTypeOK` and `PoolFreeExact`, from the invariant `TypeOK /\ FreeInv /\ AgeInv`.
  `AgeInv` says that the generation of an index is that of every handle still
  held plus the handle's age, modulo `GenSpan`, and that a handle of age zero has
  its object. Without it nothing is known of a
  stale handle, and a despawn through one could free an index twice;
- `PoolImplementsRegistry`, assuming `GenSpan > 1` (with a single generation, a handle
  that was just despawned would be given out again at once). A spawn gives a
  handle of age zero, and `AgeInv` makes it differ from all that are held.

### The executor

- `ExecTypeOK` (`Executor_proofs`): the type invariant. It is inductive as it
  stands, because it is precise: the intents that are left are of the kind of
  the current machine (`IntentsOf(current)`), there are none outside of
  `complete_intent`, every event, entry, read and completion has the handle of the
  pool that its result belongs to, and a machine past `Init` has a buffer handle.
  The last is what `unwrap_unchecked` at `conn_handler.rs:150` needs; a weaker
  invariant would not survive `CompleteSpawn`, which uses the result of an accept as
  an index. One lemma per action; `DispatchType`, `IntentDoneType` and `KernelStepType`
  carry what the actions of a group have in common.
- `ExecBuffersConserved` (`Executor_proofs`), assuming `OverflowChecks`. The
  property counts holders; `BuffersExact` says it with handles: receiving machines
  have valid handles to different buffers, and the free list has the others, each
  once. A closing machine keeps the handle it has freed and frees it again on a
  retry, which is harmless because the generation is newer by then:
  `HandlesOutdated`. A generation that wraps would break it, hence the
  assumption. `ClosedBeforeTerminate` says that only a closed machine is despawned.
- `ExecNoUnreachable` (`Executor_proofs`), assuming `OverflowChecks`, whatever
  errors occur. Each handle in an event, request or completion is outdated or
  leads to a machine that is past `Init` (in `Init`, for a `Spawn`): `RequestsFit`,
  `EventsFit`, `IntentsFit`. That no machine is started twice needs `SpawnsOnce`, and
  for the listener `ListenerStartsOnce`.
- `ExecNoLostMachine` (`Continuations_proofs`), with no assumption. `UnderWay(h)` counts
  events, intents, requests and completions of a handle; the lemmas about `Count`
  say what a pop, a push and a removal do to a count. The invariant `NothingLost`
  adds to the property that a closed machine is about to be despawned
  (`ClosedTerminates`), without which it could stay behind.
- `ExecOneContinuation` (`Continuations_proofs`), assuming `CalmErrnos`: no read completes
  with an error that its machine answers with two intents, which the property
  does not survive (finding 4). `ExactlyOne` strengthens it to handles that do not
  resolve, for which nothing is under way, so that a new machine at the same
  place starts with nothing left of the old one, even when generations wrap.
- `ExecListenerArmed` (`Continuations_proofs`), with no assumption: an accept in the
  submission queue, armed in the kernel, or ended and not yet seen, adds up to
  one while the listener accepts and to none otherwise. `FailuresEnd`, that a failed
  accept is never one of several, is what keeps the count in step with
  `tcp_server.rs:44`, which goes to `Error` without asking for another.

- `ExecSlotsAccountedFor` (`Continuations_proofs`), with no assumption. `SlotsInv` is the type
  invariant, `FailuresEnd`, `ArmedOnce` and, while the process runs, `ListenerOrder` and
  `SlotsHeld`. The hard case is the listener: a completed accept is lost if the
  listener has gone to `Error` when its event is popped. `ListenerOrder` excludes it: of
  the accept's completions on their way (completion queue, next queue, this
  queue), the one that ends the multishot accept is the last, so that the listener
  is still `Accepting` for all before it. `QueueDrained` is needed because swapping the
  queues would otherwise reorder them.
- `ExecRequestsReachOwnPeer` and `ExecReceivedIsStream` (`Peers_proofs`), assuming
  `CalmErrnos` and `OverflowChecks`. As `ExactlyOne` leaves each machine one thing under
  way, there is one *task* for it: an event, an entry, a read or an intent. `Core` has
  three parts. `TasksSuit`: the task is one that the machine's state calls for; a
  read starts at the machine's offset and ends with the buffer, a completion with
  data has its bytes in memory. `MachinesSound`: a machine up to its close has its
  client in its slot, and its buffer has the client's stream up to its offset.
  `World`: no two slots have the same client, no two machines either, and at most
  one accept of a slot is on its way, of a client nobody has read from
  (`ComingSound`), which is why a new machine starts at the beginning of a stream. A
  step concerns one machine; `OthersAlone` and `ActiveTasks` say that it leaves the
  others alone, by `BuffersExact` and `PeersDistinct`. After a panic nothing moves
  (`CrashKeeps`), so that both properties outlive it.
- `ExecImplementsServer` (`Peers_proofs`), assuming the same: `Spec => ImplementsServer`. A
  client's phase depends on whether it waits, has a slot and has hung up and on
  the state of its machine, what is received of its stream on its machine's offset
  (`MachineKnown`, `UnservedKnown`). Most steps leave these alike for every client
  (`Alike`) and map to a stutter; any other moves one client by one step of `Server`
  and leaves the others alike (`OthersAlike`, `ServerMoves`). The counts of places and
  buffers come from `FilesSound` and `BuffersExact` (`FreeSlot`, `NoFreeSlot`, `FreeBuffer`), that
  nothing is left behind when a connection is given up from `TasksSuit`. Two more
  facts are needed. `GoneSound`: a machine whose close has been answered finds its
  client out of the file table, so that its end is a stutter. `ListenerInv` and
  `ListenerFirst`: the listener lets nobody in before it has begun, the refusal
  is the last completion of the accept, and between the kernel posting it and the
  listener failing on it `Accepting` does not change (`AcceptingMoves`). Panics are
  stutters. Generations that wrap are outside the theorem (`OverflowChecks`); TLC
  checks them in `exec_live`.
- `ExecCompletionQueueSuffices` (`Limits_proofs`), assuming the same and that
  `SqEntries > NHandlers`: `main.rs` asks for 4096 entries and 100 machines. Each
  completion in the queue has a place of its own in `0 .. 2 * NHandlers`: a machine's
  index, which `ExactlyOne` allows once; the slot of an accept, which `ComingSound`
  allows once; or the last place for the failure that ends the accept, of which
  `ArmedOnce` allows one. The pigeonhole principle does the rest.

- `ExecPanicsOnlyWhenFull` (`Limits_proofs`), for any number of clients, assuming
  `Moderate`: streams shorter than a buffer, `SqEntries > NHandlers`, read errors
  outside the lists of `handle_io_error`, an `io_uring_enter` that does not fail and
  checked arithmetic. The first and the third are needed: `exec_full_buffer` and
  `exec_reset` end in a panic without them. Of all that can stop the executor, only
  a full run queue and a generation at its end are left. The argument, one case
  for each kind of panic:
  - *The submission queue.* As `ExactlyOne` allows one entry for each machine and
    `ArmedOnce` one for the accept, `SqEntries > NHandlers` places suffice (`CanSubmit`).
  - *The offset and the buffer.* `Core` ties a receiving machine's offset to
    what its client has sent, and gives it a valid buffer (`RequestPanics`).
  - *The handler pool.* `PoolInv` shows that there is a free place for whoever is
    accepted: the free list has exactly the places without a machine
    (`ConnExact`), machines have different slots (`SocketsDistinct`), and the slot of
    a `SpawnConnHandler` has no machine (`SpawnsFree`), so that one of `NHandlers`
    places is free. The last follows from an order, `SlotOrder`: the kernel gives a
    slot away again only when its close is done, so that the accept comes behind
    that completion in the completion queue, in the next run queue and in this
    one, and the old machine is gone when the accept's event is popped. Without
    the order the accept could overtake the completion, and `spawn(..).unwrap()`
    would panic.
  - *The arms of the machines.* `ExecNoUnreachable` excludes the `unreachable!()`s and
    `NoneFatal` the errors that a machine panics on.
- `ExecNoPanic` (`Limits_proofs`), assuming also `FewClients`: no more clients than a
  run queue has places, which is `2 * NHandlers`, and fewer than `GenSpan`. The first
  bound is sharp: with `2 * NHandlers + 1` clients `exec_run_queue` fills a queue. In the
  model each client connects once, so that the theorem is about a server's
  first `2 * NHandlers` connections; for a server that runs on, it is
  `ExecPanicsOnlyWhenFull` that says what remains. `Occupied`, the machines there
  are, and `Expected`, the clients that have not come yet or whose accept is on its
  way, are together at most the clients there are (`PlacesRoom`). Whatever is pushed to a
  run queue is of a machine or an accept that has nothing else in it
  (`RetryFits`, `SpawnFits`, `ReapFits`), so that there is room. `GenerationsBound` is the
  invariant for generations: what has been given back so far, with what may
  still be, is at most the number of clients. TLC checked it on the instance of
  `exec_safe` before it was proved.

### The logger

With one producer (`OneProducer`), panics included:

- `LogTypeOK`, `LogMutualExclusion`, `LogStreamIntact` (`LogBuffer_proofs`). The inductive
  invariant `Inv` says what each place of the two threads implies of the atomic
  state: the writer bit is set exactly while the producer works, with the index
  it has read; a consumer that drains has flipped away from its index and the
  other is active. With it, `StreamIntact` follows the bytes: a copied line is in
  its cells before its length is published, and a flip turns the active slice
  into the taken one.
- `LogOnlyLoggedBytes`, `LogNothingLostOnPanic` (`LogBuffer_proofs`), from `ContentInv`: what
  is written or below an offset was accepted, and what was accepted was written
  or is in a buffer that the hook has not come to. A consumer that was stopped
  between its write and its reset is why the hook may repeat bytes and cannot
  lose any.
- `LogImplementsQueue` (`LogBuffer_proofs`): every step of the logger is a push of a
  whole line, a write, a dump by the hook, or a stutter of `LogQueue`. `CallInv` bounds
  the call and the length of the line a producer has in hand, so that it is one
  of the lines of `LogQueue`.
- `FormattedIsCut` (`LogBuffer_proofs`): a line is its prefix, message and newline cut
  at the capacity, for every capacity and length.

### The ring buffer

`RingTypeOK`, `RingWindowExact`, `RingImplementsFifo` (`RingBuffer_proofs`). The invariant
adds `IndicesAgree`, that the write index is `len` cells after the read index;
without it a push could not be shown to hit a free cell. The refinement maps
the window to the queue.

### Only model-checked

`ConnectionsEnd`, `ServesEveryone`, `PushReturns` and the liveness half of
`ImplementsLogQueue`, since liveness under fairness and `ENABLED` are out of the
prover's reach.

## 8. Mutants

Each property of a passing run comes with a faulty variant of a definition of
the code, named in the comment above it as *Faulty ..., for the mutants*, which
makes TLC find the property violated: a run queue with one entry per handler, a
free that is forgotten, a generation that is not compared, a read that starts
from the beginning, a consumer that does not wait for the writer bit, a hook
that dumps only the active buffer, and so on. No specification uses these
variants.

## 9. Not modelled

- Allocation and dropping of memory; a registration with the ring that fails
  stops the server in `setup` before its first event.
- `HoarderError`, `Display` and the errno cell of a thread: nothing modelled decides
  by them. `MsgHeaderLong`, which nothing uses.
- The bound of 16 intents in a context: no arm submits more than two.
- The descriptor of the listener, whose leak `TODO.md` records; which of the calls
  in `listen` failed; several listeners.
- SQPOLL, which `main.rs` turns off; what the kernel does when the completion queue
  is full (see 3).
- Short writes to standard output: `main.rs:7` ignores the result of `write(2)`, and by
  the plain text of the code loses what was not written.
- The check for a logger that was not set up; `clear` and `len` of `FmtBuf`, which
  nothing uses.
