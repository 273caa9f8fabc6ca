---------------------------- MODULE Peers_proofs -----------------------------
(***************************************************************************)
(* Proof that the requests of a machine reach its own client and its own   *)
(* buffer, and that what it receives is the start of its own client's      *)
(* stream (RequestsReachOwnPeer, ReceivedIsStream); and, from that, that   *)
(* the executor implements Server (ImplementsServer).                      *)
(*                                                                         *)
(* As every machine has exactly one thing under way (ExactlyOne), there is *)
(* one task for each: an event, a request, a pending read or an intent.    *)
(* The invariant says what that task may be, for the state its machine is  *)
(* in (Suits), what the machine's offset, buffer and slot have to do with  *)
(* the client's stream (Sound), and that a slot's client has at most one   *)
(* machine, which appears when the one accept on its way is served         *)
(* (World).  A step concerns one machine: its task and the machine are     *)
(* looked at, all the others are left alone (LeftAlone).                   *)
(*                                                                         *)
(* For Server, a client's phase and what is received of its stream depend  *)
(* on the client's slot and machine only, so that a step that leaves those *)
(* alike (Alike) leaves the client where it is; every other step moves one *)
(* client by one step of Server.                                           *)
(***************************************************************************)
EXTENDS Continuations_proofs

USE SizesAssumption, UringAssumption, GenSpanAssumption

-----------------------------------------------------------------------------
(* A task is something that is under way for a machine, with the machine's *)
(* handle: an event in a queue, or on its way there, a request in the      *)
(* submission queue, a read in the kernel, or an intent.                   *)
Task(at, user, what) == [at |-> at, user |-> user, what |-> what]

EventTask(e) == Task("event", e.handle, e)

QueueTasks(q) == {EventTask(e) : e \in ToSet(run_queues[q])}

PostedTasks == {EventTask(EventOf(r)) : r \in ToSet(cq)}

SqeTasks == {Task("sqe", r.user, r) : r \in ToSet(sq)}

ReadTasks == {Task("read", r.user, r) : r \in ToSet(reads)}

IntentTasks == {Task("intent", current, x) : x \in ToSet(intents)}

Tasks ==
  QueueTasks(0) \cup QueueTasks(1) \cup SqeTasks \cup ReadTasks \cup PostedTasks \cup IntentTasks

(* There are n tasks of h in P, as far as none and one are told apart.     *)
Amount(P, h, n) ==
  /\ n \in Nat
  /\ n = 0 => \A t \in P : t.user # h
  /\ n = 1 => \A t, u \in P : t.user = h /\ u.user = h => t = u

LEMMA AmountSum ==
  \A P, Q, h, m, n : Amount(P, h, m) /\ Amount(Q, h, n) => Amount(P \cup Q, h, m + n)
<1> SUFFICES ASSUME NEW P, NEW Q, NEW h, NEW m, NEW n, Amount(P, h, m), Amount(Q, h, n)
             PROVE  Amount(P \cup Q, h, m + n)
  BY Zenon
<1>1. m \in Nat /\ n \in Nat
  BY DEF Amount
<1>2. /\ m + n \in Nat
      /\ m + n = 0 => m = 0 /\ n = 0
      /\ m + n = 1 => (m = 1 /\ n = 0) \/ (m = 0 /\ n = 1)
  BY <1>1
<1> QED
  BY <1>2, Zenon DEF Amount

(* A count of none or one tells how many entries there are.                *)
LEMMA CountTells ==
  \A T : \A s \in Seq(T) : \A S :
    /\ Count(s, S) \in Nat
    /\ Count(s, S) = 0 => \A e \in ToSet(s) : e \notin S
    /\ Count(s, S) = 1 => \A d, e \in ToSet(s) : d \in S /\ e \in S => d = e
<1> SUFFICES ASSUME NEW T, NEW s \in Seq(T), NEW S
             PROVE  /\ Count(s, S) \in Nat
                    /\ Count(s, S) = 0 => \A e \in ToSet(s) : e \notin S
                    /\ Count(s, S) = 1 => \A d, e \in ToSet(s) : d \in S /\ e \in S => d = e
  OBVIOUS
<1>1. /\ IsFiniteSet(Where(s, S)) /\ Count(s, S) \in Nat
      /\ Count(s, S) = 0 <=> \A k \in DOMAIN s : s[k] \notin S
  BY CountType
<1>2. Count(s, S) = 0 => \A e \in ToSet(s) : e \notin S
  BY <1>1, Zenon DEF ToSet
<1>3. ASSUME Count(s, S) = 1, NEW d \in ToSet(s), NEW e \in ToSet(s), d \in S, e \in S
      PROVE  d = e
  <2>1. \E x : Where(s, S) = {x}
    BY <1>1, <1>3, FS_Singleton, Zenon DEF Count
  <2>2. PICK j \in DOMAIN s : s[j] = d
    BY <1>3 DEF ToSet
  <2>3. PICK k \in DOMAIN s : s[k] = e
    BY <1>3 DEF ToSet
  <2>4. j \in Where(s, S) /\ k \in Where(s, S)
    BY <1>3, <2>2, <2>3, Zenon DEF Where
  <2>5. j = k
    BY <2>1, <2>4
  <2> QED
    BY <2>2, <2>3, <2>5
<1> QED
  BY <1>1, <1>2, <1>3

(* The tasks of a machine are what UnderWay counts.                        *)
LEMMA TasksCounted == TypeOK => \A h \in ConnHandles : Amount(Tasks, h, UnderWay(h))
<1> SUFFICES ASSUME TypeOK, NEW h \in ConnHandles PROVE Amount(Tasks, h, UnderWay(h))
  OBVIOUS
<1>1. /\ run_queues[0] \in Seq(RunQueueEvents) /\ run_queues[1] \in Seq(RunQueueEvents)
      /\ sq \in Seq(Sqes) /\ cq \in Seq(Cqes) /\ reads \in Seq(Reads)
      /\ intents \in Seq(IntentsOf(current))
  BY DEF TypeOK
<1>2. ASSUME NEW q \in {0, 1} PROVE Amount(QueueTasks(q), h, Count(run_queues[q], EventsFor(h)))
  <2>1. run_queues[q] \in Seq(RunQueueEvents)
    BY <1>1
  <2>2. \A e \in ToSet(run_queues[q]) : e.handle = h <=> e \in EventsFor(h)
    BY <2>1 DEF EventsFor, ToSet
  <2>3. \A t \in QueueTasks(q) : \E e \in ToSet(run_queues[q]) :
          t = EventTask(e) /\ (t.user = h <=> e \in EventsFor(h))
    BY <2>2 DEF QueueTasks, EventTask, Task
  <2>4. /\ Count(run_queues[q], EventsFor(h)) \in Nat
        /\ Count(run_queues[q], EventsFor(h)) = 0 =>
             \A e \in ToSet(run_queues[q]) : e \notin EventsFor(h)
        /\ Count(run_queues[q], EventsFor(h)) = 1 =>
             \A d, e \in ToSet(run_queues[q]) : d \in EventsFor(h) /\ e \in EventsFor(h) => d = e
    BY <2>1, CountTells, Zenon
  <2> QED
    BY <2>3, <2>4, Zenon DEF Amount
<1>3. Amount(SqeTasks, h, Count(sq, RequestsBy(h)))
  <2>1. \A r \in ToSet(sq) : r.user = h <=> r \in RequestsBy(h)
    BY <1>1 DEF RequestsBy, ToSet
  <2>2. \A t \in SqeTasks : \E r \in ToSet(sq) :
          t = Task("sqe", r.user, r) /\ (t.user = h <=> r \in RequestsBy(h))
    BY <2>1 DEF SqeTasks, Task
  <2>3. /\ Count(sq, RequestsBy(h)) \in Nat
        /\ Count(sq, RequestsBy(h)) = 0 => \A r \in ToSet(sq) : r \notin RequestsBy(h)
        /\ Count(sq, RequestsBy(h)) = 1 =>
             \A d, e \in ToSet(sq) : d \in RequestsBy(h) /\ e \in RequestsBy(h) => d = e
    BY <1>1, CountTells
  <2> QED
    BY <2>2, <2>3, Zenon DEF Amount
<1>4. Amount(ReadTasks, h, Count(reads, RequestsBy(h)))
  <2>1. \A r \in ToSet(reads) : r.user = h <=> r \in RequestsBy(h)
    BY <1>1 DEF RequestsBy, ToSet
  <2>2. \A t \in ReadTasks : \E r \in ToSet(reads) :
          t = Task("read", r.user, r) /\ (t.user = h <=> r \in RequestsBy(h))
    BY <2>1 DEF ReadTasks, Task
  <2>3. /\ Count(reads, RequestsBy(h)) \in Nat
        /\ Count(reads, RequestsBy(h)) = 0 => \A r \in ToSet(reads) : r \notin RequestsBy(h)
        /\ Count(reads, RequestsBy(h)) = 1 =>
             \A d, e \in ToSet(reads) : d \in RequestsBy(h) /\ e \in RequestsBy(h) => d = e
    BY <1>1, CountTells
  <2> QED
    BY <2>2, <2>3, Zenon DEF Amount
<1>5. Amount(PostedTasks, h, Count(cq, RequestsBy(h)))
  <2>1. \A r \in ToSet(cq) : r \in Cqes /\ (r.user = h <=> r \in RequestsBy(h))
    BY <1>1 DEF RequestsBy, ToSet
  <2>2. \A t \in PostedTasks : \E r \in ToSet(cq) :
          t = EventTask(EventOf(r)) /\ (t.user = h <=> r \in RequestsBy(h))
    BY <2>1, EventOfType DEF PostedTasks, EventTask, Task
  <2>3. /\ Count(cq, RequestsBy(h)) \in Nat
        /\ Count(cq, RequestsBy(h)) = 0 => \A r \in ToSet(cq) : r \notin RequestsBy(h)
        /\ Count(cq, RequestsBy(h)) = 1 =>
             \A d, e \in ToSet(cq) : d \in RequestsBy(h) /\ e \in RequestsBy(h) => d = e
    BY <1>1, CountTells
  <2> QED
    BY <2>2, <2>3, Zenon DEF Amount
<1>6. Amount(IntentTasks, h, IF current = h THEN Len(intents) ELSE 0)
  <2>1. \A t \in IntentTasks : \E x \in ToSet(intents) :
          t = Task("intent", current, x) /\ t.user = current
    BY DEF IntentTasks, Task
  <2>2. CASE current # h
    BY <2>1, <2>2 DEF Amount
  <2>3. CASE current = h
    <3>1. Len(intents) \in Nat /\ DOMAIN intents = 1 .. Len(intents)
      BY <1>1
    <3>2. Len(intents) = 0 => ToSet(intents) = {}
      BY <3>1 DEF ToSet
    <3>3. Len(intents) = 1 => \A x, y \in ToSet(intents) : x = y
      BY <3>1 DEF ToSet
    <3> QED
      BY <2>1, <2>3, <3>1, <3>2, <3>3, Zenon DEF Amount
  <2> QED
    BY <2>2, <2>3
<1>7. Amount(QueueTasks(0) \cup QueueTasks(1), h, InQueues(h))
  BY <1>2, AmountSum DEF InQueues, OfQueues
<1>8. Amount(SqeTasks \cup ReadTasks \cup PostedTasks, h, InRing(h))
  <2>1. Amount(SqeTasks \cup ReadTasks, h, Count(sq, RequestsBy(h)) + Count(reads, RequestsBy(h)))
    BY <1>3, <1>4, AmountSum, Zenon
  <2> QED
    BY <1>5, <2>1, AmountSum, Zenon DEF InRing
<1>9. Amount((QueueTasks(0) \cup QueueTasks(1)) \cup (SqeTasks \cup ReadTasks \cup PostedTasks),
             h, InQueues(h) + InRing(h))
  BY <1>7, <1>8, AmountSum, Zenon
<1>10. Amount(((QueueTasks(0) \cup QueueTasks(1)) \cup (SqeTasks \cup ReadTasks \cup PostedTasks))
                \cup IntentTasks, h, UnderWay(h))
  BY <1>6, <1>9, AmountSum, Zenon DEF UnderWay
<1>11. Tasks = ((QueueTasks(0) \cup QueueTasks(1)) \cup (SqeTasks \cup ReadTasks \cup PostedTasks))
                 \cup IntentTasks
  BY DEF Tasks
<1> QED
  BY <1>10, <1>11, Zenon

(* Whatever is under way is for a machine that is there, and the only      *)
(* thing under way for it.                                                 *)
OneTask(t) ==
  t.user \in ConnHandles => Resolves(t.user) /\ \A u \in Tasks : u.user = t.user => u = t

LEMMA TasksAreUnique ==
  TypeOK /\ ExactlyOne /\ panic = "no" => \A t \in Tasks : OneTask(t)
<1> SUFFICES ASSUME TypeOK, ExactlyOne, panic = "no", NEW t \in Tasks, t.user \in ConnHandles
             PROVE  Resolves(t.user) /\ \A u \in Tasks : u.user = t.user => u = t
  BY Zenon DEF OneTask
<1>1. Amount(Tasks, t.user, UnderWay(t.user))
  BY TasksCounted
<1>2. UnderWay(t.user) = IF Resolves(t.user) THEN 1 ELSE 0
  BY DEF ExactlyOne
<1> QED
  BY <1>1, <1>2, Zenon DEF Amount

-----------------------------------------------------------------------------
(* No byte of client c has been taken by a read, nor its end seen.         *)
Untouched(c) == sent[c] = 0 /\ c \notin fin

(* All that was taken of the stream of machine m's peer is in its buffer,  *)
(* and there may be more.                                                  *)
Reading(m) == sent[m.peer] = m.offset /\ m.peer \notin fin

(* The buffer of m starts with the first n bytes of its peer's stream.     *)
Stored(m, n) == \A k \in 0 .. n - 1 : mem[BufPtr(m.buf_handle.index) + k] = <<m.peer, k>>

(* A read of m has completed with result res.                              *)
Arrived(m, res) ==
  /\ m.state = "Recv"
  /\ IF res > 0
     THEN /\ sent[m.peer] = m.offset + res /\ m.peer \notin fin
          /\ m.offset + res <= BufSize /\ Stored(m, m.offset + res)
     ELSE sent[m.peer] = m.offset /\ (res = 0 <=> m.peer \in fin)

ReadSuits(m, r) ==
  /\ m.state = "Recv" /\ Reading(m)
  /\ r.addr = BufPtr(m.buf_handle.index) + m.offset /\ r.len = BufSize - m.offset

CloseSuits(m, s) == m.state = "Closing" /\ s = m.socket /\ files[m.socket] = m.peer

EventSuits(m, e) ==
  IF IsSpawn(e) THEN m.state = "Init"
  ELSE Arrived(m, e.reason.res) \/ (m.state = "Closing" /\ e.reason.res = 0)

SqeSuits(m, r) ==
  \/ r.op = "recv" /\ ReadSuits(m, r) /\ r.fixed = m.socket /\ r.buf = m.buf_handle.index
  \/ r.op = "close" /\ CloseSuits(m, r.fixed)

IntentSuits(m, x) ==
  \/ m.state = "Init" /\ x = Retry
  \/ m.state = "Recv" /\ Reading(m) /\ x = Recv(m)
  \/ CloseSuits(m, m.socket) /\ x = CloseFixed(m.socket)
  \/ m.state = "Closed" /\ x = Terminate

(* What is under way for a machine suits the state that the machine is in. *)
Suits(t) ==
  t.user \in ConnHandles =>
    LET m == conn_data[t.user.index]
    IN  /\ t.at = "event" => EventSuits(m, t.what)
        /\ t.at = "sqe" => SqeSuits(m, t.what)
        /\ t.at = "read" => ReadSuits(m, t.what) /\ t.what.conn = m.peer
        /\ t.at = "intent" => IntentSuits(m, t.what)

(* A machine has a peer, which is in the machine's slot as long as nobody  *)
(* has asked to close it, and has in its buffer what it says it has.       *)
Sound(i) ==
  Live(i) =>
    LET m == conn_data[i]
    IN  /\ m.peer \in Conns /\ m.peer \notin waiting
        /\ m.state \in {"Init", "Recv"} => files[m.socket] = m.peer
        /\ m.state = "Init" => Untouched(m.peer) /\ m.offset = 0
        /\ m.state = "Recv" => m.offset <= BufSize /\ Stored(m, m.offset)
        /\ m.state = "Recv" /\ m.phase = "ReceivingBody" =>
             \A k \in 0 .. HdrSize - 1 : m.header[k] = <<m.peer, k>>

TasksSuit == \A t \in Tasks : Suits(t)

MachinesSound == \A i \in 0 .. NHandlers - 1 : Sound(i)

(* A step leaves machine j alone, and all that its tasks depend on.        *)
Kept(j) ==
  LET m == conn_data[j]
  IN  /\ conn_data'[j] = m
      /\ sent'[m.peer] = sent[m.peer] /\ (m.peer \in fin' <=> m.peer \in fin)
      /\ m.peer \in waiting' => m.peer \in waiting
      /\ files[m.socket] = m.peer => files'[m.socket] = m.peer
      /\ m.state = "Recv" =>
           \A k \in 0 .. BufSize - 1 :
             mem'[BufPtr(m.buf_handle.index) + k] = mem[BufPtr(m.buf_handle.index) + k]

LEMMA KeptStored ==
  ASSUME NEW m, m.state = "Recv", NEW n \in Int, n <= BufSize,
         \A k \in 0 .. BufSize - 1 :
           mem'[BufPtr(m.buf_handle.index) + k] = mem[BufPtr(m.buf_handle.index) + k],
         Stored(m, n)
  PROVE  \A k \in 0 .. n - 1 : mem'[BufPtr(m.buf_handle.index) + k] = <<m.peer, k>>
<1> SUFFICES ASSUME NEW k \in 0 .. n - 1
             PROVE  mem'[BufPtr(m.buf_handle.index) + k] = <<m.peer, k>>
  OBVIOUS
<1>0. BufSize \in Nat
  BY Zenon
<1>1. k \in 0 .. BufSize - 1
  <2>1. \A a \in Int, b \in Nat : a <= b => \A i \in 0 .. a - 1 : i \in 0 .. b - 1
    BY ONLY SMT
  <2> QED
    BY <1>0, <2>1, Zenon
<1> QED
  BY <1>1, Zenon DEF Stored

LEMMA KeptSound ==
  ASSUME TypeOK, NEW j \in 0 .. NHandlers - 1, Kept(j), Sound(j)
  PROVE  Sound(j)'
<1> DEFINE m == conn_data[j]
<1> SUFFICES ASSUME Live(j) PROVE Sound(j)'
  BY Zenon DEF Sound, Live, Kept
<1>1. m \in ConnHandlers
  BY DEF TypeOK, Live
<1>2. /\ conn_data'[j] = m
      /\ sent'[m.peer] = sent[m.peer] /\ (m.peer \in fin' <=> m.peer \in fin)
      /\ m.peer \in waiting' => m.peer \in waiting
      /\ files[m.socket] = m.peer => files'[m.socket] = m.peer
  BY Zenon DEF Kept
<1>3. m.state = "Recv" => m.offset \in Int /\ m.offset <= BufSize /\ Stored(m, m.offset)
  BY <1>1 DEF Sound, ConnHandlers, Machines
<1>4. m.state = "Recv" =>
        \A k \in 0 .. m.offset - 1 : mem'[BufPtr(m.buf_handle.index) + k] = <<m.peer, k>>
  BY <1>3, KeptStored, Zenon DEF Kept
<1> HIDE DEF m
<1> QED
  BY <1>2, <1>3, <1>4, Zenon DEF Sound, Live, Untouched, Stored, m

LEMMA KeptSuits ==
  ASSUME TypeOK, NEW t, t.user \in ConnHandles, Live(t.user.index), Kept(t.user.index),
         Suits(t), Sound(t.user.index),
         t.at = "event" => t.what \in RunQueueEvents /\ t.what.reason.res \in Int
  PROVE  Suits(t)'
<1> DEFINE j == t.user.index
           m == conn_data[j]
<1>0. j \in 0 .. NHandlers - 1 /\ t.user \in ConnHandles
  BY DEF ConnHandles
<1>1. m \in ConnHandlers
  BY <1>0 DEF TypeOK, Live
<1>2. /\ conn_data'[j] = m
      /\ sent'[m.peer] = sent[m.peer] /\ (m.peer \in fin' <=> m.peer \in fin)
      /\ files[m.socket] = m.peer => files'[m.socket] = m.peer
  BY Zenon DEF Kept
<1>3. m.offset \in Int
  BY <1>1 DEF ConnHandlers, Machines
<1>31. m.state = "Recv" =>
         \A k \in 0 .. BufSize - 1 :
           mem'[BufPtr(m.buf_handle.index) + k] = mem[BufPtr(m.buf_handle.index) + k]
  BY Zenon DEF Kept
<1> HIDE DEF m, j
<1>4. \A res \in Int : Arrived(m, res) => Arrived(m, res)'
  <2> SUFFICES ASSUME NEW res \in Int, Arrived(m, res)
               PROVE  Arrived(m, res)'
    OBVIOUS
  <2>1. m' = m
    BY <1>2 DEF m
  <2>4. CASE res > 0
    <3>1. m.offset + res \in Int /\ m.offset + res <= BufSize /\ Stored(m, m.offset + res)
      BY <1>3, <2>4 DEF Arrived
    <3>2. m.state = "Recv" /\ sent[m.peer] = m.offset + res /\ m.peer \notin fin
      BY <2>4, Zenon DEF Arrived
    <3> DEFINE n == m.offset + res
    <3>3. n \in Int /\ n <= BufSize /\ Stored(m, n) /\ sent[m.peer] = n
      BY <3>1, <3>2
    <3> HIDE DEF n
    <3>4. \A k \in 0 .. n - 1 : mem'[BufPtr(m.buf_handle.index) + k] = <<m.peer, k>>
      BY <1>31, <3>2, <3>3, KeptStored, Zenon
    <3>5. Stored(m, n)'
      BY <2>1, <3>4, Zenon DEF Stored, n
    <3> QED
      BY <1>2, <2>1, <2>4, <3>1, <3>2, <3>5, Zenon DEF Arrived, n
  <2>5. CASE ~(res > 0)
    BY <1>2, <2>1, <2>5, Zenon DEF Arrived
  <2> QED
    BY <2>4, <2>5
<1>5. m' = m /\ (Reading(m) => Reading(m)') /\ (\A s : CloseSuits(m, s) => CloseSuits(m, s)')
  BY <1>2, Zenon DEF m, Reading, CloseSuits
<1>6. t.at = "event" => (EventSuits(m, t.what) => EventSuits(m, t.what)')
  BY <1>4, <1>5, Zenon DEF EventSuits
<1>7. SqeSuits(m, t.what) => SqeSuits(m, t.what)'
  BY <1>5, Zenon DEF SqeSuits, ReadSuits
<1>8. IntentSuits(m, t.what) => IntentSuits(m, t.what)'
  BY <1>5, Zenon DEF IntentSuits
<1>9. ReadSuits(m, t.what) => ReadSuits(m, t.what)'
  BY <1>5, Zenon DEF ReadSuits
<1> QED
  BY <1>5, <1>6, <1>7, <1>8, <1>9, Zenon DEF Suits, m, j

LEMMA TaskEvents ==
  TypeOK => \A t \in Tasks : t.at = "event" =>
    t.what \in RunQueueEvents /\ t.what.reason.res \in Int /\ t.user = t.what.handle
<1> SUFFICES ASSUME TypeOK, NEW t \in Tasks, t.at = "event"
             PROVE  t.what \in RunQueueEvents /\ t.user = t.what.handle
  BY DEF RunQueueEvents, Events, AcceptResults
<1>1. /\ run_queues[0] \in Seq(RunQueueEvents) /\ run_queues[1] \in Seq(RunQueueEvents)
      /\ cq \in Seq(Cqes)
  BY DEF TypeOK
<1>2. /\ \A q \in {0, 1} : \A e \in ToSet(run_queues[q]) : e \in RunQueueEvents
      /\ \A r \in ToSet(cq) : EventOf(r) \in RunQueueEvents
  BY <1>1, EventOfType DEF ToSet
<1>3. \E e \in RunQueueEvents : t = EventTask(e)
  BY <1>2 DEF Tasks, QueueTasks, PostedTasks, SqeTasks, ReadTasks, IntentTasks, Task, EventTask
<1> QED
  BY <1>3 DEF EventTask, Task

(* The tasks of a machine that is left alone still suit it.                *)
LEMMA OthersSuit ==
  ASSUME TypeOK, ExactlyOne, panic = "no", TasksSuit, MachinesSound,
         NEW t \in Tasks, t.user \in ConnHandles, Live(t.user.index) => Kept(t.user.index)
  PROVE  Suits(t)'
<1>1. t.user.index \in 0 .. NHandlers - 1
  BY DEF ConnHandles
<1>2. Resolves(t.user)
  BY TasksAreUnique DEF OneTask
<1>3. Live(t.user.index) /\ Suits(t) /\ Sound(t.user.index)
  BY <1>1, <1>2, Zenon DEF Resolves, TasksSuit, MachinesSound
<1> QED
  BY <1>3, KeptSuits, TaskEvents

(* Machines that a step leaves alone stay sound, and so do places of the   *)
(* pool that stay empty.                                                   *)
LeftAlone(j) == conn_data'[j] = conn_data[j] /\ (Live(j) => Kept(j))

LEMMA OthersSound ==
  ASSUME TypeOK, MachinesSound, NEW j \in 0 .. NHandlers - 1, LeftAlone(j)
  PROVE  Sound(j)'
<1>1. CASE Live(j)
  BY <1>1, KeptSound DEF LeftAlone, MachinesSound
<1>2. CASE ~Live(j)
  BY <1>2, Zenon DEF LeftAlone, Sound, Live
<1> QED
  BY <1>1, <1>2

LEMMA QuietTasks ==
  ASSUME TypeOK, ExactlyOne, panic = "no", TasksSuit, MachinesSound,
         \A j \in 0 .. NHandlers - 1 : LeftAlone(j),
         \A t \in Tasks' : t \in Tasks \/ t.user \notin ConnHandles
  PROVE  TasksSuit' /\ MachinesSound'
<1>1. MachinesSound'
  BY OthersSound DEF MachinesSound
<1>2. ASSUME NEW t \in Tasks', t.user \in ConnHandles
      PROVE  Suits(t)'
  <2>1. t.user.index \in 0 .. NHandlers - 1
    BY <1>2 DEF ConnHandles
  <2> QED
    BY <1>2, <2>1, OthersSuit DEF LeftAlone
<1>3. ASSUME NEW t \in Tasks', t.user \notin ConnHandles
      PROVE  Suits(t)'
  BY <1>3, Zenon DEF Suits
<1> QED
  BY <1>1, <1>2, <1>3, Zenon DEF TasksSuit

(* A step with machine i: the others are left alone, and i, if it is still *)
(* there, has a new task that suits it, which is then its only one.        *)
LEMMA ActiveTasks ==
  ASSUME TypeOK, ExactlyOne, panic = "no", TasksSuit, MachinesSound,
         TypeOK', ExactlyOne', panic' = "no",
         NEW i \in 0 .. NHandlers - 1,
         \A j \in (0 .. NHandlers - 1) \ {i} : LeftAlone(j),
         \A t \in Tasks' : t.user \in ConnHandles => t \in Tasks \/ t.user.index = i,
         \/ ~Live(i)'
         \/ Sound(i)' /\ \E n \in Tasks' : n.user \in ConnHandles /\ n.user.index = i /\ Suits(n)'
  PROVE  TasksSuit' /\ MachinesSound'
<1>1. \A j \in (0 .. NHandlers - 1) \ {i} : Sound(j)'
  BY OthersSound
<1>2. Sound(i)'
  BY Zenon DEF Sound
<1>3. MachinesSound'
  BY <1>1, <1>2 DEF MachinesSound
<1>4. (\A t \in Tasks : OneTask(t))'
  <2>1. (TypeOK /\ ExactlyOne /\ panic = "no" => \A t \in Tasks : OneTask(t))'
    BY TasksAreUnique, PTL
  <2> QED
    BY <2>1, Zenon
<1>5. ASSUME NEW t \in Tasks', t.user \in ConnHandles
      PROVE  Suits(t)'
  <2>1. t.user.index \in 0 .. NHandlers - 1
    BY <1>5 DEF ConnHandles
  <2>2. Resolves(t.user)' /\ \A u \in Tasks' : u.user = t.user => u = t
    BY <1>4, <1>5, Zenon DEF OneTask
  <2>3. CASE t.user.index # i
    BY <1>5, <2>1, <2>3, OthersSuit DEF LeftAlone
  <2>4. CASE t.user.index = i
    <3>1. Live(i)'
      BY <2>2, <2>4, Zenon DEF Resolves
    <3>2. PICK n \in Tasks' : n.user \in ConnHandles /\ n.user.index = i /\ Suits(n)'
      BY <3>1
    <3>3. Resolves(n.user)'
      BY <1>4, <3>2, Zenon DEF OneTask
    <3>4. n.user.generation = t.user.generation
      BY <2>2, <2>4, <3>2, <3>3, Zenon DEF Resolves
    <3>5. n.user = t.user
      BY <1>5, <2>4, <3>2, <3>4 DEF ConnHandles
    <3>6. n = t
      BY <2>2, <3>2, <3>5, Zenon
    <3> QED
      BY <3>2, <3>6
  <2> QED
    BY <2>3, <2>4
<1>6. ASSUME NEW t \in Tasks', t.user \notin ConnHandles
      PROVE  Suits(t)'
  BY <1>6, Zenon DEF Suits
<1> QED
  BY <1>3, <1>5, <1>6, Zenon DEF TasksSuit

-----------------------------------------------------------------------------
(* Accepts on their way to a machine.  Events of S in the queues or about  *)
(* to be moved there:                                                      *)
OnWay(S) == Count(ThisQueue, S) + Count(NextQueue, S) + Count(Posted, S)

AcceptsOf(R) == {e \in TcpCompletions : e.reason.res \in R}

SpawnsOf(R) == {SpawnConnHandler(s) : s \in R}

(* Accepts with a result in R that have not led to a machine yet.          *)
Incoming(R) == OnWay(AcceptsOf(R)) + Count(intents, SpawnsOf(R))

OnWayCounts ==
  \A S : /\ Count(ThisQueue, S) \in Nat /\ Count(NextQueue, S) \in Nat
         /\ Count(Posted, S) \in Nat /\ OnWay(S) \in Nat

LEMMA OnWayType == TypeOK => OnWayCounts
<1> SUFFICES ASSUME TypeOK, NEW S
             PROVE  /\ Count(ThisQueue, S) \in Nat /\ Count(NextQueue, S) \in Nat
                    /\ Count(Posted, S) \in Nat /\ OnWay(S) \in Nat
  BY Zenon DEF OnWayCounts
<1>1. Count(ThisQueue, S) \in Nat /\ Count(NextQueue, S) \in Nat /\ Count(Posted, S) \in Nat
  BY WayTypes, CountType, Zenon
<1> QED
  BY <1>1 DEF OnWay

IncomingCounts == \A R : Count(intents, SpawnsOf(R)) \in Nat /\ Incoming(R) \in Nat

LEMMA IncomingType == TypeOK => IncomingCounts
<1> SUFFICES ASSUME TypeOK, NEW R
             PROVE  Count(intents, SpawnsOf(R)) \in Nat /\ Incoming(R) \in Nat
  BY Zenon DEF IncomingCounts
<1>1. intents \in Seq(IntentsOf(current))
  BY DEF TypeOK
<1>2. Count(intents, SpawnsOf(R)) \in Nat
  BY <1>1, CountType, Zenon
<1>3. OnWay(AcceptsOf(R)) \in Nat
  BY OnWayType, Zenon DEF OnWayCounts
<1> QED
  BY <1>2, <1>3 DEF Incoming

(* How a step changes what is on the way: a pop takes an event away, the   *)
(* kernel adds one, and otherwise only the first events of machines come.  *)
LEMMA PopOnWay ==
  ASSUME TypeOK, TypeOK', Pop, NEW S
  PROVE  OnWay(S) = OnWay(S)' + (IF NextEvent \in S THEN 1 ELSE 0)
<1>1. PopsEvent
  BY PopWay
<1>2. ThisQueue \in Seq(RunQueueEvents)
  BY WayTypes
<1>3. Count(ThisQueue, S) = Count(ThisQueue, S)' + (IF NextEvent \in S THEN 1 ELSE 0)
  BY <1>1, <1>2, CountTail DEF PopsEvent
<1>4. Count(NextQueue, S)' = Count(NextQueue, S) /\ Count(Posted, S)' = Count(Posted, S)
  BY <1>1, Zenon DEF PopsEvent
<1>5. (TypeOK => OnWayCounts)'
  BY OnWayType, PTL
<1>6. PICK a, b, c \in Nat :
        a = Count(ThisQueue, S)' /\ b = Count(NextQueue, S) /\ c = Count(Posted, S)
  BY <1>5, OnWayType, Zenon DEF OnWayCounts
<1>7. OnWay(S)' = a + b + c
  BY <1>4, <1>6, Zenon DEF OnWay
<1>8. OnWay(S) = (a + (IF NextEvent \in S THEN 1 ELSE 0)) + b + c
  BY <1>3, <1>6, Zenon DEF OnWay
<1> QED
  BY <1>7, <1>8

LEMMA NextOnWay ==
  ASSUME TypeOK, TypeOK', QueueDrained, [Next]_vars, ~Pop,
         NEW S, \A e \in S : ~IsSpawn(e)
  PROVE  \/ OnWay(S)' = OnWay(S)
         \/ KernelStep /\ \E r \in Cqes :
              PostsEvent(r) /\ OnWay(S)' = OnWay(S) + (IF EventOf(r) \in S THEN 1 ELSE 0)
<1>1. /\ ThisQueue \in Seq(RunQueueEvents) /\ NextQueue \in Seq(RunQueueEvents)
      /\ Posted \in Seq(RunQueueEvents)
  BY WayTypes
<1>2. PICK a, b, c \in Nat :
        a = Count(ThisQueue, S) /\ b = Count(NextQueue, S) /\ c = Count(Posted, S)
  BY OnWayType, Zenon DEF OnWayCounts
<1>3. OnWay(S) = a + b + c
  BY <1>2 DEF OnWay
<1>4. Count(<< >>, S) = 0
  BY CountShort
<1>5. CASE WayKept
  BY <1>5, Zenon DEF WayKept, OnWay
<1>6. CASE PushesSpawn
  <2>1. PICK e \in RunQueueEvents :
          /\ IsSpawn(e) /\ Posted' = Posted
          /\ \/ ThisQueue' = Append(ThisQueue, e) /\ NextQueue' = NextQueue
             \/ ThisQueue' = ThisQueue /\ NextQueue' = Append(NextQueue, e)
    BY <1>6 DEF PushesSpawn
  <2>2. e \notin S
    BY <2>1, Zenon
  <2>3. /\ Count(Append(ThisQueue, e), S) = a + 0
        /\ Count(Append(NextQueue, e), S) = b + 0
    BY <1>1, <1>2, <2>2, CountAppend
  <2>4. Count(ThisQueue', S) = a /\ Count(NextQueue', S) = b /\ Count(Posted', S) = c
    <3>1. Count(Append(ThisQueue, e), S) = a /\ Count(Append(NextQueue, e), S) = b
      BY <2>3
    <3> QED
      BY <1>2, <2>1, <3>1, Zenon
  <2>5. OnWay(S)' = a + b + c
    BY <2>4, Zenon DEF OnWay
  <2> QED
    BY <1>3, <2>5
<1>7. CASE ReapsEvent
  <2>1. Head(Posted) \in RunQueueEvents
    BY <1>1, <1>7 DEF ReapsEvent
  <2>2. PICK d \in {0, 1} : d = IF Head(Posted) \in S THEN 1 ELSE 0
    OBVIOUS
  <2>3. Count(NextQueue', S) = b + d
    BY <1>1, <1>2, <1>7, <2>1, <2>2, CountAppend DEF ReapsEvent
  <2>4. c = Count(Posted', S) + d
    BY <1>1, <1>2, <1>7, <2>2, CountTail DEF ReapsEvent
  <2>5. a = 0 /\ Count(ThisQueue', S) = 0
    BY <1>2, <1>4, <1>7 DEF ReapsEvent
  <2>6. Count(Posted', S) = c - d
    <3>1. (TypeOK => OnWayCounts)'
      BY OnWayType, PTL
    <3>2. Count(Posted', S) \in Nat
      BY <3>1, Zenon DEF OnWayCounts
    <3> QED
      BY <2>4, <3>2
  <2>7. OnWay(S)' = 0 + (b + d) + (c - d)
    BY <2>3, <2>5, <2>6, Zenon DEF OnWay
  <2>8. OnWay(S)' = b + c /\ OnWay(S) = b + c
    BY <1>3, <2>5, <2>7
  <2> QED
    BY <2>8
<1>8. CASE SwapsQueues
  <2>1. a = 0 /\ c = 0 /\ Count(ThisQueue', S) = b /\ Count(NextQueue', S) = 0 /\ Count(Posted', S) = 0
    BY <1>2, <1>4, <1>8 DEF SwapsQueues
  <2>2. OnWay(S)' = b + 0 + 0
    BY <2>1, Zenon DEF OnWay
  <2> QED
    BY <1>3, <2>1, <2>2
<1>9. ASSUME KernelStep, NEW r \in Cqes, PostsEvent(r)
      PROVE  OnWay(S)' = OnWay(S) + (IF EventOf(r) \in S THEN 1 ELSE 0)
  <2>1. PICK d \in {0, 1} : d = IF EventOf(r) \in S THEN 1 ELSE 0
    OBVIOUS
  <2>2. EventOf(r) \in RunQueueEvents
    BY EventOfType
  <2>3. Count(Posted', S) = c + d
    BY <1>1, <1>2, <1>9, <2>1, <2>2, CountAppend DEF PostsEvent
  <2>4. Count(ThisQueue', S) = a /\ Count(NextQueue', S) = b
    BY <1>2, <1>9, Zenon DEF PostsEvent
  <2>5. OnWay(S)' = a + b + (c + d)
    BY <2>3, <2>4, Zenon DEF OnWay
  <2> QED
    BY <1>3, <2>1, <2>5
<1>10. ~PopsEvent
  BY DEF PopsEvent
<1> QED
  BY <1>5, <1>6, <1>7, <1>8, <1>9, <1>10, NextWay, Zenon

(* Outside of a dispatch, intents only go away. *)
LEMMA IntentsGo ==
  ASSUME [Next]_vars, ~Pop
  PROVE  intents' = intents \/ (intents # << >> /\ intents' = Tail(intents))
<1>1. ASSUME NEW site, Crash(site) PROVE intents' = intents
  BY <1>1 DEF Crash
<1>2. CASE UNCHANGED vars
  BY <1>2 DEF vars, contextVars
<1>3. CASE CompleteRetry \/ CompleteSpawn \/ CompleteTerminate
  BY <1>1, <1>3 DEF CompleteRetry, CompleteSpawn, CompleteTerminate, IntentDone, AtIntent
<1>4. ASSUME NEW r, EnqueueFor(r) PROVE intents' = intents \/ intents' = Tail(intents)
  BY <1>1, <1>4 DEF EnqueueFor, IntentDone
<1>5. CASE CompleteAccept \/ CompleteRecv \/ CompleteClose
  BY <1>1, <1>4, <1>5 DEF CompleteAccept, CompleteRecv, CompleteClose, AtIntent
<1>6. CASE KernelStep
  BY <1>6 DEF KernelStep, EnterIssues, KernelAccepts, KernelRefuses, KernelReads, KernelFails,
       KernelEnds, ProgramUnchanged, contextVars
<1>7. CASE \/ DrainDone \/ IntentsDone \/ SubmitShortcut \/ SubmitEnter \/ EnterReturns
           \/ EnterError \/ Reap \/ ReapDone
  BY <1>1, <1>7 DEF DrainDone, IntentsDone, SubmitShortcut, SubmitEnter, EnterReturns, EnterError,
       Reap, ReapDone, contextVars
<1>8. CASE DispatchTcp \/ DispatchConn \/ DispatchMissing
  BY <1>8 DEF DispatchTcp, DispatchConn, DispatchMissing
<1> QED
  BY <1>2, <1>3, <1>5, <1>6, <1>7, <1>8 DEF Next, Thread, KernelStep

(* The listener asks for at most one machine for an accept, and for none   *)
(* otherwise.                                                              *)
LEMMA ListenerSpawns ==
  ASSUME TypeOK, DispatchTcp, NEW R
  PROVE  \/ Count(intents', SpawnsOf(R)) = 0
         \/ Count(intents', SpawnsOf(R)) = 1 /\ NextEvent \in AcceptsOf(R)
<1> DEFINE e == NextEvent.reason
           s == SubmitMultishotAccept
           x == SpawnConnHandler(e.res)
<1>1. /\ Pop /\ NextEvent.handle.pool = TCP_SERVER /\ TcpProcessEvent(e)
  BY DEF DispatchTcp
<1>2. NextEvent.handle = TcpHandle /\ e \in Events(AcceptResults) /\ NextEvent \in RunQueueEvents
      /\ intents = << >>
  BY <1>1, PopEventType, EventKinds
<1>3. s \notin SpawnsOf(R) /\ (x \in SpawnsOf(R) <=> e.res \in R)
  BY DEF SpawnsOf, SpawnConnHandler, SubmitMultishotAccept, Intent
<1>4. /\ Count(<< >>, SpawnsOf(R)) = 0
      /\ Count(<<s>>, SpawnsOf(R)) = 0
      /\ Count(<<x>>, SpawnsOf(R)) = IF e.res \in R THEN 1 ELSE 0
      /\ Count(<<x>> \o <<s>>, SpawnsOf(R)) = IF e.res \in R THEN 1 ELSE 0
  <2> DEFINE T == {s, x}
  <2>1. s \in T /\ x \in T
    OBVIOUS
  <2> HIDE DEF s, x, T
  <2>2. /\ Count(<< >>, SpawnsOf(R)) = 0
        /\ Count(<<s>>, SpawnsOf(R)) = IF s \in SpawnsOf(R) THEN 1 ELSE 0
        /\ Count(<<x>>, SpawnsOf(R)) = IF x \in SpawnsOf(R) THEN 1 ELSE 0
        /\ Count(<<x>> \o <<s>>, SpawnsOf(R))
             = (IF x \in SpawnsOf(R) THEN 1 ELSE 0) + (IF s \in SpawnsOf(R) THEN 1 ELSE 0)
    BY <2>1, CountShort
  <2> QED
    BY <1>3, <2>2
<1>5. CASE intents' = << >> \/ intents' = <<s>>
  BY <1>4, <1>5
<1>6. CASE TcpExpects(e) /\ OnAccepted(e.res, e.more)
  <2>1. e.kind = "IoCompleted" /\ (intents' = <<x>> \/ intents' = <<x>> \o <<s>>)
    <3>1. \A z : z \o << >> = z \/ TRUE
      OBVIOUS
    <3> HIDE DEF x, s
    <3>2. <<x>> \o << >> = <<x>>
      OBVIOUS
    <3> QED
      BY <1>6, <3>2 DEF TcpExpects, OnAccepted, x, s
  <2>2. e.res \in R => NextEvent \in AcceptsOf(R)
    BY <1>2, <2>1 DEF AcceptsOf, TcpCompletions
  <2> QED
    BY <1>4, <2>1, <2>2
<1> QED
  BY <1>1, <1>2, <1>5, <1>6 DEF TcpProcessEvent, OnListen, OnAcceptErr, OnTcpUnexpected

(* Machines ask for no machines. *)
LEMMA MachinesSpawnNothing ==
  ASSUME TypeOK', NEW R, current' \in ConnHandles
  PROVE  Count(intents', SpawnsOf(R)) = 0
<1>1. current' # TcpHandle
  BY HandleKinds
<1>2. intents' \in Seq(ConnIntents)
  BY <1>1 DEF TypeOK, IntentsOf
<1>3. \A x \in ConnIntents : x \notin SpawnsOf(R)
  BY DEF ConnIntents, SpawnsOf, SpawnConnHandler, Retry, Terminate, CloseFixed, Intent
<1>4. \A k \in DOMAIN intents' : intents'[k] \notin SpawnsOf(R)
  BY <1>2, <1>3
<1> QED
  BY <1>2, <1>4, CountType

LEMMA AcceptsAreAccepts ==
  \A R : /\ \A e \in AcceptsOf(R) : ~IsSpawn(e) /\ e.handle = TcpHandle
         /\ \A r \in Cqes : EventOf(r) \in AcceptsOf(R) <=> r.user = TcpHandle /\ r.res \in R
<1> SUFFICES ASSUME NEW R
             PROVE  /\ \A e \in AcceptsOf(R) : ~IsSpawn(e) /\ e.handle = TcpHandle
                    /\ \A r \in Cqes :
                         EventOf(r) \in AcceptsOf(R) <=> r.user = TcpHandle /\ r.res \in R
  BY Zenon
<1>1. \A e \in AcceptsOf(R) : ~IsSpawn(e) /\ e.handle = TcpHandle
  BY DEF AcceptsOf, TcpCompletions, IsSpawn
<1>2. \A r \in Cqes : EventOf(r) \in AcceptsOf(R) <=> r.user = TcpHandle /\ r.res \in R
  BY EventOfType, Zenon DEF AcceptsOf, TcpCompletions
<1> QED
  BY <1>1, <1>2

(* Accepts come from the kernel only. *)
LEMMA NextIncoming ==
  ASSUME TypeOK, TypeOK', QueueDrained, [Next]_vars, NEW R
  PROVE  \/ Incoming(R)' <= Incoming(R)
         \/ KernelStep /\ \E r \in Cqes :
              /\ PostsEvent(r) /\ r.user = TcpHandle /\ r.res \in R
              /\ Incoming(R)' <= Incoming(R) + 1
<1>1. (TypeOK => OnWayCounts)'
  BY OnWayType, PTL
<1>2. (TypeOK => IncomingCounts)'
  BY IncomingType, PTL
<1>3. PICK a, b, c, d \in Nat :
        /\ a = OnWay(AcceptsOf(R)) /\ b = Count(intents, SpawnsOf(R))
        /\ c = OnWay(AcceptsOf(R))' /\ d = Count(intents', SpawnsOf(R))
  BY <1>1, <1>2, OnWayType, IncomingType, Zenon DEF OnWayCounts, IncomingCounts
<1>4. Incoming(R) = a + b /\ Incoming(R)' = c + d
  BY <1>3, Zenon DEF Incoming
<1>5. CASE Pop
  <2>1. a = c + (IF NextEvent \in AcceptsOf(R) THEN 1 ELSE 0)
    BY <1>3, <1>5, PopOnWay
  <2>2. d = 0 \/ (d = 1 /\ NextEvent \in AcceptsOf(R))
    <3>1. CASE DispatchTcp
      BY <1>3, <3>1, ListenerSpawns, Zenon
    <3>2. CASE DispatchConn \/ DispatchMissing
      <4>1. current' \in ConnHandles
        BY <1>5, <3>2, PopEventType, EventKinds DEF DispatchConn, DispatchMissing
      <4> QED
        BY <1>3, <4>1, MachinesSpawnNothing, Zenon
    <3>3. CASE ~(DispatchTcp \/ DispatchConn \/ DispatchMissing)
      <4>1. pc = "drain" /\ pc' = "intents" /\ run_queues' # run_queues
        <5>1. run_queues[current_run_queue] # << >> /\ run_queues \in [{0, 1} -> Seq(RunQueueEvents)]
              /\ current_run_queue \in {0, 1}
          BY <1>5 DEF Pop, TypeOK
        <5>2. Tail(run_queues[current_run_queue]) # run_queues[current_run_queue]
          BY <5>1, TailShorter
        <5> QED
          BY <1>5, <5>1, <5>2 DEF Pop
      <4>2. FALSE
        BY <3>3, <4>1 DEF Next, Thread, vars, loopVars, At, AtIntent, DrainDone,
             CompleteRetry, CompleteAccept, CompleteSpawn, CompleteRecv, CompleteClose,
             CompleteTerminate, IntentsDone, SubmitShortcut, SubmitEnter, EnterIssues, EnterReturns,
             EnterError, Reap, ReapDone, KernelAccepts, KernelRefuses, KernelReads, KernelFails,
             KernelEnds, ProgramUnchanged
      <4> QED
        BY <4>2
    <3> QED
      BY <3>1, <3>2, <3>3
  <2>3. c + d <= a + b
    BY <2>1, <2>2
  <2> QED
    BY <1>4, <2>3
<1>6. CASE ~Pop
  <2>1. d <= b
    <3>1. intents \in Seq(IntentsOf(current))
      BY DEF TypeOK
    <3>2. intents # << >> =>
            b = Count(Tail(intents), SpawnsOf(R)) + (IF Head(intents) \in SpawnsOf(R) THEN 1 ELSE 0)
      BY <1>3, <3>1, CountTail
    <3>3. CASE intents' = intents
      BY <1>3, <3>3
    <3>4. CASE intents # << >> /\ intents' = Tail(intents)
      <4>1. b = d + (IF Head(intents) \in SpawnsOf(R) THEN 1 ELSE 0)
        BY <1>3, <3>2, <3>4
      <4> QED
        BY <4>1
    <3> QED
      BY <1>6, <3>3, <3>4, IntentsGo
  <2>2. CASE c = a
    BY <1>4, <2>1, <2>2
  <2>3. ASSUME KernelStep, NEW r \in Cqes, PostsEvent(r),
               c = a + (IF EventOf(r) \in AcceptsOf(R) THEN 1 ELSE 0)
        PROVE  \/ Incoming(R)' <= Incoming(R)
               \/ /\ PostsEvent(r) /\ r.user = TcpHandle /\ r.res \in R
                  /\ Incoming(R)' <= Incoming(R) + 1
    <3>1. CASE EventOf(r) \in AcceptsOf(R)
      <4>1. r.user = TcpHandle /\ r.res \in R
        BY <3>1, AcceptsAreAccepts, Zenon
      <4>2. c + d <= a + b + 1
        BY <2>1, <2>3, <3>1
      <4> QED
        BY <1>4, <2>3, <4>1, <4>2
    <3>2. CASE EventOf(r) \notin AcceptsOf(R)
      <4>1. c + d <= a + b
        BY <2>1, <2>3, <3>2
      <4> QED
        BY <1>4, <4>1
    <3> QED
      BY <3>1, <3>2
  <2>4. \/ c = a
        \/ KernelStep /\ \E r \in Cqes :
             PostsEvent(r) /\ c = a + (IF EventOf(r) \in AcceptsOf(R) THEN 1 ELSE 0)
    <3>1. \A e \in AcceptsOf(R) : ~IsSpawn(e)
      BY AcceptsAreAccepts, Zenon
    <3> QED
      BY <1>3, <1>6, <3>1, NextOnWay, Zenon
  <2> QED
    BY <2>2, <2>3, <2>4, Zenon
<1> QED
  BY <1>5, <1>6

(* The machine that an accept leads to takes it away. *)
LEMMA SpawnIncoming ==
  ASSUME TypeOK, TypeOK', QueueDrained, CompleteSpawn, panic' = "no", NEW R,
         NEW s \in R, Head(intents) = SpawnConnHandler(s)
  PROVE  Incoming(R) = Incoming(R)' + 1
<1>1. (TypeOK => OnWayCounts)'
  BY OnWayType, PTL
<1>2. (TypeOK => IncomingCounts)'
  BY IncomingType, PTL
<1>3. PICK a, b, c, d \in Nat :
        /\ a = OnWay(AcceptsOf(R)) /\ b = Count(intents, SpawnsOf(R))
        /\ c = OnWay(AcceptsOf(R))' /\ d = Count(intents', SpawnsOf(R))
  BY <1>1, <1>2, OnWayType, IncomingType, Zenon DEF OnWayCounts, IncomingCounts
<1>4. Incoming(R) = a + b /\ Incoming(R)' = c + d
  BY <1>3, Zenon DEF Incoming
<1>5. intents # << >> /\ intents' = Tail(intents) /\ intents \in Seq(IntentsOf(current))
  BY SpawnStep DEF IntentDone, TypeOK
<1>6. b = d + 1
  BY <1>3, <1>5, CountTail DEF SpawnsOf
<1>7. c = a
  <2>1. \A e \in AcceptsOf(R) : ~IsSpawn(e)
    BY AcceptsAreAccepts, Zenon
  <2>2. ~Pop
    BY DEF Pop, CompleteSpawn, AtIntent
  <2>3. [Next]_vars
    BY DEF Next, Thread
  <2>4. ~KernelStep
    <3>1. Tail(intents) # intents
      BY <1>5, TailShorter
    <3> QED
      BY <1>5, <3>1 DEF KernelStep, EnterIssues, contextVars, KernelAccepts, KernelRefuses,
           KernelReads, KernelFails, KernelEnds, ProgramUnchanged
  <2> QED
    BY <1>3, <2>1, <2>2, <2>3, <2>4, NextOnWay, Zenon
<1> QED
  BY <1>4, <1>6, <1>7

-----------------------------------------------------------------------------
(* Which tasks a step adds.                                                *)
LEMMA EntriesOf ==
  \A T : \A s \in Seq(T) :
    /\ s # << >> => ToSet(Tail(s)) \subseteq ToSet(s) /\ Head(s) \in ToSet(s)
    /\ \A e \in T : ToSet(Append(s, e)) = ToSet(s) \cup {e}
    /\ \A k \in DOMAIN s : ToSet(RemoveAt(s, k)) \subseteq ToSet(s) /\ s[k] \in ToSet(s)
<1> SUFFICES ASSUME NEW T, NEW s \in Seq(T)
             PROVE  /\ s # << >> => ToSet(Tail(s)) \subseteq ToSet(s) /\ Head(s) \in ToSet(s)
                    /\ \A e \in T : ToSet(Append(s, e)) = ToSet(s) \cup {e}
                    /\ \A k \in DOMAIN s :
                         ToSet(RemoveAt(s, k)) \subseteq ToSet(s) /\ s[k] \in ToSet(s)
  OBVIOUS
<1>0. Len(s) \in Nat /\ DOMAIN s = 1 .. Len(s)
  OBVIOUS
<1>1. ASSUME s # << >>
      PROVE  ToSet(Tail(s)) \subseteq ToSet(s) /\ Head(s) \in ToSet(s)
  <2>1. Len(s) \in Nat \ {0} /\ DOMAIN Tail(s) = 1 .. Len(s) - 1 /\ Head(s) = s[1]
        /\ \A k \in 1 .. Len(s) - 1 : Tail(s)[k] = s[k + 1]
    BY <1>1
  <2> QED
    BY <1>0, <2>1 DEF ToSet
<1>2. ASSUME NEW e \in T PROVE ToSet(Append(s, e)) = ToSet(s) \cup {e}
  <2>1. /\ DOMAIN Append(s, e) = 1 .. Len(s) + 1 /\ Append(s, e)[Len(s) + 1] = e
        /\ \A k \in 1 .. Len(s) : Append(s, e)[k] = s[k]
    BY <1>0
  <2>2. ToSet(Append(s, e)) \subseteq ToSet(s) \cup {e}
    BY <1>0, <2>1 DEF ToSet
  <2>3. e \in ToSet(Append(s, e))
    BY <1>0, <2>1 DEF ToSet
  <2>4. ToSet(s) \subseteq ToSet(Append(s, e))
    <3> SUFFICES ASSUME NEW k \in 1 .. Len(s) PROVE s[k] \in ToSet(Append(s, e))
      BY <1>0 DEF ToSet
    <3>1. k \in 1 .. Len(s) + 1
      BY <1>0
    <3> QED
      BY <2>1, <3>1, Zenon DEF ToSet
  <2> QED
    BY <2>2, <2>3, <2>4
<1>3. ASSUME NEW k \in DOMAIN s
      PROVE  ToSet(RemoveAt(s, k)) \subseteq ToSet(s) /\ s[k] \in ToSet(s)
  <2> DEFINE x == SubSeq(s, 1, k - 1)
             y == SubSeq(s, k + 1, Len(s))
  <2>1. /\ x \in Seq(T) /\ Len(x) = k - 1 /\ \A n \in 1 .. k - 1 : x[n] = s[n]
        /\ y \in Seq(T) /\ Len(y) = Len(s) - k /\ \A n \in 1 .. Len(s) - k : y[n] = s[k + n]
    <3>1. x \in Seq(T) /\ Len(x) = k - 1 /\ \A n \in 1 .. k - 1 : x[n] = s[n]
      BY <1>0, <1>3
    <3>2. y \in Seq(T) /\ Len(y) = Len(s) - k /\ \A n \in 1 .. Len(s) - k : y[n] = s[k + n]
      BY <1>0, <1>3
    <3> QED
      BY <3>1, <3>2
  <2>2. RemoveAt(s, k) = x \o y
    BY DEF RemoveAt
  <2> HIDE DEF x, y
  <2>3. ASSUME NEW n \in DOMAIN (x \o y) PROVE (x \o y)[n] \in ToSet(s)
    <3>1. n \in 1 .. (k - 1) + (Len(s) - k)
      BY <2>1
    <3>2. (x \o y)[n] = IF n <= k - 1 THEN x[n] ELSE y[n - (k - 1)]
      BY <2>1, <3>1
    <3>3. (x \o y)[n] = IF n <= k - 1 THEN s[n] ELSE s[n + 1]
      <4>1. n <= k - 1 => n \in 1 .. k - 1
        BY <1>0, <1>3, <3>1
      <4>2. ~(n <= k - 1) => n - (k - 1) \in 1 .. Len(s) - k /\ k + (n - (k - 1)) = n + 1
        BY <1>0, <1>3, <3>1
      <4>3. ~(n <= k - 1) => y[n - (k - 1)] = s[k + (n - (k - 1))]
        BY <2>1, <4>2, Zenon
      <4> QED
        BY <2>1, <3>2, <4>1, <4>2, <4>3
    <3> QED
      BY <1>0, <1>3, <3>1, <3>3 DEF ToSet
  <2>4. ToSet(x \o y) \subseteq ToSet(s)
    BY <2>3 DEF ToSet
  <2> QED
    BY <1>3, <2>2, <2>4 DEF ToSet
<1> QED
  BY <1>1, <1>2, <1>3

(* The events that are queued, or posted and not yet moved to a queue.     *)
WayEvents ==
  ToSet(run_queues[0]) \cup ToSet(run_queues[1]) \cup {EventOf(r) : r \in ToSet(cq)}

LEMMA TaskParts ==
  Tasks = {EventTask(e) : e \in WayEvents} \cup SqeTasks \cup ReadTasks \cup IntentTasks
BY DEF Tasks, QueueTasks, PostedTasks, WayEvents, EventTask, Task

(* Tasks that are new after a step are of the users in H.                  *)
LEMMA NewTasksOf ==
  ASSUME NEW H,
         \A e \in WayEvents' : e \in WayEvents \/ e.handle \in H,
         \A r \in ToSet(sq') : r \in ToSet(sq) \/ r.user \in H,
         \A r \in ToSet(reads') : r \in ToSet(reads) \/ r.user \in H,
         \/ current' \in H
         \/ current' = current /\ ToSet(intents') \subseteq ToSet(intents)
         \/ intents' = << >>
  PROVE  \A t \in Tasks' : t \in Tasks \/ t.user \in H
<1>1. Tasks' = {EventTask(e) : e \in WayEvents'} \cup SqeTasks' \cup ReadTasks' \cup IntentTasks'
  <2>1. (Tasks = {EventTask(e) : e \in WayEvents} \cup SqeTasks \cup ReadTasks \cup IntentTasks)'
    BY TaskParts, PTL
  <2> QED
    BY <2>1, Zenon DEF EventTask, Task
<1>2. ASSUME NEW e \in WayEvents' PROVE EventTask(e) \in Tasks \/ EventTask(e).user \in H
  BY TaskParts DEF EventTask, Task
<1>3. ASSUME NEW t \in SqeTasks' PROVE t \in Tasks \/ t.user \in H
  BY DEF Tasks, SqeTasks, Task
<1>4. ASSUME NEW t \in ReadTasks' PROVE t \in Tasks \/ t.user \in H
  BY DEF Tasks, ReadTasks, Task
<1>5. ASSUME NEW t \in IntentTasks' PROVE t \in Tasks \/ t.user \in H
  BY DEF Tasks, IntentTasks, Task, ToSet
<1> QED
  BY <1>1, <1>2, <1>3, <1>4, <1>5

LEMMA ThisAndNext == TypeOK =>
  WayEvents = ToSet(ThisQueue) \cup ToSet(NextQueue) \cup ToSet(Posted)
<1> SUFFICES ASSUME TypeOK
             PROVE  WayEvents = ToSet(ThisQueue) \cup ToSet(NextQueue) \cup ToSet(Posted)
  OBVIOUS
<1>1. ToSet(Posted) = {EventOf(r) : r \in ToSet(cq)}
  BY DEF Posted, ToSet
<1>2. ToSet(run_queues[0]) \cup ToSet(run_queues[1]) = ToSet(ThisQueue) \cup ToSet(NextQueue)
  BY DEF TypeOK, ThisQueue, NextQueue, next_run_queue_idx
<1> QED
  BY <1>1, <1>2 DEF WayEvents

(* No step but that of a machine that begins, and of the kernel, adds an   *)
(* event.                                                                  *)
LEMMA NextEvents ==
  ASSUME TypeOK, TypeOK', QueueDrained, [Next]_vars
  PROVE  \/ WayEvents' \subseteq WayEvents
         \/ PushesSpawn
         \/ KernelStep /\ \E r \in Cqes : PostsEvent(r) /\ WayEvents' \subseteq WayEvents \cup {EventOf(r)}
<1>1. /\ ThisQueue \in Seq(RunQueueEvents) /\ NextQueue \in Seq(RunQueueEvents)
      /\ Posted \in Seq(RunQueueEvents)
  BY WayTypes
<1>2. /\ WayEvents = ToSet(ThisQueue) \cup ToSet(NextQueue) \cup ToSet(Posted)
      /\ WayEvents' = ToSet(ThisQueue') \cup ToSet(NextQueue') \cup ToSet(Posted')
  <2>1. (TypeOK => WayEvents = ToSet(ThisQueue) \cup ToSet(NextQueue) \cup ToSet(Posted))'
    BY ThisAndNext, PTL
  <2> QED
    BY <2>1, ThisAndNext DEF ToSet
<1>3. CASE WayKept
  BY <1>2, <1>3, Zenon DEF WayKept
<1>4. CASE PopsEvent
  BY <1>1, <1>2, <1>4, EntriesOf DEF PopsEvent
<1>5. CASE ReapsEvent
  <2>1. Head(Posted) \in RunQueueEvents /\ Head(Posted) \in ToSet(Posted)
    BY <1>1, <1>5, EntriesOf DEF ReapsEvent
  <2>2. ToSet(NextQueue') = ToSet(NextQueue) \cup {Head(Posted)}
    BY <1>1, <1>5, <2>1, EntriesOf DEF ReapsEvent
  <2>3. ToSet(Posted') \subseteq ToSet(Posted)
    BY <1>1, <1>5, EntriesOf DEF ReapsEvent
  <2>4. ToSet(ThisQueue') = ToSet(ThisQueue)
    BY <1>5, Zenon DEF ReapsEvent
  <2> QED
    BY <1>2, <2>1, <2>2, <2>3, <2>4
<1>6. CASE SwapsQueues
  <2>1. ToSet(<< >>) = {}
    BY DEF ToSet
  <2> QED
    BY <1>2, <1>6, <2>1, Zenon DEF SwapsQueues
<1>7. ASSUME NEW r \in Cqes, PostsEvent(r)
      PROVE  WayEvents' \subseteq WayEvents \cup {EventOf(r)}
  <2>1. EventOf(r) \in RunQueueEvents
    BY EventOfType
  <2>2. ToSet(Posted') = ToSet(Posted) \cup {EventOf(r)}
    BY <1>1, <1>7, <2>1, EntriesOf DEF PostsEvent
  <2>3. ToSet(ThisQueue') = ToSet(ThisQueue) /\ ToSet(NextQueue') = ToSet(NextQueue)
    BY <1>7, Zenon DEF PostsEvent
  <2> QED
    BY <1>2, <2>2, <2>3
<1> QED
  BY <1>3, <1>4, <1>5, <1>6, <1>7, NextWay, Zenon

-----------------------------------------------------------------------------
(* Clients and file slots.  A client is in one slot at most, and one that  *)
(* waits is in none and has been read nothing of.                          *)
FilesSound ==
  /\ \A s, t \in Slots : files[s] = files[t] /\ files[s] # None => s = t
  /\ \A c \in waiting : Untouched(c) /\ \A s \in Slots : files[s] # c

(* No two machines serve the same client. *)
PeersDistinct ==
  \A i, j \in 0 .. NHandlers - 1 :
    Live(i) /\ Live(j) /\ conn_data[i].peer = conn_data[j].peer => i = j

Unserved(c) == \A i \in 0 .. NHandlers - 1 : Live(i) => conn_data[i].peer # c

(* While an accept has not led to a machine, its slot is the client's, and *)
(* no machine serves it.                                                   *)
ComingSound ==
  \A s \in Slots : Incoming({s}) # 0 =>
    Incoming({s}) = 1 /\ files[s] # None /\ Untouched(files[s]) /\ Unserved(files[s])

World == FilesSound /\ PeersDistinct /\ ComingSound

(* A step that puts no client into a slot, makes no machine, and touches   *)
(* only clients that are served.                                           *)
CarriesWorld ==
  /\ \A s \in Slots : files'[s] = files[s] \/ (files'[s] = None /\ ~Unserved(files[s]))
  /\ waiting' \subseteq waiting
  /\ \A c \in Conns : Unserved(c) => sent'[c] = sent[c] /\ (c \in fin' => c \in fin)
  /\ \A i \in 0 .. NHandlers - 1 :
       conn_data'[i] # None => Live(i) /\ conn_data'[i].peer = conn_data[i].peer
  /\ \A s \in Slots : Incoming({s})' <= Incoming({s})

LEMMA WaitingUnserved ==
  ASSUME MachinesSound, NEW c \in waiting
  PROVE  Unserved(c)
BY Zenon DEF MachinesSound, Sound, Unserved

LEMMA WorldCarries ==
  ASSUME TypeOK, TypeOK', MachinesSound, World, CarriesWorld
  PROVE  World'
<1>1. \A s \in Slots : files'[s] # None => files'[s] = files[s]
  BY Zenon DEF CarriesWorld
<1>2. \A c \in Conns : Unserved(c) => Unserved(c)'
  BY Zenon DEF CarriesWorld, Unserved, Live
<1>3. \A c \in Conns : Unserved(c) /\ Untouched(c) => Untouched(c)'
  BY Zenon DEF CarriesWorld, Untouched
<1>4. FilesSound'
  <2>1. \A s, t \in Slots : files'[s] = files'[t] /\ files'[s] # None => s = t
    BY <1>1, Zenon DEF World, FilesSound
  <2>2. ASSUME NEW c \in waiting'
        PROVE  Untouched(c)' /\ \A s \in Slots : files'[s] # c
    <3>1. c \in waiting /\ c \in Conns /\ c # None
      BY NoneAssumption, Zenon DEF CarriesWorld, TypeOK
    <3>2. Untouched(c)'
      BY <1>3, <3>1, WaitingUnserved, Zenon DEF World, FilesSound
    <3> QED
      BY <1>1, <3>1, <3>2, Zenon DEF World, FilesSound
  <2> QED
    BY <2>1, <2>2, Zenon DEF FilesSound
<1>5. PeersDistinct'
  BY Zenon DEF World, PeersDistinct, CarriesWorld, Live
<1>6. ASSUME NEW s \in Slots, Incoming({s})' # 0
      PROVE  /\ Incoming({s})' = 1 /\ files'[s] # None
             /\ Untouched(files[s])' /\ Unserved(files[s])'
  <2>1. (TypeOK => IncomingCounts)'
    BY IncomingType, PTL
  <2>2. Incoming({s}) \in Nat /\ Incoming({s})' \in Nat
    BY <2>1, IncomingType, Zenon DEF IncomingCounts
  <2>3. PICK m, n \in Nat : m = Incoming({s}) /\ n = Incoming({s})' /\ n <= m /\ n # 0
    BY <1>6, <2>2, Zenon DEF CarriesWorld
  <2>4. m # 0
    BY <2>3
  <2>5. m = 1 /\ files[s] # None /\ Untouched(files[s]) /\ Unserved(files[s])
    BY <2>3, <2>4, Zenon DEF World, ComingSound
  <2>6. n = 1
    BY <2>3, <2>5
  <2>7. files'[s] = files[s] /\ files[s] \in Conns
    BY <2>5, Zenon DEF CarriesWorld, TypeOK
  <2>8. Untouched(files[s])' /\ Unserved(files[s])'
    <3> DEFINE c == files[s]
    <3>1. c \in Conns /\ Unserved(c) /\ Untouched(c)
      BY <2>5, <2>7
    <3>2. c' = c
      BY <2>7
    <3> HIDE DEF c
    <3>3. Untouched(c)' /\ Unserved(c)'
      BY <1>2, <1>3, <3>1, <3>2, Zenon DEF Untouched, Unserved
    <3> QED
      BY <3>3 DEF c
  <2> QED
    BY <2>3, <2>5, <2>6, <2>7, <2>8
<1>7. ComingSound'
  BY <1>6, Zenon DEF ComingSound
<1> QED
  BY <1>4, <1>5, <1>7 DEF World

(* A client that is accepted is on its way to a machine.                   *)
LEMMA AcceptWorld ==
  ASSUME TypeOK, TypeOK', QueueDrained, MachinesSound, World, KernelAccepts
  PROVE  World'
<1>1. PICK c \in Conns : AcceptCompletes(c)
  BY DEF KernelAccepts
<1>2. PICK s \in Slots, more \in BOOLEAN :
        /\ files[s] = None /\ files' = [files EXCEPT ![s] = c]
        /\ cq' = Append(cq, Cqe(TcpHandle, s, more))
  BY <1>1 DEF AcceptCompletes, Post
<1>3. c \in waiting /\ waiting' = waiting \ {c} /\ UNCHANGED <<sent, fin, conn_data>>
  BY <1>1 DEF AcceptCompletes, KernelAccepts, ProgramUnchanged, machineVars
<1>4. c # None /\ Unserved(c) /\ Untouched(c)
  BY <1>3, NoneAssumption, WaitingUnserved, Zenon DEF World, FilesSound
<1>5. files'[s] = c /\ \A t \in Slots \ {s} : files'[t] = files[t]
  BY <1>2 DEF TypeOK
<1>6. FilesSound'
  <2>1. \A t, u \in Slots : files'[t] = files'[u] /\ files'[t] # None => t = u
    BY <1>3, <1>5, Zenon DEF World, FilesSound
  <2>2. \A d \in waiting' : d \in waiting /\ d # c
    BY <1>3
  <2>3. \A d \in waiting' : Untouched(d)' /\ \A t \in Slots : files'[t] # d
    BY <1>3, <1>5, <2>2, Zenon DEF World, FilesSound, Untouched
  <2> QED
    BY <2>1, <2>3, Zenon DEF FilesSound
<1>7. PeersDistinct'
  BY <1>3, Zenon DEF World, PeersDistinct, Live
<1>8. (TypeOK => IncomingCounts)'
  BY IncomingType, PTL
<1>9. ASSUME NEW t \in Slots, t # s PROVE Incoming({t})' <= Incoming({t})
  <2>1. [Next]_vars
    BY DEF Next
  <2>2. CASE Incoming({t})' <= Incoming({t})
    BY <2>2
  <2>3. CASE \E r \in Cqes : PostsEvent(r) /\ r.user = TcpHandle /\ r.res \in {t}
    <3>1. PICK r \in Cqes : PostsEvent(r) /\ r.res = t
      BY <2>3
    <3> DEFINE x == Cqe(TcpHandle, s, more)
    <3>2. x \in Cqes /\ x.res = s
      BY DEF Cqe, Cqes, AcceptResults, Slots
    <3>3. cq \in Seq(Cqes) /\ cq' = Append(cq, r) /\ cq' = Append(cq, x)
      BY <1>2, <3>1 DEF TypeOK, PostsEvent
    <3> HIDE DEF x
    <3>4. r = x
      BY <3>2, <3>3, AppendOnce, Zenon
    <3> QED
      BY <1>9, <3>1, <3>2, <3>4
  <2> QED
    BY <2>1, <2>2, <2>3, NextIncoming, Zenon
<1>10. Incoming({s})' <= 1
  <2>1. Incoming({s}) = 0
    BY <1>2, Zenon DEF World, ComingSound
  <2>2. [Next]_vars
    BY DEF Next
  <2>3. Incoming({s})' <= 0 \/ Incoming({s})' <= 0 + 1
    BY <2>1, <2>2, NextIncoming, Zenon
  <2>4. Incoming({s})' \in Nat
    BY <1>8, Zenon DEF IncomingCounts
  <2> QED
    BY <2>3, <2>4
<1>11. ASSUME NEW t \in Slots, Incoming({t})' # 0
       PROVE  /\ Incoming({t})' = 1 /\ files'[t] # None
              /\ Untouched(files[t])' /\ Unserved(files[t])'
  <2>1. Incoming({t}) \in Nat /\ Incoming({t})' \in Nat
    BY <1>8, IncomingType, Zenon DEF IncomingCounts
  <2>2. CASE t = s
    <3>1. Incoming({t})' = 1
      BY <1>10, <1>11, <2>1, <2>2
    <3>2. files[t]' = c
      BY <1>5, <2>2
    <3>3. Untouched(files[t])' /\ Unserved(files[t])'
      BY <1>3, <1>4, <3>2, Zenon DEF Untouched, Unserved, Live
    <3> QED
      BY <1>4, <3>1, <3>2, <3>3
  <2>3. CASE t # s
    <3>1. PICK m, n \in Nat : m = Incoming({t}) /\ n = Incoming({t})' /\ n <= m /\ n # 0
      BY <1>9, <1>11, <2>1, <2>3, Zenon
    <3>2. m # 0
      BY <3>1
    <3>3. m = 1 /\ files[t] # None /\ Untouched(files[t]) /\ Unserved(files[t])
      BY <3>1, <3>2, Zenon DEF World, ComingSound
    <3>4. n = 1
      BY <3>1, <3>3
    <3>5. files[t]' = files[t]
      BY <1>5, <2>3
    <3>6. Untouched(files[t])' /\ Unserved(files[t])'
      BY <1>3, <3>3, <3>5, Zenon DEF Untouched, Unserved, Live
    <3> QED
      BY <3>1, <3>3, <3>4, <3>5, <3>6
  <2> QED
    BY <2>2, <2>3
<1>12. ComingSound'
  BY <1>11, Zenon DEF ComingSound
<1> QED
  BY <1>6, <1>7, <1>12 DEF World

(* What a new machine finds.                                               *)
LEMMA SpawnFinds ==
  ASSUME TypeOK, TypeOK', QueueDrained, World, CompleteSpawn, panic' = "no",
         NEW s \in Slots, Head(intents) = SpawnConnHandler(s)
  PROVE  /\ files[s] \in Conns /\ files[s] \notin waiting
         /\ Untouched(files[s]) /\ Unserved(files[s]) /\ Incoming({s})' = 0
<1>1. Incoming({s}) = Incoming({s})' + 1
  BY SpawnIncoming
<1>2. (TypeOK => IncomingCounts)'
  BY IncomingType, PTL
<1>3. Incoming({s})' \in Nat
  BY <1>2, Zenon DEF IncomingCounts
<1>4. Incoming({s}) # 0
  BY <1>1, <1>3
<1>5. Incoming({s}) = 1 /\ files[s] # None /\ Untouched(files[s]) /\ Unserved(files[s])
  BY <1>4, Zenon DEF World, ComingSound
<1>6. Incoming({s})' = 0
  BY <1>1, <1>3, <1>5
<1>7. files[s] \in Conns
  BY <1>5 DEF TypeOK
<1>8. files[s] \notin waiting
  BY Zenon DEF World, FilesSound
<1> QED
  BY <1>5, <1>6, <1>7, <1>8

LEMMA SpawnWorld ==
  ASSUME TypeOK, TypeOK', QueueDrained, World, CompleteSpawn, panic' = "no"
  PROVE  World'
<1>1. PICK i \in 0 .. NHandlers - 1, s \in Slots :
        /\ Head(intents) = SpawnConnHandler(s) /\ ~Live(i)
        /\ conn_data' = [conn_data EXCEPT ![i] = NewConnHandler(s, files[s])]
        /\ IntentDone
  BY SpawnStep
<1>2. /\ files[s] \in Conns /\ files[s] \notin waiting
      /\ Untouched(files[s]) /\ Unserved(files[s]) /\ Incoming({s})' = 0
  BY <1>1, SpawnFinds
<1>3. /\ conn_data'[i].peer = files[s]
      /\ \A j \in (0 .. NHandlers - 1) \ {i} : conn_data'[j] = conn_data[j]
  BY <1>1 DEF TypeOK, NewConnHandler
<1>4. UNCHANGED <<files, waiting, sent, fin>>
  BY <1>1 DEF IntentDone, kernelVars
<1>5. FilesSound'
  BY <1>4, Zenon DEF World, FilesSound, Untouched
<1>6. PeersDistinct'
  <2>1. ASSUME NEW j \in 0 .. NHandlers - 1, j # i, conn_data'[j] # None
        PROVE  conn_data[j] # None /\ conn_data'[j].peer = conn_data[j].peer
               /\ conn_data'[j].peer # files[s]
    BY <1>2, <1>3, <2>1, Zenon DEF Unserved, Live
  <2>2. ASSUME NEW j \in 0 .. NHandlers - 1, NEW k \in 0 .. NHandlers - 1,
               conn_data'[j] # None, conn_data'[k] # None,
               conn_data'[j].peer = conn_data'[k].peer, j # k
        PROVE  FALSE
    <3>1. j # i /\ k # i
      BY <1>3, <2>1, <2>2
    <3> QED
      BY <2>1, <2>2, <3>1, Zenon DEF World, PeersDistinct, Live
  <2> QED
    BY <2>2, Zenon DEF PeersDistinct, Live
<1>7. (TypeOK => IncomingCounts)'
  BY IncomingType, PTL
<1>8. ASSUME NEW t \in Slots, Incoming({t})' # 0
      PROVE  /\ Incoming({t})' = 1 /\ files'[t] # None
             /\ Untouched(files[t])' /\ Unserved(files[t])'
  <2>1. t # s
    BY <1>2, <1>8
  <2>2. Incoming({t})' <= Incoming({t})
    <3>1. [Next]_vars
      BY DEF Next, Thread
    <3>2. ~KernelStep
      <4>1. intents # << >> /\ intents \in Seq(IntentsOf(current))
        BY DEF CompleteSpawn, AtIntent, TypeOK
      <4>2. intents' # intents
        BY <1>1, <4>1, TailShorter DEF IntentDone
      <4> QED
        BY <4>2 DEF KernelStep, EnterIssues, contextVars, KernelAccepts, KernelRefuses,
             KernelReads, KernelFails, KernelEnds, ProgramUnchanged
    <3> QED
      BY <3>1, <3>2, NextIncoming, Zenon
  <2>3. Incoming({t}) \in Nat /\ Incoming({t})' \in Nat
    BY <1>7, IncomingType, Zenon DEF IncomingCounts
  <2>4. PICK m, n \in Nat : m = Incoming({t}) /\ n = Incoming({t})' /\ n <= m /\ n # 0
    BY <1>8, <2>2, <2>3, Zenon
  <2>5. m # 0
    BY <2>4
  <2>6. m = 1 /\ files[t] # None /\ Untouched(files[t]) /\ Unserved(files[t])
    BY <2>4, <2>5, Zenon DEF World, ComingSound
  <2>7. n = 1
    BY <2>4, <2>6
  <2>8. files[t] # files[s]
    BY <2>1, <2>6, Zenon DEF World, FilesSound
  <2>9. Untouched(files[t])' /\ Unserved(files[t])'
    BY <1>3, <1>4, <2>6, <2>8, Zenon DEF Untouched, Unserved, Live
  <2> QED
    BY <1>4, <2>4, <2>6, <2>7, <2>9
<1>9. ComingSound'
  BY <1>8, Zenon DEF ComingSound
<1> QED
  BY <1>5, <1>6, <1>9 DEF World

-----------------------------------------------------------------------------
(* Steps that no machine takes.                                            *)
LEMMA SameWay == UNCHANGED <<run_queues, cq>> => WayEvents' = WayEvents
BY DEF WayEvents, EventOf, ToSet

LEMMA PostEvents ==
  ASSUME TypeOK, run_queues' = run_queues, NEW x \in Cqes, cq' = Append(cq, x)
  PROVE  WayEvents' = WayEvents \cup {EventOf(x)}
<1>1. ToSet(cq') = ToSet(cq) \cup {x}
  BY EntriesOf DEF TypeOK
<1> QED
  BY <1>1 DEF WayEvents, EventOf

LEMMA PopEventsGo ==
  ASSUME TypeOK, TypeOK', Pop
  PROVE  WayEvents' \subseteq WayEvents /\ NextEvent \in WayEvents
<1>1. /\ ThisQueue \in Seq(RunQueueEvents) /\ PopsEvent
  BY WayTypes, PopWay
<1>2. /\ WayEvents = ToSet(ThisQueue) \cup ToSet(NextQueue) \cup ToSet(Posted)
      /\ WayEvents' = ToSet(ThisQueue') \cup ToSet(NextQueue') \cup ToSet(Posted')
  <2>1. (TypeOK => WayEvents = ToSet(ThisQueue) \cup ToSet(NextQueue) \cup ToSet(Posted))'
    BY ThisAndNext, PTL
  <2> QED
    BY <2>1, ThisAndNext DEF ToSet
<1> QED
  BY <1>1, <1>2, EntriesOf DEF PopsEvent

LEMMA ReapEventsStay ==
  ASSUME TypeOK, TypeOK', QueueDrained, Reap, panic' = "no"
  PROVE  WayEvents' \subseteq WayEvents
<1>1. cq # << >> /\ cq' = Tail(cq)
  BY DEF Reap, Crash, At, Running
<1>2. Posted # << >> /\ Posted' = Tail(Posted) /\ Posted' # Posted
  BY <1>1, PostedTail, WayTypes, TailShorter
<1>3. ~PushesSpawn
  BY <1>2, Zenon DEF PushesSpawn
<1>4. ~KernelStep
  <2>1. Tail(cq) # cq /\ cq \in Seq(Cqes)
    BY <1>1, TailShorter DEF TypeOK
  <2>2. ~EnterIssues /\ \A e : cq' # Append(cq, e)
    <3>1. \A e : Len(Append(cq, e)) # Len(Tail(cq))
      BY <1>1, <2>1
    <3> QED
      BY <1>1, <3>1, Zenon DEF Reap, EnterIssues, At
  <2> QED
    BY <2>2 DEF KernelStep, KernelAccepts, KernelRefuses, KernelReads, KernelFails, KernelEnds,
         AcceptCompletes, AcceptOverflows, ReadCompletes, ReadEnds, ReadFails, Completes, Post
<1> QED
  BY <1>3, <1>4, NextEvents, Zenon DEF Next, Thread

(* Nobody's data is touched, and only the listener gets something to do.   *)
Quiet ==
  /\ UNCHANGED <<conn_data, sent, fin, mem>>
  /\ waiting' \subseteq waiting
  /\ \A s \in Slots : files[s] # None => files'[s] = files[s]
  /\ \A e \in WayEvents' : e \in WayEvents \/ e.handle = TcpHandle
  /\ \A r \in ToSet(sq') : r \in ToSet(sq) \/ r.user = TcpHandle
  /\ reads' = reads
  /\ \/ current' = TcpHandle
     \/ current' = current /\ intents' = intents
     \/ intents' = << >>

LEMMA QuietCore ==
  ASSUME TypeOK, ExactlyOne, panic = "no", TasksSuit, MachinesSound, Quiet
  PROVE  TasksSuit' /\ MachinesSound'
<1>1. ASSUME NEW j \in 0 .. NHandlers - 1 PROVE LeftAlone(j)
  <2>1. conn_data' = conn_data /\ sent' = sent /\ fin' = fin /\ mem' = mem
        /\ waiting' \subseteq waiting
    BY DEF Quiet
  <2>2. ASSUME Live(j) PROVE files[conn_data[j].socket] = conn_data[j].peer =>
                               files'[conn_data[j].socket] = conn_data[j].peer
    <3>1. conn_data[j].peer \in Conns /\ Sound(j)
      BY <2>2, Zenon DEF MachinesSound, Sound
    <3>2. conn_data[j].socket \in Slots
      BY <2>2 DEF TypeOK, Live, ConnHandlers, Machines
    <3> QED
      BY <3>1, <3>2, NoneAssumption, Zenon DEF Quiet
  <2> QED
    BY <2>1, <2>2, Zenon DEF LeftAlone, Kept
<1>2. \A t \in Tasks' : t \in Tasks \/ t.user \in {TcpHandle}
  <2>1. /\ \A e \in WayEvents' : e \in WayEvents \/ e.handle \in {TcpHandle}
        /\ \A r \in ToSet(sq') : r \in ToSet(sq) \/ r.user \in {TcpHandle}
        /\ \A r \in ToSet(reads') : r \in ToSet(reads) \/ r.user \in {TcpHandle}
        /\ \/ current' \in {TcpHandle}
           \/ current' = current /\ ToSet(intents') \subseteq ToSet(intents)
           \/ intents' = << >>
    BY DEF Quiet
  <2> QED
    BY <2>1, NewTasksOf, Zenon
<1>3. \A t \in Tasks' : t \in Tasks \/ t.user \notin ConnHandles
  BY <1>2, HandleKinds, Zenon
<1> QED
  BY <1>1, <1>3, QuietTasks, Zenon

LEMMA ListenerQuiet ==
  ASSUME TypeOK, TypeOK', DispatchTcp \/ DispatchMissing
  PROVE  Quiet
<1>1. Pop /\ UNCHANGED <<conn_data, mem>>
  BY DEF DispatchTcp, DispatchMissing, TcpProcessEvent, OnListen, OnAccepted, OnAcceptErr,
         OnTcpUnexpected
<1>2. UNCHANGED <<sent, fin, waiting, files, sq, reads>>
  BY <1>1 DEF Pop, kernelVars, ringVars
<1>3. WayEvents' \subseteq WayEvents
  BY <1>1, PopEventsGo
<1>4. current' = TcpHandle \/ intents' = << >>
  <2>1. CASE DispatchTcp
    BY <1>1, <2>1, PopEventType, EventKinds DEF DispatchTcp, Pop
  <2>2. CASE DispatchMissing
    BY <2>2 DEF DispatchMissing
  <2> QED
    BY <2>1, <2>2
<1> QED
  BY <1>1, <1>2, <1>3, <1>4, Zenon DEF Quiet

LEMMA MovesQuiet ==
  ASSUME TypeOK, TypeOK', QueueDrained, panic' = "no",
         \/ DrainDone \/ IntentsDone \/ SubmitShortcut \/ SubmitEnter \/ EnterReturns
         \/ EnterError \/ Reap \/ ReapDone \/ UNCHANGED vars
  PROVE  Quiet
<1>1. ~EnterError
  BY DEF EnterError, Crash
<1>2. UNCHANGED <<conn_data, sent, fin, mem, waiting, files, sq, reads, intents>>
  BY <1>1 DEF DrainDone, IntentsDone, SubmitShortcut, SubmitEnter, EnterReturns, Reap, ReapDone,
       vars, contextVars, machineVars, ringVars, kernelVars, loopVars, Crash, At, Running
<1>3. current' = current \/ intents' = << >>
  BY <1>1 DEF DrainDone, IntentsDone, SubmitShortcut, SubmitEnter, EnterReturns, Reap, ReapDone,
       vars, loopVars, contextVars, Crash, At, Running
<1>4. WayEvents' \subseteq WayEvents
  <2>1. CASE Reap
    BY <2>1, ReapEventsStay
  <2>2. CASE ~Reap
    <3>1. UNCHANGED <<run_queues, cq>>
      BY <1>1, <2>2 DEF DrainDone, IntentsDone, SubmitShortcut, SubmitEnter, EnterReturns, ReapDone,
           vars, ringVars, loopVars
    <3> QED
      BY <3>1, SameWay
  <2> QED
    BY <2>1, <2>2
<1> QED
  BY <1>2, <1>3, <1>4, Zenon DEF Quiet

LEMMA AcceptQuiet ==
  ASSUME TypeOK, TypeOK', CompleteAccept, panic' = "no"
  PROVE  Quiet
<1>1. /\ current = TcpHandle /\ sq' = Append(sq, AcceptMulti(TcpHandle))
      /\ AcceptMulti(TcpHandle) \in Sqes
      /\ IntentDone /\ UNCHANGED <<io_bufs, run_queues, conn_alloc, conn_data>>
  BY AcceptStep
<1>2. UNCHANGED <<conn_data, sent, fin, mem, waiting, files, reads, current, run_queues, cq>>
  BY <1>1 DEF IntentDone, kernelVars
<1>3. ToSet(sq') = ToSet(sq) \cup {AcceptMulti(TcpHandle)} /\ AcceptMulti(TcpHandle).user = TcpHandle
  <2> DEFINE a == AcceptMulti(TcpHandle)
  <2>1. a \in Sqes /\ sq' = Append(sq, a) /\ sq \in Seq(Sqes)
    BY <1>1 DEF TypeOK
  <2>2. a.user = TcpHandle
    BY DEF AcceptMulti
  <2> HIDE DEF a
  <2>3. ToSet(sq') = ToSet(sq) \cup {a}
    BY <2>1, EntriesOf
  <2> QED
    BY <2>2, <2>3 DEF a
<1>4. \A r \in ToSet(sq') : r \in ToSet(sq) \/ r.user = TcpHandle
  BY <1>3
<1> QED
  BY <1>1, <1>2, <1>4, SameWay, Zenon DEF Quiet

LEMMA KernelQuiet ==
  ASSUME TypeOK, TypeOK', QueueDrained,
         KernelAccepts \/ KernelRefuses \/ (EnterIssues /\ IssueAccept)
  PROVE  Quiet
<1>1. UNCHANGED <<conn_data, sent, fin, mem, reads, intents, current>>
      /\ waiting' \subseteq waiting
  BY DEF KernelAccepts, KernelRefuses, EnterIssues, Issue, IssueAccept, AcceptCompletes,
       AcceptOverflows, ProgramUnchanged, contextVars, machineVars, loopVars
<1>2. \A s \in Slots : files[s] # None => files'[s] = files[s]
  BY DEF KernelAccepts, KernelRefuses, EnterIssues, IssueAccept, AcceptCompletes,
       AcceptOverflows, TypeOK
<1>3. ToSet(sq') \subseteq ToSet(sq)
  <2>1. sq' = sq \/ (sq # << >> /\ sq' = Tail(sq))
    BY DEF KernelAccepts, KernelRefuses, EnterIssues, Issue, AcceptCompletes, AcceptOverflows
  <2> QED
    BY <2>1, EntriesOf DEF TypeOK
<1>4. \A e \in WayEvents' : e \in WayEvents \/ e.handle = TcpHandle
  <2>1. CASE EnterIssues /\ IssueAccept
    <3>1. UNCHANGED <<run_queues, cq>>
      BY <2>1 DEF EnterIssues, IssueAccept, loopVars
    <3> QED
      BY <3>1, SameWay
  <2>2. CASE KernelAccepts \/ KernelRefuses
    <3>1. /\ run_queues' = run_queues
          /\ \E res \in AcceptResults : \E more \in BOOLEAN : cq' = Append(cq, Cqe(TcpHandle, res, more))
      <4>1. -ENFILE \in AcceptResults /\ Slots \subseteq AcceptResults
        BY DEF ENFILE, AcceptResults, Slots
      <4> QED
        BY <2>2, <4>1 DEF KernelAccepts, KernelRefuses, AcceptCompletes, AcceptOverflows, Post,
             ProgramUnchanged, loopVars
    <3>2. \A res \in AcceptResults : \A more \in BOOLEAN :
            Cqe(TcpHandle, res, more) \in Cqes /\ Cqe(TcpHandle, res, more).user = TcpHandle
      BY DEF Cqe, Cqes
    <3>3. PICK x \in Cqes : cq' = Append(cq, x) /\ x.user = TcpHandle
      BY <3>1, <3>2
    <3> QED
      BY <3>1, <3>3, PostEvents, EventOfType
  <2> QED
    BY <2>1, <2>2
<1> QED
  BY <1>1, <1>2, <1>3, <1>4 DEF Quiet

-----------------------------------------------------------------------------
(* Steps of a machine.                                                     *)
Core == TasksSuit /\ MachinesSound /\ World

(* The machine that something is under way for is there, and in the state  *)
(* that suits it.                                                          *)
LEMMA TaskMachine ==
  ASSUME TypeOK, ExactlyOne, panic = "no", Core, NEW t \in Tasks, t.user \in ConnHandles
  PROVE  /\ t.user.index \in 0 .. NHandlers - 1
         /\ Resolves(t.user) /\ Live(t.user.index) /\ conn_data[t.user.index] \in ConnHandlers
         /\ Suits(t) /\ Sound(t.user.index)
<1>1. t.user.index \in 0 .. NHandlers - 1
  BY DEF ConnHandles
<1>2. Resolves(t.user)
  BY TasksAreUnique DEF OneTask
<1>3. Live(t.user.index)
  BY <1>2 DEF Resolves
<1>4. conn_data[t.user.index] \in ConnHandlers
  BY <1>1, <1>3 DEF TypeOK, Live
<1> QED
  BY <1>1, <1>2, <1>3, <1>4, Zenon DEF Core, TasksSuit, MachinesSound

LEMMA TasksThere ==
  /\ \A e \in WayEvents : EventTask(e) \in Tasks
  /\ \A r \in ToSet(sq) : Task("sqe", r.user, r) \in Tasks
  /\ \A r \in ToSet(reads) : Task("read", r.user, r) \in Tasks
  /\ \A x \in ToSet(intents) : Task("intent", current, x) \in Tasks
BY TaskParts DEF SqeTasks, ReadTasks, IntentTasks

LEMMA TasksThereNext ==
  /\ \A e \in WayEvents' : EventTask(e) \in Tasks'
  /\ \A r \in ToSet(sq') : Task("sqe", r.user, r) \in Tasks'
  /\ \A r \in ToSet(reads') : Task("read", r.user, r) \in Tasks'
  /\ \A x \in ToSet(intents') : Task("intent", current', x) \in Tasks'
<1>1. Tasks' = {EventTask(e) : e \in WayEvents'} \cup SqeTasks' \cup ReadTasks' \cup IntentTasks'
  <2>1. (Tasks = {EventTask(e) : e \in WayEvents} \cup SqeTasks \cup ReadTasks \cup IntentTasks)'
    BY TaskParts, PTL
  <2> QED
    BY <2>1, Zenon DEF EventTask, Task
<1>2. /\ \A r \in ToSet(sq') : Task("sqe", r.user, r) \in SqeTasks'
      /\ \A r \in ToSet(reads') : Task("read", r.user, r) \in ReadTasks'
      /\ \A x \in ToSet(intents') : Task("intent", current', x) \in IntentTasks'
  BY DEF SqeTasks, ReadTasks, IntentTasks, Task, ToSet
<1> QED
  BY <1>1, <1>2

(* The addresses of two buffers are apart. *)
LEMMA BuffersApart ==
  ASSUME NEW a \in Nat, NEW b \in Nat, a # b
  PROVE  \A k \in 0 .. BufSize - 1 : BufPtr(a) + k \notin Iovec(b)
<1> SUFFICES ASSUME NEW k \in 0 .. BufSize - 1, BufPtr(a) + k \in Iovec(b) PROVE FALSE
  OBVIOUS
<1>1. BufSize \in Nat \ {0} /\ k \in Nat /\ k < BufSize
  OBVIOUS
<1>2. \A m, n, z, l \in Nat :
        z # 0 /\ l < z /\ n * z <= m * z + l /\ m * z + l <= n * z + z - 1 => m = n
  <2> SUFFICES ASSUME NEW m \in Nat, NEW n \in Nat, NEW z \in Nat, NEW l \in Nat,
                      z # 0, l < z, n * z <= m * z + l, m * z + l <= n * z + z - 1
               PROVE  m = n
    BY ONLY SMT
  <2>1. m < n => (m + 1) * z <= n * z
    BY SMT
  <2>2. n < m => (n + 1) * z <= m * z
    BY SMT
  <2>3. (m + 1) * z = m * z + z /\ (n + 1) * z = n * z + z
    BY SMT
  <2>4. m * z \in Nat /\ n * z \in Nat
    BY SMT
  <2> QED
    BY <2>1, <2>2, <2>3, <2>4
<1>3. a * BufSize \in Int /\ b * BufSize \in Int
  BY <1>1
<1>4. b * BufSize <= a * BufSize + k /\ a * BufSize + k <= b * BufSize + BufSize - 1
  BY <1>1, <1>3 DEF BufPtr, Iovec
<1> QED
  BY <1>1, <1>2, <1>4

LEMMA BufferAddresses ==
  \A b \in 0 .. NBufs - 1 : \A k \in 0 .. BufSize - 1 : BufPtr(b) + k \in Addresses
<1> SUFFICES ASSUME NEW b \in 0 .. NBufs - 1, NEW k \in 0 .. BufSize - 1
             PROVE  BufPtr(b) + k \in Addresses
  BY Zenon
<1>1. NBufs \in Nat /\ BufSize \in Nat
  BY Zenon
<1>2. \A n, z, x, l \in Nat : x < n /\ l < z => x * z + l < n * z
  <2> SUFFICES ASSUME NEW n \in Nat, NEW z \in Nat, NEW x \in Nat, NEW l \in Nat, x < n, l < z
               PROVE  x * z + l < n * z
    BY ONLY SMT
  <2>1. (x + 1) * z <= n * z /\ (x + 1) * z = x * z + z
    BY SMT
  <2>2. x * z \in Nat /\ n * z \in Nat
    BY SMT
  <2> QED
    BY <2>1, <2>2
<1>3. b * BufSize + k < NBufs * BufSize
  BY <1>1, <1>2
<1>4. b * BufSize \in Nat /\ NBufs * BufSize \in Nat
  BY <1>1
<1> QED
  BY <1>1, <1>3, <1>4 DEF BufPtr, Addresses

(* A step that touches only what belongs to machine i leaves the others    *)
(* alone.                                                                  *)
LEMMA OthersAlone ==
  ASSUME TypeOK, BuffersInv, Core, NEW i \in 0 .. NHandlers - 1, Live(i),
         \A j \in (0 .. NHandlers - 1) \ {i} : conn_data'[j] = conn_data[j],
         \A c \in Conns : c # conn_data[i].peer => sent'[c] = sent[c] /\ (c \in fin' <=> c \in fin),
         \A s \in Slots : files'[s] = files[s] \/ files[s] = conn_data[i].peer,
         waiting' = waiting,
         \/ mem' = mem
         \/ /\ conn_data[i].state = "Recv"
            /\ \A a \in Addresses :
                 mem'[a] = mem[a] \/ a \in Iovec(conn_data[i].buf_handle.index)
  PROVE  \A j \in (0 .. NHandlers - 1) \ {i} : LeftAlone(j)
<1> SUFFICES ASSUME NEW j \in (0 .. NHandlers - 1) \ {i}, Live(j) PROVE Kept(j)
  BY Zenon DEF LeftAlone
<1> DEFINE m == conn_data[j]
<1>1. m \in ConnHandlers /\ m.socket \in Slots /\ m.peer \in Conns /\ m.peer # conn_data[i].peer
  <2>1. m \in ConnHandlers
    BY DEF TypeOK, Live
  <2>2. m.socket \in Slots
    BY <2>1 DEF ConnHandlers, Machines
  <2>3. m.peer \in Conns
    BY Zenon DEF Core, MachinesSound, Sound
  <2>4. m.peer # conn_data[i].peer
    BY Zenon DEF Core, World, PeersDistinct
  <2> QED
    BY <2>1, <2>2, <2>3, <2>4
<1>2. files[m.socket] = m.peer => files'[m.socket] = m.peer
  BY <1>1, Zenon
<1>3. ASSUME m.state = "Recv", NEW k \in 0 .. BufSize - 1
      PROVE  mem'[BufPtr(m.buf_handle.index) + k] = mem[BufPtr(m.buf_handle.index) + k]
  <2>1. CASE mem' = mem
    BY <2>1
  <2>2. CASE mem' # mem
    <3>1. i \in Receiving /\ j \in Receiving
      BY <1>3, <2>2, Zenon DEF Receiving
    <3>2. /\ IsValid(io_bufs, conn_data[i].buf_handle) /\ IsValid(io_bufs, m.buf_handle)
          /\ conn_data[i].buf_handle.index # m.buf_handle.index
      BY <3>1, Zenon DEF BuffersInv, BuffersExact
    <3>3. m.buf_handle.index \in 0 .. NBufs - 1 /\ conn_data[i].buf_handle.index \in 0 .. NBufs - 1
      BY <3>2 DEF IsValid, TypeOK, GenAllocs
    <3> DEFINE b == m.buf_handle.index
    <3>4. BufPtr(b) + k \in Addresses
      BY <3>3, BufferAddresses
    <3>5. BufPtr(b) + k \notin Iovec(conn_data[i].buf_handle.index)
      <4>1. b \in Nat /\ conn_data[i].buf_handle.index \in Nat
        BY <3>3
      <4> QED
        BY <3>2, <4>1, BuffersApart
    <3> QED
      BY <2>2, <3>4, <3>5
  <2> QED
    BY <2>1, <2>2
<1> QED
  BY <1>1, <1>2, <1>3, Zenon DEF Kept

(* Only an accept that the kernel completes brings an accept on its way.   *)
LEMMA IncomingFalls ==
  ASSUME TypeOK, TypeOK', QueueDrained, [Next]_vars, ~KernelAccepts
  PROVE  \A s \in Slots : Incoming({s})' <= Incoming({s})
<1> SUFFICES ASSUME NEW s \in Slots, ~(Incoming({s})' <= Incoming({s})) PROVE FALSE
  OBVIOUS
<1>1. PICK r \in Cqes : KernelStep /\ PostsEvent(r) /\ r.user = TcpHandle /\ r.res \in {s}
  BY NextIncoming
<1>2. KernelRefuses
  BY <1>1, KernelPosts, Zenon DEF PostsEvent
<1>3. cq' = Append(cq, Cqe(TcpHandle, -ENFILE, FALSE)) /\ cq' = Append(cq, r)
  BY <1>1, <1>2 DEF KernelRefuses, AcceptOverflows, Post, PostsEvent
<1> DEFINE x == Cqe(TcpHandle, -ENFILE, FALSE)
<1>4. x \in Cqes /\ x.res = -23 /\ cq \in Seq(Cqes)
  BY DEF Cqe, Cqes, AcceptResults, ENFILE, TypeOK
<1>7. cq' = Append(cq, x) /\ cq' = Append(cq, r)
  BY <1>3
<1> HIDE DEF x
<1>5. r = x
  <2>1. \A y \in Cqes : cq' = Append(cq, y) => y = r
    BY <1>4, <1>7, AppendOnce
  <2> QED
    BY <1>4, <1>7, <2>1
<1>6. r.res = -23 /\ s = -23
  BY <1>1, <1>4, <1>5
<1> QED
  BY <1>6 DEF Slots

LEMMA MachineCarriesWorld ==
  ASSUME TypeOK, TypeOK', QueueDrained, [Next]_vars, ~KernelAccepts, Core,
         NEW i \in 0 .. NHandlers - 1, Live(i),
         \A j \in (0 .. NHandlers - 1) \ {i} : conn_data'[j] = conn_data[j],
         conn_data'[i] # None => conn_data'[i].peer = conn_data[i].peer,
         \A c \in Conns : c # conn_data[i].peer => sent'[c] = sent[c] /\ (c \in fin' <=> c \in fin),
         \A s \in Slots : files'[s] = files[s] \/ (files[s] = conn_data[i].peer /\ files'[s] = None),
         waiting' = waiting
  PROVE  World'
<1>1. \A c : Unserved(c) => c # conn_data[i].peer
  BY Zenon DEF Unserved
<1>2. ~Unserved(conn_data[i].peer)
  BY <1>1
<1>3. \A s \in Slots : Incoming({s})' <= Incoming({s})
  BY IncomingFalls
<1>4. CarriesWorld
  BY <1>1, <1>2, <1>3, Zenon DEF CarriesWorld, Live
<1> QED
  BY <1>4, WorldCarries DEF Core

(* One machine acts: what is new in the queues is its own.                 *)
LEMMA ActiveCore ==
  ASSUME TypeOK, ExactlyOne, panic = "no", Core,
         TypeOK', ExactlyOne', panic' = "no", NEW h \in ConnHandles,
         \A j \in (0 .. NHandlers - 1) \ {h.index} : LeftAlone(j),
         \A e \in WayEvents' : e \in WayEvents \/ e.handle = h,
         \A r \in ToSet(sq') : r \in ToSet(sq) \/ r.user = h,
         \A r \in ToSet(reads') : r \in ToSet(reads) \/ r.user = h,
         \/ current' = h
         \/ current' = current /\ ToSet(intents') \subseteq ToSet(intents)
         \/ intents' = << >>,
         \/ conn_data'[h.index] = None
         \/ Sound(h.index)' /\ \E n \in Tasks' : n.user = h /\ Suits(n)'
  PROVE  TasksSuit' /\ MachinesSound'
<1>1. h.index \in 0 .. NHandlers - 1
  BY DEF ConnHandles
<1>2. \A t \in Tasks' : t \in Tasks \/ t.user \in {h}
  <2>1. /\ \A e \in WayEvents' : e \in WayEvents \/ e.handle \in {h}
        /\ \A r \in ToSet(sq') : r \in ToSet(sq) \/ r.user \in {h}
        /\ \A r \in ToSet(reads') : r \in ToSet(reads) \/ r.user \in {h}
        /\ \/ current' \in {h}
           \/ current' = current /\ ToSet(intents') \subseteq ToSet(intents)
           \/ intents' = << >>
    OBVIOUS
  <2> QED
    BY <2>1, NewTasksOf, Zenon
<1>3. \A t \in Tasks' : t.user \in ConnHandles => t \in Tasks \/ t.user.index = h.index
  BY <1>2
<1>4. \/ ~Live(h.index)'
      \/ Sound(h.index)' /\ \E n \in Tasks' : n.user \in ConnHandles /\ n.user.index = h.index /\ Suits(n)'
  <2>1. ~Live(h.index)' <=> conn_data'[h.index] = None
    BY DEF Live
  <2> QED
    BY <2>1, Zenon
<1> DEFINE i == h.index
<1>5. /\ i \in 0 .. NHandlers - 1
      /\ \A j \in (0 .. NHandlers - 1) \ {i} : LeftAlone(j)
      /\ \A t \in Tasks' : t.user \in ConnHandles => t \in Tasks \/ t.user.index = i
      /\ \/ ~Live(i)'
         \/ Sound(i)' /\ \E n \in Tasks' : n.user \in ConnHandles /\ n.user.index = i /\ Suits(n)'
  BY <1>1, <1>3, <1>4, Zenon
<1>6. i' = i
  OBVIOUS
<1> HIDE DEF i
<1> QED
  BY <1>5, <1>6, ActiveTasks, Zenon DEF Core

-----------------------------------------------------------------------------
Before ==
  /\ TypeOK /\ BuffersInv /\ QueueDrained /\ ExactlyOne /\ ResultsCalm
  /\ panic = "no" /\ Core

After == TypeOK' /\ ExactlyOne' /\ panic' = "no"

LEMMA AllAlone ==
  ASSUME UNCHANGED <<conn_data, mem, files, sent, fin, waiting>>
  PROVE  \A j : LeftAlone(j)
BY Zenon DEF LeftAlone, Kept

LEMMA FirstIntent ==
  ASSUME Before, intents # << >>, current \in ConnHandles
  PROVE  /\ current.index \in 0 .. NHandlers - 1 /\ Resolves(current)
         /\ Live(current.index) /\ conn_data[current.index] \in ConnHandlers
         /\ IntentSuits(conn_data[current.index], Head(intents))
         /\ Sound(current.index)
         /\ ToSet(Tail(intents)) \subseteq ToSet(intents)
<1>1. Head(intents) \in ToSet(intents) /\ ToSet(Tail(intents)) \subseteq ToSet(intents)
  BY EntriesOf DEF Before, TypeOK
<1> DEFINE t == Task("intent", current, Head(intents))
<1>2. t \in Tasks /\ t.user = current /\ t.at = "intent" /\ t.what = Head(intents)
  BY <1>1, TasksThere, Zenon DEF Task
<1> HIDE DEF t
<1>3. /\ current.index \in 0 .. NHandlers - 1 /\ Resolves(current)
      /\ Live(current.index) /\ conn_data[current.index] \in ConnHandlers
      /\ Suits(t) /\ Sound(current.index)
  BY <1>2, TaskMachine DEF Before
<1> QED
  BY <1>1, <1>2, <1>3, Zenon DEF Suits

LEMMA DifferentIntents ==
  /\ \A s : Retry # CloseFixed(s) /\ CloseFixed(s).kind # "SubmitRecv" /\ CloseFixed(s) # Terminate
  /\ \A m : Recv(m).kind = "SubmitRecv" /\ Recv(m) # Retry /\ Recv(m) # Terminate
  /\ \A s, m : CloseFixed(s) # Recv(m)
  /\ \A s, t : CloseFixed(s) = CloseFixed(t) => s = t
  /\ Retry.kind # "SubmitRecv" /\ Terminate.kind # "SubmitRecv" /\ Retry # Terminate
BY DEF Retry, Terminate, CloseFixed, Recv, SubmitRecv, Intent

(* An intent that the machine's request follows from. *)
LEMMA IntentCore ==
  ASSUME Before, After, [Next]_vars, intents # << >>, current \in ConnHandles,
         IntentDone, conn_data' = conn_data,
         \A e \in WayEvents' : e \in WayEvents \/ e.handle = current,
         \A r \in ToSet(sq') : r \in ToSet(sq) \/ r.user = current,
         \E n \in Tasks' : n.user = current /\ Suits(n)'
  PROVE  Core'
<1> DEFINE i == current.index
<1>1. i \in 0 .. NHandlers - 1 /\ Live(i) /\ Sound(i) /\ ToSet(Tail(intents)) \subseteq ToSet(intents)
  BY FirstIntent
<1>2. UNCHANGED <<conn_data, mem, files, sent, fin, waiting, reads, current>>
      /\ intents' = Tail(intents)
  BY DEF IntentDone, kernelVars
<1>3. \A j : LeftAlone(j)
  BY <1>2, AllAlone
<1>4. PICK h \in ConnHandles : h = current
  OBVIOUS
<1>5. Sound(h.index)'
  <2>1. h.index \in 0 .. NHandlers - 1 /\ Kept(h.index) /\ Sound(h.index) /\ TypeOK
    BY <1>1, <1>3, <1>4 DEF LeftAlone, Before
  <2> QED
    BY <2>1, KeptSound
<1>6. TasksSuit' /\ MachinesSound'
  <2>1. /\ \A e \in WayEvents' : e \in WayEvents \/ e.handle = h
        /\ \A r \in ToSet(sq') : r \in ToSet(sq) \/ r.user = h
        /\ \A r \in ToSet(reads') : r \in ToSet(reads) \/ r.user = h
    BY <1>2, <1>4
  <2>2. current' = current /\ ToSet(intents') \subseteq ToSet(intents)
    BY <1>1, <1>2
  <2>3. Sound(h.index)'
    BY <1>5
  <2>4. \A j \in (0 .. NHandlers - 1) \ {h.index} : LeftAlone(j)
    BY <1>3
  <2> QED
    BY <1>4, <2>1, <2>2, <2>3, <2>4, ActiveCore DEF Before, After
<1>7. ~KernelAccepts
  <2>1. intents \in Seq(IntentsOf(current))
    BY DEF Before, TypeOK
  <2> QED
    BY <1>2, <2>1, TailShorter DEF KernelAccepts, ProgramUnchanged
<1>8. World'
  BY <1>1, <1>2, <1>7, MachineCarriesWorld DEF Before, After
<1> QED
  BY <1>6, <1>8 DEF Core

LEMMA RetryCore ==
  ASSUME Before, After, CompleteRetry
  PROVE  Core'
<1>1. /\ current \in ConnHandles /\ Head(intents) = Retry
      /\ RunQueueEvent(Spawn, current) \in RunQueueEvents
      /\ Push(next_run_queue_idx, RunQueueEvent(Spawn, current))
      /\ intents # << >> /\ IntentDone /\ UNCHANGED <<io_bufs, sq, conn_alloc, conn_data>>
  BY RetryStep DEF Before, After
<1> DEFINE e == RunQueueEvent(Spawn, current)
           m == conn_data[current.index]
<1>2. m.state = "Init"
  BY <1>1, FirstIntent, DifferentIntents, Zenon DEF IntentSuits
<1>3. WayEvents' = WayEvents \cup {e}
  <2>1. next_run_queue_idx \in {0, 1} /\ next_run_queue_idx # current_run_queue
        /\ current_run_queue' = current_run_queue /\ cq' = cq
    BY <1>1, WayTypes DEF Before, IntentDone
  <2>2. ThisQueue' = ThisQueue /\ NextQueue' = Append(NextQueue, e) /\ Posted' = Posted
    BY <1>1, <2>1, PushWay DEF Before, Posted, EventOf
  <2>3. ToSet(NextQueue') = ToSet(NextQueue) \cup {e}
    BY <1>1, <2>2, EntriesOf, WayTypes DEF Before
  <2>4. /\ WayEvents = ToSet(ThisQueue) \cup ToSet(NextQueue) \cup ToSet(Posted)
        /\ WayEvents' = ToSet(ThisQueue') \cup ToSet(NextQueue') \cup ToSet(Posted')
    <3>1. (TypeOK => WayEvents = ToSet(ThisQueue) \cup ToSet(NextQueue) \cup ToSet(Posted))'
      BY ThisAndNext, PTL
    <3> QED
      BY <3>1, ThisAndNext DEF ToSet, Before, After
  <2> HIDE DEF e
  <2> QED
    BY <2>2, <2>3, <2>4
<1>4. e.handle = current /\ IsSpawn(e)
  BY DEF RunQueueEvent, Spawn, IsSpawn
<1>5. \E n \in Tasks' : n.user = current /\ Suits(n)'
  <2> HIDE DEF e
  <2> DEFINE n == EventTask(e)
  <2>1. n \in Tasks' /\ n.user = current /\ n.at = "event" /\ n.what = e
    BY <1>3, <1>4, TasksThereNext DEF EventTask, Task
  <2> HIDE DEF n
  <2>2. conn_data' = conn_data
    BY <1>1
  <2>3. PICK x : x = n
    OBVIOUS
  <2>4. x.user = current /\ x.at = "event" /\ x.what = e /\ x \in Tasks'
    BY <2>1, <2>3
  <2>5. PICK f : f = e /\ IsSpawn(f)
    BY <1>4
  <2>6. PICK h : h = current
    OBVIOUS
  <2>7. Suits(x)'
    BY <1>2, <2>2, <2>4, <2>5, <2>6 DEF Suits, EventSuits, IsSpawn
  <2> QED
    BY <2>4, <2>7
<1>6. [Next]_vars
  BY DEF Next, Thread
<1> HIDE DEF e
<1> QED
  BY <1>1, <1>3, <1>4, <1>5, <1>6, IntentCore

LEMMA CloseCore ==
  ASSUME Before, After, CompleteClose
  PROVE  Core'
<1>1. PICK s \in Slots :
        /\ current \in ConnHandles /\ Head(intents) = CloseFixed(s)
        /\ sq' = Append(sq, CloseSqe(current, s)) /\ CloseSqe(current, s) \in Sqes
        /\ intents # << >> /\ IntentDone /\ UNCHANGED <<io_bufs, run_queues, conn_alloc, conn_data>>
  BY CloseStep DEF Before, After
<1>2. PICK r \in Sqes : r = CloseSqe(current, s) /\ r.op = "close" /\ r.fixed = s /\ r.user = current
  BY <1>1 DEF CloseSqe
<1> DEFINE m == conn_data[current.index]
<1>3. CloseSuits(m, s)
  <2>1. CloseSuits(m, m.socket) /\ Head(intents) = CloseFixed(m.socket)
    BY <1>1, FirstIntent, DifferentIntents, Zenon DEF IntentSuits
  <2>2. m.socket = s
    BY <1>1, <2>1, DifferentIntents, Zenon
  <2> QED
    BY <2>1, <2>2
<1>4. UNCHANGED <<files, conn_data, run_queues, cq>>
  BY <1>1 DEF IntentDone, kernelVars
<1>5. ToSet(sq') = ToSet(sq) \cup {r}
  BY <1>1, <1>2, EntriesOf DEF Before, TypeOK
<1>6. \E n \in Tasks' : n.user = current /\ Suits(n)'
  <2>1. PICK n \in Tasks' : n = Task("sqe", r.user, r)
    BY <1>5, TasksThereNext
  <2>2. n.user = current /\ n.at = "sqe" /\ n.what = r
    BY <1>2, <2>1 DEF Task
  <2>3. PICK h : h = current
    OBVIOUS
  <2>4. Suits(n)'
    BY <1>2, <1>3, <1>4, <2>2, <2>3, Zenon DEF Suits, SqeSuits, CloseSuits
  <2> QED
    BY <2>2, <2>4
<1>7. [Next]_vars
  BY DEF Next, Thread
<1> QED
  BY <1>1, <1>2, <1>4, <1>5, <1>6, <1>7, SameWay, IntentCore

LEMMA RecvCore ==
  ASSUME Before, After, CompleteRecv
  PROVE  Core'
<1>1. PICK x \in ConnIntents : \E q \in Sqes :
        /\ current \in ConnHandles /\ Head(intents) = x /\ x.kind = "SubmitRecv"
        /\ x.off < BufSize /\ IsValid(io_bufs, x.buf)
        /\ q = ReadFixed(current, x.fixed, BufPtr(x.buf.index) + x.off, BufSize - x.off, x.buf.index)
        /\ sq' = Append(sq, q)
        /\ intents # << >> /\ IntentDone /\ UNCHANGED <<io_bufs, run_queues, conn_alloc, conn_data>>
  BY RecvStep DEF Before, After
<1>2. PICK r \in Sqes :
        /\ r = ReadFixed(current, x.fixed, BufPtr(x.buf.index) + x.off, BufSize - x.off, x.buf.index)
        /\ sq' = Append(sq, r)
  BY <1>1
<1> DEFINE m == conn_data[current.index]
<1>3. m.state = "Recv" /\ Reading(m) /\ x = Recv(m)
  BY <1>1, FirstIntent, DifferentIntents, Zenon DEF IntentSuits
<1>4. UNCHANGED <<files, sent, fin, conn_data, run_queues, cq>>
  BY <1>1 DEF IntentDone, kernelVars
<1>5. ToSet(sq') = ToSet(sq) \cup {r}
  BY <1>2, EntriesOf DEF Before, TypeOK
<1>6. /\ r.op = "recv" /\ r.user = current /\ r.fixed = m.socket
      /\ r.addr = BufPtr(m.buf_handle.index) + m.offset
      /\ r.len = BufSize - m.offset /\ r.buf = m.buf_handle.index
  BY <1>2, <1>3 DEF ReadFixed, Recv, SubmitRecv, Intent
<1>7. \E n \in Tasks' : n.user = current /\ Suits(n)'
  <2>1. PICK n \in Tasks' : n = Task("sqe", r.user, r)
    BY <1>5, TasksThereNext
  <2>2. n.user = current /\ n.at = "sqe" /\ n.what = r
    BY <1>6, <2>1 DEF Task
  <2>3. PICK h : h = current
    OBVIOUS
  <2>4. Suits(n)'
    BY <1>3, <1>4, <1>6, <2>2, <2>3, Zenon DEF Suits, SqeSuits, ReadSuits, Reading
  <2> QED
    BY <2>2, <2>4
<1>8. [Next]_vars
  BY DEF Next, Thread
<1> QED
  BY <1>1, <1>4, <1>5, <1>6, <1>7, <1>8, SameWay, IntentCore

LEMMA TerminateCore ==
  ASSUME Before, After, CompleteTerminate
  PROVE  Core'
<1>1. /\ current \in ConnHandles /\ Head(intents) = Terminate
      /\ conn_data' = IF IsValid(conn_alloc, current)
                      THEN [conn_data EXCEPT ![current.index] = None] ELSE conn_data
      /\ intents # << >> /\ IntentDone /\ UNCHANGED <<io_bufs, run_queues, sq>>
  BY TerminateStep DEF Before, After
<1>2. PICK h \in ConnHandles : h = current
  BY <1>1
<1>3. /\ h.index \in 0 .. NHandlers - 1 /\ Resolves(h) /\ Live(h.index)
      /\ ToSet(Tail(intents)) \subseteq ToSet(intents)
  BY <1>1, <1>2, FirstIntent
<1>4. IsValid(conn_alloc, h)
  BY <1>3 DEF Resolves, IsValid, Before, TypeOK, GenAllocs
<1>5. /\ conn_data'[h.index] = None
      /\ \A j \in (0 .. NHandlers - 1) \ {h.index} : conn_data'[j] = conn_data[j]
  BY <1>1, <1>2, <1>3, <1>4 DEF Before, TypeOK
<1>6. UNCHANGED <<mem, files, sent, fin, waiting, reads, current, sq, cq, run_queues>>
      /\ intents' = Tail(intents)
  BY <1>1 DEF IntentDone, kernelVars
<1>7. \A j \in (0 .. NHandlers - 1) \ {h.index} : LeftAlone(j)
  BY <1>5, <1>6, Zenon DEF LeftAlone, Kept
<1>8. TasksSuit' /\ MachinesSound'
  <2>1. /\ \A e \in WayEvents' : e \in WayEvents \/ e.handle = h
        /\ \A r \in ToSet(sq') : r \in ToSet(sq) \/ r.user = h
        /\ \A r \in ToSet(reads') : r \in ToSet(reads) \/ r.user = h
        /\ current' = current /\ ToSet(intents') \subseteq ToSet(intents)
    BY <1>3, <1>6, SameWay
  <2> QED
    BY <1>5, <1>7, <2>1, ActiveCore DEF Before, After
<1>9. World'
  <2>1. [Next]_vars
    BY DEF Next, Thread
  <2>2. ~KernelAccepts
    <3>1. intents \in Seq(IntentsOf(current))
      BY DEF Before, TypeOK
    <3> QED
      BY <1>1, <1>6, <3>1, TailShorter DEF KernelAccepts, ProgramUnchanged
  <2> QED
    BY <1>3, <1>5, <1>6, <2>1, <2>2, MachineCarriesWorld DEF Before, After
<1> QED
  BY <1>8, <1>9 DEF Core

LEMMA SpawnCore ==
  ASSUME Before, After, CompleteSpawn
  PROVE  Core'
<1>1. PICK i \in 0 .. NHandlers - 1, s \in Slots :
        /\ current = TcpHandle /\ Head(intents) = SpawnConnHandler(s)
        /\ ~Live(i) /\ conn_alloc' = AfterAlloc(conn_alloc)
        /\ conn_data' = [conn_data EXCEPT ![i] = NewConnHandler(s, files[s])]
        /\ HandleOf(i) \in ConnHandles
        /\ Push(current_run_queue, RunQueueEvent(Spawn, HandleOf(i)))
        /\ intents # << >> /\ IntentDone /\ UNCHANGED <<io_bufs, sq>>
  BY SpawnStep DEF Before, After
<1>2. /\ files[s] \in Conns /\ files[s] \notin waiting /\ Untouched(files[s])
  BY <1>1, SpawnFinds DEF Before, After, Core
<1>3. PICK h \in ConnHandles : h = HandleOf(i)
  BY <1>1
<1>4. h.index = i
  BY <1>3 DEF HandleOf, ObjectHandle
<1>5. /\ conn_data'[i] = NewConnHandler(s, files[s])
      /\ \A j \in (0 .. NHandlers - 1) \ {i} : conn_data'[j] = conn_data[j]
  BY <1>1 DEF Before, TypeOK
<1>6. UNCHANGED <<mem, files, sent, fin, waiting, reads, current, sq, cq, current_run_queue>>
      /\ intents' = Tail(intents)
  BY <1>1 DEF IntentDone, kernelVars
<1>7. \A j \in (0 .. NHandlers - 1) \ {h.index} : LeftAlone(j)
  BY <1>4, <1>5, <1>6, Zenon DEF LeftAlone, Kept
<1> DEFINE e == RunQueueEvent(Spawn, h)
<1>8. PICK x : x = e /\ x \in RunQueueEvents /\ x.handle = h /\ IsSpawn(x)
  <2>1. e \in RunQueueEvents /\ e.handle = h /\ IsSpawn(e)
    BY DEF RunQueueEvent, Spawn, IsSpawn, RunQueueEvents, Events
  <2> QED
    BY <2>1
<1>9. WayEvents' = WayEvents \cup {x}
  <2>1. ThisQueue' = Append(ThisQueue, x) /\ NextQueue' = NextQueue /\ Posted' = Posted
    BY <1>1, <1>3, <1>6, <1>8, PushWay, WayTypes DEF Before, Posted, EventOf
  <2>2. ToSet(ThisQueue') = ToSet(ThisQueue) \cup {x}
    BY <1>8, <2>1, EntriesOf, WayTypes DEF Before
  <2>3. /\ WayEvents = ToSet(ThisQueue) \cup ToSet(NextQueue) \cup ToSet(Posted)
        /\ WayEvents' = ToSet(ThisQueue') \cup ToSet(NextQueue') \cup ToSet(Posted')
    <3>1. (TypeOK => WayEvents = ToSet(ThisQueue) \cup ToSet(NextQueue) \cup ToSet(Posted))'
      BY ThisAndNext, PTL
    <3> QED
      BY <3>1, ThisAndNext DEF ToSet, Before, After
  <2> QED
    BY <2>1, <2>2, <2>3
<1>10. conn_data'[h.index].state = "Init" /\ conn_data'[h.index].socket = s
       /\ conn_data'[h.index].peer = files[s] /\ conn_data'[h.index].offset = 0
  BY <1>4, <1>5 DEF NewConnHandler
<1>11. Sound(h.index)'
  BY <1>2, <1>6, <1>10 DEF Sound, Untouched, Stored
<1>12. \E n \in Tasks' : n.user = h /\ Suits(n)'
  <2>1. PICK n \in Tasks' : n = EventTask(x)
    BY <1>9, TasksThereNext
  <2>2. n.user = h /\ n.at = "event" /\ n.what = x
    BY <1>8, <2>1 DEF EventTask, Task
  <2>3. Suits(n)'
    BY <1>8, <1>10, <2>2 DEF Suits, EventSuits, IsSpawn
  <2> QED
    BY <2>2, <2>3
<1>13. TasksSuit' /\ MachinesSound'
  <2>1. ToSet(Tail(intents)) \subseteq ToSet(intents)
    BY <1>1, EntriesOf DEF Before, TypeOK
  <2>2. /\ \A f \in WayEvents' : f \in WayEvents \/ f.handle = h
        /\ \A r \in ToSet(sq') : r \in ToSet(sq) \/ r.user = h
        /\ \A r \in ToSet(reads') : r \in ToSet(reads) \/ r.user = h
        /\ current' = current /\ ToSet(intents') \subseteq ToSet(intents)
    BY <1>6, <1>8, <1>9, <2>1
  <2> QED
    BY <1>7, <1>11, <1>12, <2>2, ActiveCore DEF Before, After
<1>14. World'
  BY SpawnWorld DEF Before, After, Core
<1> QED
  BY <1>13, <1>14 DEF Core

-----------------------------------------------------------------------------
(* What the kernel does for a machine.                                     *)
LEMMA SubmittedMachine ==
  ASSUME Before, NEW r \in ToSet(sq), r.user \in ConnHandles
  PROVE  /\ r.user.index \in 0 .. NHandlers - 1 /\ Live(r.user.index)
         /\ conn_data[r.user.index] \in ConnHandlers
         /\ SqeSuits(conn_data[r.user.index], r) /\ Sound(r.user.index)
<1> DEFINE t == Task("sqe", r.user, r)
<1>1. t \in Tasks /\ t.user = r.user /\ t.at = "sqe" /\ t.what = r
  BY TasksThere DEF Task
<1> HIDE DEF t
<1>2. /\ r.user.index \in 0 .. NHandlers - 1 /\ Live(r.user.index)
      /\ conn_data[r.user.index] \in ConnHandlers
      /\ Suits(t) /\ Sound(r.user.index)
  BY <1>1, TaskMachine DEF Before
<1> QED
  BY <1>1, <1>2, Zenon DEF Suits

LEMMA ReadingMachine ==
  ASSUME Before, NEW r \in ToSet(reads), r.user \in ConnHandles
  PROVE  /\ r.user.index \in 0 .. NHandlers - 1 /\ Live(r.user.index)
         /\ conn_data[r.user.index] \in ConnHandlers
         /\ ReadSuits(conn_data[r.user.index], r) /\ r.conn = conn_data[r.user.index].peer
         /\ Sound(r.user.index)
<1> DEFINE t == Task("read", r.user, r)
<1>1. t \in Tasks /\ t.user = r.user /\ t.at = "read" /\ t.what = r
  BY TasksThere DEF Task
<1> HIDE DEF t
<1>2. /\ r.user.index \in 0 .. NHandlers - 1 /\ Live(r.user.index)
      /\ conn_data[r.user.index] \in ConnHandlers
      /\ Suits(t) /\ Sound(r.user.index)
  BY <1>1, TaskMachine DEF Before
<1> QED
  BY <1>1, <1>2, Zenon DEF Suits

(* The slot of a machine is in use until its close, and reads are aimed    *)
(* inside of its buffer.                                                   *)
LEMMA RequestFinds ==
  ASSUME Before, NEW r \in ToSet(sq), r.user \in ConnHandles
  PROVE  LET m == conn_data[r.user.index]
         IN  /\ r.fixed = m.socket /\ m.socket \in Slots
             /\ files[r.fixed] = m.peer /\ m.peer \in Conns /\ m.peer # None
             /\ r.op = "recv" => ReadSuits(m, r) /\ r.addr .. r.addr + r.len - 1 \subseteq Iovec(r.buf)
             /\ r.op = "close" => CloseSuits(m, m.socket)
<1> DEFINE m == conn_data[r.user.index]
<1>1. Live(r.user.index) /\ m \in ConnHandlers /\ SqeSuits(m, r) /\ Sound(r.user.index)
  BY SubmittedMachine
<1>2. m.peer \in Conns /\ m.peer # None
  BY <1>1, NoneAssumption, Zenon DEF Sound
<1>3. m.socket \in Slots /\ m.offset \in Nat
  BY <1>1 DEF ConnHandlers, Machines
<1>4. CASE r.op = "recv" /\ ReadSuits(m, r) /\ r.fixed = m.socket /\ r.buf = m.buf_handle.index
  <2>1. files[m.socket] = m.peer
    BY <1>1, <1>4, Zenon DEF Sound, ReadSuits
  <2>2. r.addr = BufPtr(r.buf) + m.offset /\ r.len = BufSize - m.offset
    BY <1>4 DEF ReadSuits
  <2>3. r.addr \in Int /\ BufPtr(r.buf) \in Int
    <3>1. r \in Sqes
      BY DEF Before, TypeOK, ToSet
    <3>2. r.addr \in Addresses /\ r.buf \in 0 .. NBufs - 1
      BY <1>4, <3>1 DEF Sqes, AcceptMulti
    <3> QED
      BY <3>2 DEF Addresses, BufPtr
  <2>4. r.addr .. r.addr + r.len - 1 \subseteq Iovec(r.buf)
    <3> DEFINE a == BufPtr(r.buf)
               o == m.offset
    <3>1. a \in Int /\ o \in Nat /\ BufSize \in Nat
      BY <1>3, <2>3
    <3>2. r.addr = a + o /\ r.len = BufSize - o
      BY <2>2
    <3> HIDE DEF a, o
    <3>3. a + o .. (a + o) + (BufSize - o) - 1 \subseteq a .. a + BufSize - 1
      BY <3>1
    <3> QED
      BY <3>2, <3>3 DEF Iovec, a
  <2> QED
    BY <1>2, <1>3, <1>4, <2>1, <2>4
<1>5. CASE r.op = "close" /\ CloseSuits(m, r.fixed)
  BY <1>2, <1>3, <1>5, Zenon DEF CloseSuits
<1> QED
  BY <1>1, <1>4, <1>5 DEF SqeSuits

LEMMA IssueRecvCore ==
  ASSUME Before, After, EnterIssues, IssueRecv
  PROVE  Core'
<1> DEFINE r == Head(sq)
<1>1. sq # << >> /\ sq' = Tail(sq) /\ UNCHANGED <<waiting, sent, fin, mem, conn_data, files>>
      /\ UNCHANGED <<run_queues, current, intents, conn_alloc>>
  BY DEF EnterIssues, Issue, IssueRecv, contextVars, loopVars, machineVars
<1>2. r \in ToSet(sq) /\ ToSet(sq') \subseteq ToSet(sq) /\ r \in Sqes /\ r.op = "recv"
  <2>1. r \in ToSet(sq) /\ ToSet(sq') \subseteq ToSet(sq)
    BY <1>1, EntriesOf DEF Before, TypeOK
  <2> QED
    BY <1>1, <2>1 DEF Before, TypeOK, IssueRecv
<1>3. PICK h \in ConnHandles : h = r.user
  BY <1>2 DEF Sqes, AcceptMulti
<1> DEFINE m == conn_data[h.index]
<1>4. /\ h.index \in 0 .. NHandlers - 1 /\ Live(h.index) /\ Sound(h.index)
      /\ r.fixed = m.socket /\ m.socket \in Slots
      /\ files[r.fixed] = m.peer /\ m.peer \in Conns /\ m.peer # None
      /\ ReadSuits(m, r) /\ r.addr .. r.addr + r.len - 1 \subseteq Iovec(r.buf)
  BY <1>2, <1>3, SubmittedMachine, RequestFinds
<1> DEFINE x == [user |-> r.user, conn |-> files[r.fixed], addr |-> r.addr, len |-> r.len]
<1>5. reads' = Append(reads, x) /\ cq' = cq
  BY <1>4 DEF IssueRecv
<1>6. x \in Reads
  BY <1>2, <1>3, <1>4 DEF Reads, Sqes, AcceptMulti
<1>7. ToSet(reads') = ToSet(reads) \cup {x}
  BY <1>5, <1>6, EntriesOf DEF Before, TypeOK
<1>8. PICK y \in Reads :
        /\ y = x /\ y.user = h /\ y.conn = m.peer /\ ReadSuits(m, y)
  <2>1. x.user = h /\ x.conn = m.peer /\ ReadSuits(m, x)
    BY <1>3, <1>4 DEF ReadSuits
  <2> HIDE DEF x
  <2> QED
    BY <1>6, <2>1
<1> HIDE DEF x
<1>9. \A j : LeftAlone(j)
  BY <1>1, AllAlone
<1>10. Sound(h.index)'
  BY <1>4, <1>9, KeptSound DEF LeftAlone, Before
<1>11. \E n \in Tasks' : n.user = h /\ Suits(n)'
  <2>1. PICK n \in Tasks' : n = Task("read", y.user, y)
    BY <1>7, <1>8, TasksThereNext
  <2>2. n.user = h /\ n.at = "read" /\ n.what = y
    BY <1>8, <2>1 DEF Task
  <2>3. Suits(n)'
    BY <1>1, <1>8, <2>2, Zenon DEF Suits, ReadSuits, Reading
  <2> QED
    BY <2>2, <2>3
<1>12. TasksSuit' /\ MachinesSound'
  <2>1. /\ \A f \in WayEvents' : f \in WayEvents \/ f.handle = h
        /\ \A q \in ToSet(sq') : q \in ToSet(sq) \/ q.user = h
        /\ \A q \in ToSet(reads') : q \in ToSet(reads) \/ q.user = h
        /\ current' = current /\ ToSet(intents') \subseteq ToSet(intents)
    BY <1>1, <1>2, <1>5, <1>7, <1>8, SameWay
  <2> QED
    BY <1>9, <1>10, <1>11, <2>1, ActiveCore DEF Before, After
<1>13. World'
  <2>1. [Next]_vars
    BY DEF Next, Thread
  <2>2. ~KernelAccepts
    <3>1. Tail(sq) # sq
      BY <1>1, TailShorter DEF Before, TypeOK
    <3> QED
      BY <1>1, <3>1 DEF KernelAccepts, AcceptCompletes
  <2> QED
    BY <1>1, <1>4, <2>1, <2>2, MachineCarriesWorld DEF Before, After
<1> QED
  BY <1>12, <1>13 DEF Core

LEMMA IssueCloseCore ==
  ASSUME Before, After, EnterIssues, IssueClose
  PROVE  Core'
<1> DEFINE r == Head(sq)
<1>1. sq # << >> /\ sq' = Tail(sq) /\ UNCHANGED <<waiting, sent, fin, mem, conn_data, reads>>
      /\ UNCHANGED <<run_queues, current, intents, conn_alloc>>
  BY DEF EnterIssues, Issue, IssueClose, contextVars, loopVars, machineVars
<1>2. r \in ToSet(sq) /\ ToSet(sq') \subseteq ToSet(sq) /\ r \in Sqes /\ r.op = "close"
  <2>1. r \in ToSet(sq) /\ ToSet(sq') \subseteq ToSet(sq)
    BY <1>1, EntriesOf DEF Before, TypeOK
  <2> QED
    BY <1>1, <2>1 DEF Before, TypeOK, IssueClose
<1>3. PICK h \in ConnHandles : h = r.user
  BY <1>2 DEF Sqes, AcceptMulti
<1> DEFINE m == conn_data[h.index]
<1>4. /\ h.index \in 0 .. NHandlers - 1 /\ Live(h.index) /\ Sound(h.index)
      /\ r.fixed = m.socket /\ m.socket \in Slots
      /\ files[r.fixed] = m.peer /\ m.peer \in Conns /\ m.peer # None
      /\ m.state = "Closing"
  <2>1. CloseSuits(m, m.socket)
    BY <1>2, <1>3, RequestFinds
  <2> QED
    BY <1>2, <1>3, <2>1, SubmittedMachine, RequestFinds DEF CloseSuits
<1>5. /\ files' = [files EXCEPT ![m.socket] = None]
      /\ cq' = Append(cq, Cqe(h, 0, FALSE))
  BY <1>3, <1>4 DEF IssueClose, Post
<1>6. PICK y \in Cqes : y = Cqe(h, 0, FALSE) /\ y.user = h /\ y.res = 0
  <2>1. Cqe(h, 0, FALSE) \in Cqes
    BY DEF Cqe, Cqes
  <2> QED
    BY <2>1 DEF Cqe
<1>7. PICK e \in RunQueueEvents :
        /\ e = EventOf(y) /\ e.handle = h /\ ~IsSpawn(e) /\ e.reason.res = 0
  BY <1>6, EventOfType
<1>8. WayEvents' = WayEvents \cup {e}
  BY <1>1, <1>5, <1>6, <1>7, PostEvents DEF Before
<1>9. \A s \in Slots : files'[s] = files[s] \/ (files[s] = m.peer /\ files'[s] = None)
  BY <1>4, <1>5 DEF Before, TypeOK
<1>10. \A j \in (0 .. NHandlers - 1) \ {h.index} : LeftAlone(j)
  <2> DEFINE i == h.index
  <2>1. /\ i \in 0 .. NHandlers - 1 /\ Live(i)
        /\ \A j \in (0 .. NHandlers - 1) \ {i} : conn_data'[j] = conn_data[j]
        /\ \A s \in Slots : files'[s] = files[s] \/ files[s] = conn_data[i].peer
    BY <1>1, <1>4, <1>9
  <2> HIDE DEF i
  <2>2. \A j \in (0 .. NHandlers - 1) \ {i} : LeftAlone(j)
    BY <1>1, <2>1, OthersAlone DEF Before
  <2> QED
    BY <2>2 DEF i
<1>11. Sound(h.index)'
  BY <1>1, <1>4, Zenon DEF Sound, Live
<1>12. \E n \in Tasks' : n.user = h /\ Suits(n)'
  <2>1. PICK n \in Tasks' : n = EventTask(e)
    BY <1>8, TasksThereNext
  <2>2. n.user = h /\ n.at = "event" /\ n.what = e
    BY <1>7, <2>1 DEF EventTask, Task
  <2>3. Suits(n)'
    BY <1>1, <1>4, <1>7, <2>2, Zenon DEF Suits, EventSuits, IsSpawn
  <2> QED
    BY <2>2, <2>3
<1>13. TasksSuit' /\ MachinesSound'
  <2>1. /\ \A f \in WayEvents' : f \in WayEvents \/ f.handle = h
        /\ \A q \in ToSet(sq') : q \in ToSet(sq) \/ q.user = h
        /\ \A q \in ToSet(reads') : q \in ToSet(reads) \/ q.user = h
        /\ current' = current /\ ToSet(intents') \subseteq ToSet(intents)
    BY <1>1, <1>2, <1>7, <1>8
  <2> QED
    BY <1>10, <1>11, <1>12, <2>1, ActiveCore DEF Before, After
<1>14. World'
  <2>1. [Next]_vars
    BY DEF Next, Thread
  <2>2. ~KernelAccepts
    <3>1. Tail(sq) # sq
      BY <1>1, TailShorter DEF Before, TypeOK
    <3> QED
      BY <1>1, <3>1 DEF KernelAccepts, AcceptCompletes
  <2> QED
    BY <1>1, <1>4, <1>9, <2>1, <2>2, MachineCarriesWorld DEF Before, After
<1> QED
  BY <1>13, <1>14 DEF Core

(* A read completes: its machine is told, and only its machine's client    *)
(* and buffer change.                                                      *)
LEMMA CompletionCore ==
  ASSUME Before, After, KernelStep, NEW k \in DOMAIN reads, NEW res \in Int, Completes(k, res),
         ProgramUnchanged, NEW h \in ConnHandles, h = reads[k].user,
         NEW m, m = conn_data[h.index],
         \A c \in Conns : c # m.peer => sent'[c] = sent[c] /\ (c \in fin' <=> c \in fin),
         \/ mem' = mem
         \/ \A a \in Addresses : mem'[a] = mem[a] \/ a \in Iovec(m.buf_handle.index),
         Arrived(m, res)',
         \A n \in 0 .. m.offset - 1 :
           mem'[BufPtr(m.buf_handle.index) + n] = mem[BufPtr(m.buf_handle.index) + n]
  PROVE  Core'
<1>1. UNCHANGED <<waiting, files, sq, conn_data, run_queues, current, intents, conn_alloc>>
  BY Zenon DEF Completes, ProgramUnchanged, loopVars, machineVars
<1>2. /\ reads[k] \in ToSet(reads) /\ ToSet(reads') \subseteq ToSet(reads)
  BY EntriesOf DEF Before, TypeOK, Completes
<1>3. /\ h.index \in 0 .. NHandlers - 1 /\ Live(h.index) /\ m \in ConnHandlers
      /\ ReadSuits(m, reads[k]) /\ Sound(h.index) /\ m.peer \in Conns
  <2>1. /\ h.index \in 0 .. NHandlers - 1 /\ Live(h.index) /\ m \in ConnHandlers
        /\ ReadSuits(m, reads[k]) /\ Sound(h.index)
    BY <1>2, ReadingMachine
  <2> QED
    BY <2>1, Zenon DEF Sound
<1>4. PICK y \in Cqes : y = Cqe(h, res, FALSE) /\ cq' = Append(cq, y) /\ y.user = h /\ y.res = res
  <2>1. Cqe(h, res, FALSE) \in Cqes
    BY DEF Cqe, Cqes
  <2> QED
    BY <2>1 DEF Cqe, Completes, Post
<1>5. PICK e \in RunQueueEvents :
        /\ e = EventOf(y) /\ e.handle = h /\ ~IsSpawn(e) /\ e.reason.res = res
  <2>1. /\ EventOf(y) \in RunQueueEvents /\ EventOf(y).handle = y.user
        /\ ~IsSpawn(EventOf(y)) /\ EventOf(y).reason.res = y.res
    BY EventOfType
  <2> QED
    BY <1>4, <2>1, Zenon
<1>6. WayEvents' = WayEvents \cup {e}
  BY <1>1, <1>4, <1>5, PostEvents DEF Before
<1>7. m.state = "Recv"
  BY <1>3 DEF ReadSuits
<1>8. \A j \in (0 .. NHandlers - 1) \ {h.index} : LeftAlone(j)
  <2> DEFINE i == h.index
  <2>1. /\ i \in 0 .. NHandlers - 1 /\ Live(i)
        /\ \A j \in (0 .. NHandlers - 1) \ {i} : conn_data'[j] = conn_data[j]
        /\ \A s \in Slots : files'[s] = files[s] \/ files[s] = conn_data[i].peer
        /\ \A c \in Conns : c # conn_data[i].peer => sent'[c] = sent[c] /\ (c \in fin' <=> c \in fin)
        /\ waiting' = waiting
        /\ \/ mem' = mem
           \/ /\ conn_data[i].state = "Recv"
              /\ \A a \in Addresses :
                   mem'[a] = mem[a] \/ a \in Iovec(conn_data[i].buf_handle.index)
    BY <1>1, <1>3, <1>7
  <2> HIDE DEF i
  <2>2. \A j \in (0 .. NHandlers - 1) \ {i} : LeftAlone(j)
    BY <2>1, OthersAlone DEF Before
  <2> QED
    BY <2>2 DEF i
<1>9. Sound(h.index)'
  <2>1. conn_data'[h.index] = m
    BY <1>1
  <2>2. \A n \in 0 .. m.offset - 1 : mem'[BufPtr(m.buf_handle.index) + n] = <<m.peer, n>>
    BY <1>3, <1>7, Zenon DEF Sound, Stored
  <2>3. Stored(m, m.offset)'
    BY <2>2 DEF Stored
  <2>4. /\ m.peer \in Conns /\ m.peer \notin waiting' /\ files'[m.socket] = m.peer
        /\ m.offset <= BufSize
        /\ m.phase = "ReceivingBody" => \A n \in 0 .. HdrSize - 1 : m.header[n] = <<m.peer, n>>
    BY <1>1, <1>3, <1>7, Zenon DEF Sound
  <2> QED
    BY <1>7, <2>1, <2>3, <2>4, Zenon DEF Sound
<1>10. \E n \in Tasks' : n.user = h /\ Suits(n)'
  <2>1. PICK n \in Tasks' : n = EventTask(e)
    BY <1>6, TasksThereNext
  <2>2. n.user = h /\ n.at = "event" /\ n.what = e
    BY <1>5, <2>1 DEF EventTask, Task
  <2>3. conn_data'[h.index] = m
    BY <1>1
  <2>4. EventSuits(m, e)'
    BY <1>5, Zenon DEF EventSuits, IsSpawn
  <2>5. Suits(n)'
    BY <2>2, <2>3, <2>4, Zenon DEF Suits
  <2> QED
    BY <2>2, <2>5
<1>11. TasksSuit' /\ MachinesSound'
  <2>1. /\ \A f \in WayEvents' : f \in WayEvents \/ f.handle = h
        /\ \A q \in ToSet(sq') : q \in ToSet(sq) \/ q.user = h
        /\ \A q \in ToSet(reads') : q \in ToSet(reads) \/ q.user = h
        /\ current' = current /\ ToSet(intents') \subseteq ToSet(intents)
    BY <1>1, <1>2, <1>5, <1>6
  <2> QED
    BY <1>8, <1>9, <1>10, <2>1, ActiveCore DEF Before, After
<1>12. World'
  <2>1. [Next]_vars
    BY DEF Next, Thread, KernelStep
  <2>2. ~KernelAccepts
    <3>1. cq' = Append(cq, y) /\ KernelStep /\ y.user # TcpHandle
      BY <1>4, HandleKinds
    <3> QED
      BY <3>1, KernelPosts DEF Before
  <2> QED
    BY <1>1, <1>3, <2>1, <2>2, MachineCarriesWorld DEF Before, After
<1> QED
  BY <1>11, <1>12 DEF Core

LEMMA PendingRead ==
  ASSUME Before, NEW k \in DOMAIN reads
  PROVE  \E h \in ConnHandles : \E m \in ConnHandlers :
           /\ h = reads[k].user /\ m = conn_data[h.index] /\ Live(h.index)
           /\ m.state = "Recv" /\ Reading(m) /\ Stored(m, m.offset)
           /\ m.peer \in Conns /\ reads[k].conn = m.peer
           /\ m.offset \in Nat /\ m.offset <= BufSize
           /\ m.buf_handle.index \in 0 .. NBufs - 1
           /\ reads[k].addr = BufPtr(m.buf_handle.index) + m.offset
           /\ reads[k].len = BufSize - m.offset
<1>1. reads[k] \in Reads /\ reads[k] \in ToSet(reads)
  BY EntriesOf DEF Before, TypeOK
<1>2. PICK h \in ConnHandles : h = reads[k].user
  BY <1>1 DEF Reads
<1> DEFINE m == conn_data[h.index]
<1>3. /\ h.index \in 0 .. NHandlers - 1 /\ Live(h.index) /\ m \in ConnHandlers
      /\ ReadSuits(m, reads[k]) /\ reads[k].conn = m.peer /\ Sound(h.index)
  BY <1>1, <1>2, ReadingMachine
<1>4. m.state = "Recv" /\ m.offset \in Nat
  BY <1>3 DEF ReadSuits, ConnHandlers, Machines
<1>5. m.peer \in Conns /\ m.offset <= BufSize /\ Stored(m, m.offset)
  BY <1>3, <1>4, Zenon DEF Sound
<1>6. m.buf_handle.index \in 0 .. NBufs - 1
  <2>1. IsValid(io_bufs, m.buf_handle)
    BY <1>3, <1>4, Zenon DEF Before, BuffersInv, BuffersExact, Receiving
  <2> QED
    BY <2>1 DEF IsValid, Before, TypeOK, GenAllocs
<1> QED
  BY <1>2, <1>3, <1>4, <1>5, <1>6, Zenon DEF ReadSuits

LEMMA ReadsCore ==
  ASSUME Before, After, KernelReads
  PROVE  Core'
<1>1. PICK k \in DOMAIN reads, n \in 1 .. BufSize : ReadCompletes(k, n)
  BY DEF KernelReads
<1>2. PICK h \in ConnHandles, m \in ConnHandlers :
        /\ h = reads[k].user /\ m = conn_data[h.index] /\ Live(h.index)
        /\ m.state = "Recv" /\ Reading(m) /\ Stored(m, m.offset)
        /\ m.peer \in Conns /\ reads[k].conn = m.peer
        /\ m.offset \in Nat /\ m.offset <= BufSize
        /\ m.buf_handle.index \in 0 .. NBufs - 1
        /\ reads[k].addr = BufPtr(m.buf_handle.index) + m.offset
        /\ reads[k].len = BufSize - m.offset
  BY PendingRead
<1> DEFINE b == BufPtr(m.buf_handle.index)
           o == m.offset
<1>3. b \in Int /\ o \in Nat /\ n \in Nat /\ n # 0 /\ BufSize \in Nat /\ o + n <= BufSize
  <2>1. n <= BufSize - o
    BY <1>1, <1>2 DEF ReadCompletes
  <2>2. b \in Int
    <3>1. m.buf_handle.index \in Int /\ BufSize \in Int
      BY <1>2
    <3> QED
      BY <3>1 DEF BufPtr
  <2>3. o \in Nat /\ n \in Nat /\ n # 0 /\ BufSize \in Nat
    BY <1>2
  <2> HIDE DEF b, o
  <2> QED
    BY <2>1, <2>2, <2>3, SMTT(20)
<1>4. sent[m.peer] = o /\ m.peer \notin fin /\ fin' = fin
  <2>1. sent[m.peer] = o /\ m.peer \notin fin
    BY <1>2 DEF Reading
  <2>2. fin' = fin
    BY <1>1, Zenon DEF ReadCompletes
  <2> QED
    BY <2>1, <2>2
<1>5. sent' = [sent EXCEPT ![m.peer] = @ + n] /\ sent \in [Conns -> 0 .. MaxStream]
  BY <1>1, <1>2 DEF ReadCompletes, Before, TypeOK
<1>6. /\ sent'[m.peer] = o + n
      /\ \A c \in Conns : c # m.peer => sent'[c] = sent[c]
  <2>1. m.peer \in Conns
    BY <1>2, Zenon
  <2> QED
    BY <1>4, <1>5, <2>1, SMTT(20)
<1>7. \A a \in Addresses :
        mem'[a] = IF a \in b + o .. (b + o) + n - 1 THEN <<m.peer, o + (a - (b + o))>> ELSE mem[a]
  BY <1>1, <1>2, <1>4 DEF ReadCompletes, Filled
<1> HIDE DEF b, o
<1>8. \A x \in 0 .. BufSize - 1 : b + x \in Addresses
  BY <1>2, BufferAddresses DEF b
<1>9. \A x \in 0 .. o - 1 : mem'[b + x] = mem[b + x]
  <2> SUFFICES ASSUME NEW x \in 0 .. o - 1 PROVE mem'[b + x] = mem[b + x]
    OBVIOUS
  <2>1. x \in 0 .. BufSize - 1 /\ b + x \notin b + o .. (b + o) + n - 1
    BY <1>3
  <2> QED
    BY <1>7, <1>8, <2>1, Zenon
<1>10. \A x \in o .. o + n - 1 : mem'[b + x] = <<m.peer, x>>
  <2> SUFFICES ASSUME NEW x \in o .. o + n - 1 PROVE mem'[b + x] = <<m.peer, x>>
    OBVIOUS
  <2>1. x \in 0 .. BufSize - 1 /\ b + x \in b + o .. (b + o) + n - 1 /\ o + ((b + x) - (b + o)) = x
    BY <1>3
  <2> QED
    BY <1>7, <1>8, <2>1, Zenon
<1>11. \A x \in 0 .. (o + n) - 1 : mem'[b + x] = <<m.peer, x>>
  <2> SUFFICES ASSUME NEW x \in 0 .. (o + n) - 1 PROVE mem'[b + x] = <<m.peer, x>>
    OBVIOUS
  <2>1. x \in 0 .. o - 1 \/ x \in o .. o + n - 1
    BY <1>3
  <2>2. x \in 0 .. o - 1 => mem[b + x] = <<m.peer, x>>
    BY <1>2, Zenon DEF Stored, b, o
  <2> QED
    BY <1>9, <1>10, <2>1, <2>2, Zenon
<1>12. Arrived(m, n)'
  <2>1. n > 0
    BY <1>3
  <2> QED
    BY <1>2, <1>3, <1>4, <1>6, <1>11, <2>1, Zenon DEF Arrived, Stored, b, o
<1>13. \A a \in Addresses : mem'[a] = mem[a] \/ a \in Iovec(m.buf_handle.index)
  <2> SUFFICES ASSUME NEW a \in Addresses, mem'[a] # mem[a] PROVE a \in Iovec(m.buf_handle.index)
    OBVIOUS
  <2>1. a \in b + o .. (b + o) + n - 1
    BY <1>7, Zenon
  <2>2. a \in b .. b + BufSize - 1
    BY <1>3, <2>1
  <2> QED
    BY <2>2 DEF Iovec, b
<1>14. Completes(k, n) /\ ProgramUnchanged /\ KernelStep /\ n \in Int
  <2>1. Completes(k, n) /\ n \in Int
    BY <1>1, <1>3 DEF ReadCompletes
  <2>2. ProgramUnchanged
    BY DEF KernelReads
  <2> QED
    BY <2>1, <2>2 DEF KernelStep
<1>15. \A c \in Conns : c # m.peer => sent'[c] = sent[c] /\ (c \in fin' <=> c \in fin)
  BY <1>4, <1>6
<1> QED
  BY <1>2, <1>9, <1>12, <1>13, <1>14, <1>15, CompletionCore DEF b, o

LEMMA EndsCore ==
  ASSUME Before, After, NEW d \in Conns, KernelEnds(d)
  PROVE  Core'
<1>1. PICK k \in DOMAIN reads : ReadEnds(k)
  BY DEF KernelEnds
<1>2. PICK h \in ConnHandles, m \in ConnHandlers :
        /\ h = reads[k].user /\ m = conn_data[h.index]
        /\ m.state = "Recv" /\ Reading(m) /\ m.peer \in Conns /\ reads[k].conn = m.peer
  BY PendingRead
<1>3. Completes(k, 0) /\ ProgramUnchanged /\ KernelStep /\ fin' = fin \cup {m.peer}
      /\ UNCHANGED <<mem, sent>>
  BY <1>1, <1>2 DEF KernelEnds, ReadEnds, KernelStep
<1>4. Arrived(m, 0)'
  BY <1>2, <1>3 DEF Arrived, Reading
<1>5. \A c \in Conns : c # m.peer => sent'[c] = sent[c] /\ (c \in fin' <=> c \in fin)
  BY <1>3
<1> QED
  BY <1>2, <1>3, <1>4, <1>5, CompletionCore

LEMMA FailsCore ==
  ASSUME Before, After, KernelFails
  PROVE  Core'
<1>1. PICK k \in DOMAIN reads, errno \in RecvErrnos : ReadFails(k, errno)
  BY DEF KernelFails
<1>2. PICK h \in ConnHandles, m \in ConnHandlers :
        /\ h = reads[k].user /\ m = conn_data[h.index]
        /\ m.state = "Recv" /\ Reading(m) /\ m.peer \in Conns
  BY PendingRead
<1>3. PICK res \in Int : res = -errno /\ res < 0
  BY DEF Errnos
<1>4. Completes(k, res) /\ ProgramUnchanged /\ KernelStep /\ UNCHANGED <<mem, sent, fin>>
  BY <1>1, <1>3 DEF KernelFails, ReadFails, KernelStep
<1>5. Arrived(m, res)'
  BY <1>2, <1>3, <1>4 DEF Arrived, Reading
<1> QED
  BY <1>2, <1>4, <1>5, CompletionCore

-----------------------------------------------------------------------------
(* A machine's answer to an event that suits it leaves it sound, with an   *)
(* intent that suits it.                                                   *)
LEMMA AnswerSuits ==
  ASSUME Before, After, NEW i \in 0 .. NHandlers - 1, Live(i), Sound(i),
         NEW h \in ConnHandlers, h = conn_data[i], NEW g \in ConnHandlers, conn_data'[i] = g,
         g.socket = h.socket, g.peer = h.peer,
         NEW e \in RunQueueEvents, EventSuits(h, e), Calm(e.reason.res), Answers(h, g, e.reason),
         UNCHANGED <<mem, sent, fin, waiting, files>>
  PROVE  Sound(i)' /\ \E x \in ToSet(intents') : IntentSuits(g, x)'
<1>1. /\ h.peer \in Conns /\ h.peer \notin waiting
      /\ h.state \in {"Init", "Recv"} => files[h.socket] = h.peer
      /\ h.state = "Init" => Untouched(h.peer) /\ h.offset = 0
      /\ h.state = "Recv" => h.offset <= BufSize /\ Stored(h, h.offset)
      /\ h.state = "Recv" /\ h.phase = "ReceivingBody" =>
           \A k \in 0 .. HdrSize - 1 : h.header[k] = <<h.peer, k>>
  BY Zenon DEF Sound
<1>2. e.reason.kind \in {"Spawn", "IoCompleted"} /\ e.reason.res \in Int
  BY DEF RunQueueEvents, Events, AcceptResults
<1>3. \A x : ToSet(<<x>>) = {x}
  BY DEF ToSet
<1>4. h.offset \in Nat /\ g.offset \in Nat /\ HdrSize \in 1 .. BufSize /\ BufSize \in Nat
  BY DEF ConnHandlers, Machines
<1>5. CASE GetsBuffer(h, g, e.reason)
  <2>1. /\ h.state = "Init" /\ g.state = "Recv" /\ g.phase = "ReceivingHeader" /\ g.offset = 0
        /\ intents' = <<Recv(g)>>
    BY <1>1, <1>5 DEF GetsBuffer, ConnHandlers, Machines
  <2>2. Stored(g, g.offset)'
    BY <2>1 DEF Stored
  <2>3. Reading(g)'
    BY <1>1, <2>1, Zenon DEF Reading, Untouched
  <2>4. Sound(i)'
    <3>1. g.offset <= BufSize /\ g.phase # "ReceivingBody"
      BY <1>4, <2>1
    <3>2. files'[g.socket] = g.peer /\ g.peer \notin waiting'
      BY <1>1, <2>1
    <3> QED
      BY <1>1, <2>1, <2>2, <3>1, <3>2 DEF Sound, Stored
  <2>5. IntentSuits(g, Recv(g))'
    BY <2>1, <2>3 DEF IntentSuits, Recv, SubmitRecv, Intent
  <2> QED
    BY <1>3, <2>1, <2>4, <2>5
<1>6. CASE TriesAgain(h, g, e.reason)
  <2>1. h.state = "Init" /\ g = h /\ intents' = <<Retry>>
    BY <1>6 DEF TriesAgain
  <2>2. Sound(i)'
    BY <1>1, <2>1, Zenon DEF Sound, Untouched, Stored
  <2>3. IntentSuits(g, Retry)'
    BY <2>1 DEF IntentSuits, Retry, Intent
  <2> QED
    BY <1>3, <2>1, <2>2, <2>3
<1>7. CASE HasReceived(h, g, e.reason)
  <2> DEFINE res == e.reason.res
  <2>1. /\ h.state = "Recv" /\ res > 0 /\ g = AfterData(h, res) /\ intents' = <<Recv(g)>>
        /\ ~IsSpawn(e)
    BY <1>7 DEF HasReceived, IsSpawn
  <2>2. Arrived(h, res)
    BY <2>1 DEF EventSuits
  <2>3. /\ sent[h.peer] = h.offset + res /\ h.peer \notin fin
        /\ h.offset + res <= BufSize /\ Stored(h, h.offset + res)
    BY <2>1, <2>2 DEF Arrived
  <2> DEFINE w == h.offset + res
  <2>4. /\ g.state = "Recv" /\ g.offset = w /\ g.buf_handle = h.buf_handle
        /\ g.phase = "ReceivingBody" =>
             w >= HdrSize /\ g.header = [k \in 0 .. HdrSize - 1 |-> mem[BufPtr(h.buf_handle.index) + k]]
    <3>1. CASE w >= HdrSize
      <4> DEFINE d == [h EXCEPT !.offset = @ + res]
                 b == Header(d)
      <4>1. d.offset = w /\ d.buf_handle = h.buf_handle /\ d.state = h.state
            /\ DOMAIN d = {"state", "phase", "header", "socket", "buf_handle", "offset", "peer"}
        BY DEF ConnHandlers, Machines
      <4>2. g = [d EXCEPT !.phase = "ReceivingBody", !.header = b]
        BY <2>1, <3>1, <4>1 DEF AfterData
      <4>3. b = [k \in 0 .. HdrSize - 1 |-> mem[BufPtr(h.buf_handle.index) + k]]
        BY <4>1, Zenon DEF Header
      <4> HIDE DEF d, b
      <4>4. g.state = d.state /\ g.offset = d.offset /\ g.buf_handle = d.buf_handle /\ g.header = b
        BY <4>1, <4>2
      <4> QED
        BY <2>1, <3>1, <4>1, <4>3, <4>4
    <3>2. CASE ~(w >= HdrSize)
      BY <2>1, <3>2 DEF AfterData, ConnHandlers, Machines
    <3> QED
      BY <3>1, <3>2
  <2>5. Stored(g, w)'
    BY <2>3, <2>4, Zenon DEF Stored
  <2>6. Reading(g)'
    BY <2>3, <2>4, Zenon DEF Reading
  <2>7. g.phase = "ReceivingBody" => \A k \in 0 .. HdrSize - 1 : g.header[k] = <<g.peer, k>>
    <3> SUFFICES ASSUME g.phase = "ReceivingBody", NEW k \in 0 .. HdrSize - 1
                 PROVE  g.header[k] = <<g.peer, k>>
      OBVIOUS
    <3>1. g.header[k] = mem[BufPtr(h.buf_handle.index) + k]
      BY <2>4
    <3>2. k \in 0 .. w - 1
      BY <1>2, <1>4, <2>4
    <3>3. mem[BufPtr(h.buf_handle.index) + k] = <<h.peer, k>>
      BY <2>3, <3>2, Zenon DEF Stored
    <3> QED
      BY <3>1, <3>3
  <2>8. Sound(i)'
    <3>1. g.state = "Recv" /\ g.offset <= BufSize /\ g.offset = w
      BY <2>3, <2>4
    <3>2. files'[g.socket] = g.peer /\ g.peer \notin waiting' /\ g.peer \in Conns
      BY <1>1, <2>1
    <3>3. Stored(g, g.offset)'
      BY <2>5, <3>1, Zenon DEF Stored
    <3> HIDE DEF w, res
    <3> QED
      BY <2>7, <3>1, <3>2, <3>3 DEF Sound, Stored
  <2>9. IntentSuits(g, Recv(g))'
    BY <2>4, <2>6 DEF IntentSuits, Recv, SubmitRecv, Intent
  <2> QED
    BY <1>3, <2>1, <2>8, <2>9
<1>8. CASE ReadsAgain(h, g, e.reason)
  <2>1. h.state = "Recv" /\ g = h /\ intents' = <<Recv(g)>> /\ e.reason.res < 0 /\ ~IsSpawn(e)
    BY <1>8 DEF ReadsAgain, IsSpawn
  <2>2. Arrived(h, e.reason.res)
    BY <2>1 DEF EventSuits
  <2>3. Reading(g)'
    BY <1>2, <2>1, <2>2 DEF Arrived, Reading
  <2>4. Sound(i)'
    BY <1>1, <2>1, Zenon DEF Sound, Untouched, Stored
  <2>5. IntentSuits(g, Recv(g))'
    BY <2>1, <2>3 DEF IntentSuits, Recv, SubmitRecv, Intent
  <2> QED
    BY <1>3, <2>1, <2>4, <2>5
<1>9. CASE StartsClose(h, g, e.reason)
  <2>1. ~IsSpawn(e) /\ g = Closing(h) /\ g.state = "Closing"
    BY <1>9 DEF StartsClose, IsSpawn, Closing, ConnHandlers, Machines
  <2>2. h.state = "Recv" /\ e.reason.res = 0 /\ intents' = <<CloseFixed(h.socket)>>
    <3>1. ~(h.state = "Closing" /\ e.reason.res # 0)
      BY <2>1 DEF EventSuits, Arrived
    <3> QED
      BY <1>9, <3>1 DEF StartsClose
  <2>3. CloseSuits(g, g.socket)'
    BY <1>1, <2>1, <2>2, Zenon DEF CloseSuits
  <2>4. Sound(i)'
    <3>1. g.peer \notin waiting' /\ g.peer \in Conns /\ g.state = "Closing"
      BY <1>1, <2>1
    <3> QED
      BY <3>1 DEF Sound
  <2>5. IntentSuits(g, CloseFixed(g.socket))'
    BY <2>3 DEF IntentSuits, CloseFixed, Intent
  <2> QED
    BY <1>3, <2>2, <2>4, <2>5
<1>10. CASE Finishes(h, g, e.reason)
  <2>1. g.state = "Closed" /\ intents' = <<Terminate>>
    BY <1>10 DEF Finishes, ConnHandlers, Machines
  <2>2. Sound(i)'
    <3>1. g.peer \notin waiting' /\ g.peer \in Conns
      BY <1>1
    <3> QED
      BY <2>1, <3>1 DEF Sound
  <2>3. IntentSuits(g, Terminate)'
    BY <2>1 DEF IntentSuits, Terminate, Intent
  <2> QED
    BY <1>3, <2>1, <2>2, <2>3
<1>11. ~Ignores(h, g, e.reason)
  BY DEF Ignores, EventSuits, Arrived
<1> QED
  BY <1>5, <1>6, <1>7, <1>8, <1>9, <1>10, <1>11 DEF Answers

(* A machine that an event is dispatched to, and what it makes of it.      *)
LEMMA MachineAnswers ==
  ASSUME Before, After, DispatchConn
  PROVE  \E f \in RunQueueEvents, u \in ConnHandles, h, g \in ConnHandlers :
           /\ f \in WayEvents /\ u = f.handle /\ u.index \in 0 .. NHandlers - 1
           /\ Live(u.index) /\ h = conn_data[u.index] /\ Sound(u.index)
           /\ EventSuits(h, f) /\ Calm(f.reason.res)
           /\ conn_data' = [conn_data EXCEPT ![u.index] = g]
           /\ g.socket = h.socket /\ g.peer = h.peer /\ Answers(h, g, f.reason)
           /\ current' = u /\ WayEvents' \subseteq WayEvents
           /\ UNCHANGED <<mem, sent, fin, waiting, files, sq, reads>>
<1> DEFINE e == NextEvent
           h == e.handle
           i == h.index
<1>1. Pop /\ Finds(h) /\ ConnProcessEvent(i, e.reason)
  BY DEF DispatchConn
<1>2. e \in RunQueueEvents /\ h \in ConnHandles /\ e.reason \in Events(Int)
  BY <1>1, PopEventType, EventKinds DEF DispatchConn, Before
<1>3. WayEvents' \subseteq WayEvents /\ e \in WayEvents
  BY <1>1, PopEventsGo DEF Before, After
<1>4. Calm(e.reason.res)
  <2>1. e \notin LoudEvents
    BY <1>1, PopNeither DEF Before, ResultsCalm
  <2> QED
    BY <1>2, <2>1 DEF LoudEvents
<1>5. /\ i \in 0 .. NHandlers - 1 /\ Live(i) /\ conn_data[i] \in ConnHandlers
      /\ EventSuits(conn_data[i], e) /\ Sound(i)
  <2>1. EventTask(e) \in Tasks /\ EventTask(e).user = h /\ EventTask(e).at = "event"
        /\ EventTask(e).what = e
    BY <1>3, TasksThere DEF EventTask, Task
  <2> DEFINE t == EventTask(e)
  <2>2. t \in Tasks /\ t.user = h /\ t.at = "event" /\ t.what = e
    BY <2>1
  <2> HIDE DEF t, e, h, i
  <2>3. /\ t.user.index \in 0 .. NHandlers - 1
        /\ Live(t.user.index) /\ conn_data[t.user.index] \in ConnHandlers
        /\ Suits(t) /\ Sound(t.user.index)
    BY <1>2, <2>2, TaskMachine DEF Before, h
  <2> QED
    BY <1>2, <2>2, <2>3, Zenon DEF Suits, i, h
<1>6. PICK f \in RunQueueEvents : f = e
  BY <1>2
<1>7. PICK u \in ConnHandles : u = f.handle
  BY <1>2, <1>6
<1>8. PICK m \in ConnHandlers : m = conn_data[u.index]
  BY <1>5, <1>6, <1>7
<1>9. PICK g \in ConnHandlers :
        /\ conn_data' = [conn_data EXCEPT ![u.index] = g] /\ mem' = mem
        /\ g.socket = m.socket /\ g.peer = m.peer /\ Answers(m, g, f.reason)
  <2>1. /\ u.index \in 0 .. NHandlers - 1 /\ conn_data[u.index] \in ConnHandlers
        /\ f.reason \in Events(Int) /\ ConnProcessEvent(u.index, f.reason)
    BY <1>1, <1>2, <1>5, <1>6, <1>7
  <2> QED
    BY <1>8, <2>1, ArmAnswers DEF Before, After
<1>10. current' = u /\ UNCHANGED <<mem, sent, fin, waiting, files, sq, reads>>
  BY <1>1, <1>6, <1>7, <1>9 DEF Pop, ringVars, kernelVars
<1>11. /\ u.index \in 0 .. NHandlers - 1 /\ Live(u.index) /\ Sound(u.index)
       /\ EventSuits(m, f) /\ Calm(f.reason.res) /\ f \in WayEvents
  BY <1>3, <1>4, <1>5, <1>6, <1>7, <1>8
<1> HIDE DEF e, h, i
<1> QED
  BY <1>3, <1>7, <1>8, <1>9, <1>10, <1>11

LEMMA ConnCore ==
  ASSUME Before, After, DispatchConn
  PROVE  Core'
<1>1. PICK f \in RunQueueEvents, u \in ConnHandles, h \in ConnHandlers, g \in ConnHandlers :
        /\ f \in WayEvents /\ u = f.handle /\ u.index \in 0 .. NHandlers - 1
        /\ Live(u.index) /\ h = conn_data[u.index] /\ Sound(u.index)
        /\ EventSuits(h, f) /\ Calm(f.reason.res)
        /\ conn_data' = [conn_data EXCEPT ![u.index] = g]
        /\ g.socket = h.socket /\ g.peer = h.peer /\ Answers(h, g, f.reason)
        /\ current' = u /\ WayEvents' \subseteq WayEvents
        /\ UNCHANGED <<mem, sent, fin, waiting, files, sq, reads>>
  BY MachineAnswers
<1>2. PICK k \in 0 .. NHandlers - 1 : k = u.index
  BY <1>1
<1>3. conn_data[k] = h /\ conn_data'[k] = g /\ Live(k) /\ Sound(k)
      /\ \A j \in (0 .. NHandlers - 1) \ {k} : conn_data'[j] = conn_data[j]
  BY <1>1, <1>2 DEF Before, TypeOK
<1>4. Sound(k)' /\ \E x \in ToSet(intents') : IntentSuits(g, x)'
  BY <1>1, <1>3, AnswerSuits
<1>5. \A j \in (0 .. NHandlers - 1) \ {k} : LeftAlone(j)
  BY <1>1, <1>3, Zenon DEF LeftAlone, Kept
<1>6. \E n \in Tasks' : n.user = u /\ Suits(n)'
  <2>1. PICK x \in ToSet(intents') : IntentSuits(g, x)'
    BY <1>4
  <2>2. PICK n \in Tasks' : n = Task("intent", current', x)
    BY TasksThereNext
  <2>3. n.user = u /\ n.at = "intent" /\ n.what = x
    BY <1>1, <2>2 DEF Task
  <2>4. Suits(n)'
    BY <1>2, <1>3, <2>1, <2>3, Zenon DEF Suits
  <2> QED
    BY <2>3, <2>4
<1>7. TasksSuit' /\ MachinesSound'
  <2>1. /\ \A d \in WayEvents' : d \in WayEvents \/ d.handle = u
        /\ \A q \in ToSet(sq') : q \in ToSet(sq) \/ q.user = u
        /\ \A q \in ToSet(reads') : q \in ToSet(reads) \/ q.user = u
        /\ \A j \in (0 .. NHandlers - 1) \ {u.index} : LeftAlone(j)
        /\ Sound(u.index)' /\ current' = u
    BY <1>1, <1>2, <1>4, <1>5
  <2> QED
    BY <1>6, <2>1, ActiveCore DEF Before, After
<1>8. World'
  <2>1. [Next]_vars
    BY DEF Next, Thread
  <2>2. ~KernelAccepts
    <3>1. ThisQueue \in Seq(RunQueueEvents) /\ PopsEvent
      BY WayTypes, PopWay DEF Before, DispatchConn
    <3>2. run_queues' # run_queues \/ current_run_queue' # current_run_queue
      BY <3>1, TailShorter DEF PopsEvent, ThisQueue
    <3> QED
      BY <3>2 DEF KernelAccepts, ProgramUnchanged, loopVars
  <2> QED
    BY <1>1, <1>2, <1>3, <2>1, <2>2, MachineCarriesWorld DEF Before, After
<1> QED
  BY <1>7, <1>8 DEF Core

(* A quiet step moves nothing in the file table, unless it accepts.        *)
LEMMA QuietFiles ==
  ASSUME \/ DispatchTcp \/ DispatchMissing \/ CompleteAccept
         \/ DrainDone \/ IntentsDone \/ SubmitShortcut \/ SubmitEnter \/ EnterReturns
         \/ EnterError \/ Reap \/ ReapDone \/ UNCHANGED vars
         \/ KernelRefuses \/ (EnterIssues /\ IssueAccept)
  PROVE  files' = files
<1>1. CASE DispatchTcp \/ DispatchMissing
  BY <1>1 DEF DispatchTcp, DispatchMissing, Pop, kernelVars
<1>2. CASE CompleteAccept
  BY <1>2 DEF CompleteAccept, EnqueueFor, IntentDone, Crash, kernelVars
<1>3. CASE \/ DrainDone \/ IntentsDone \/ SubmitShortcut \/ SubmitEnter \/ EnterReturns
           \/ EnterError \/ Reap \/ ReapDone \/ UNCHANGED vars
  BY <1>3 DEF DrainDone, IntentsDone, SubmitShortcut, SubmitEnter, EnterReturns, EnterError,
       Reap, ReapDone, vars, kernelVars, Crash
<1>4. CASE KernelRefuses \/ (EnterIssues /\ IssueAccept)
  BY <1>4 DEF KernelRefuses, AcceptOverflows, IssueAccept
<1> QED
  BY <1>1, <1>2, <1>3, <1>4, Zenon

(* An accept that the kernel completes fills a slot.                       *)
LEMMA AcceptsFill ==
  ASSUME TypeOK, TypeOK', KernelAccepts
  PROVE  files' # files
<1>1. PICK c \in Conns, s \in Slots : files[s] = None /\ files' = [files EXCEPT ![s] = c]
  BY DEF KernelAccepts, AcceptCompletes
<1>2. files'[s] = c /\ c # None
  BY <1>1, NoneAssumption DEF TypeOK
<1> QED
  BY <1>1, <1>2

LEMMA QuietWorld ==
  ASSUME Before, After, [Next]_vars, Quiet, files' = files
  PROVE  Core'
<1>1. TasksSuit' /\ MachinesSound'
  BY QuietCore DEF Before, Core
<1>2. ~KernelAccepts
  BY AcceptsFill DEF Before, After
<1>3. \A s \in Slots : Incoming({s})' <= Incoming({s})
  BY <1>2, IncomingFalls DEF Before, After
<1>4. CarriesWorld
  BY <1>3, Zenon DEF CarriesWorld, Quiet, Live
<1>5. World'
  BY <1>4, WorldCarries DEF Before, After, Core
<1> QED
  BY <1>1, <1>5 DEF Core

LEMMA AcceptCore ==
  ASSUME Before, After, KernelAccepts
  PROVE  Core'
<1>1. Quiet
  BY KernelQuiet DEF Before, After
<1>2. TasksSuit' /\ MachinesSound'
  BY <1>1, QuietCore DEF Before, Core
<1>3. World'
  BY AcceptWorld DEF Before, After, Core
<1> QED
  BY <1>2, <1>3 DEF Core

LEMMA QuietStepCore ==
  ASSUME Before, After, [Next]_vars,
         \/ DispatchTcp \/ DispatchMissing \/ CompleteAccept
         \/ DrainDone \/ IntentsDone \/ SubmitShortcut \/ SubmitEnter \/ EnterReturns
         \/ EnterError \/ Reap \/ ReapDone \/ UNCHANGED vars
         \/ KernelRefuses \/ (EnterIssues /\ IssueAccept)
  PROVE  Core'
<1>1. TypeOK /\ TypeOK' /\ QueueDrained /\ panic' = "no"
  BY DEF Before, After
<1>2. CASE DispatchTcp \/ DispatchMissing
  BY <1>1, <1>2, ListenerQuiet, QuietFiles, QuietWorld
<1>3. CASE CompleteAccept
  BY <1>1, <1>3, AcceptQuiet, QuietFiles, QuietWorld
<1>4. CASE \/ DrainDone \/ IntentsDone \/ SubmitShortcut \/ SubmitEnter \/ EnterReturns
           \/ EnterError \/ Reap \/ ReapDone \/ UNCHANGED vars
  BY <1>1, <1>4, MovesQuiet, QuietFiles, QuietWorld
<1>5. CASE KernelRefuses \/ (EnterIssues /\ IssueAccept)
  BY <1>1, <1>5, KernelQuiet, QuietFiles, QuietWorld
<1> QED
  BY <1>2, <1>3, <1>4, <1>5, Zenon

LEMMA NextCore ==
  ASSUME Before, After, [Next]_vars
  PROVE  Core'
<1>1. CASE \/ DispatchTcp \/ DispatchMissing \/ CompleteAccept
           \/ DrainDone \/ IntentsDone \/ SubmitShortcut \/ SubmitEnter \/ EnterReturns
           \/ EnterError \/ Reap \/ ReapDone \/ UNCHANGED vars
           \/ KernelRefuses \/ (EnterIssues /\ IssueAccept)
  BY <1>1, QuietStepCore, Zenon
<1>2. CASE KernelAccepts
  BY <1>2, AcceptCore
<1>3. CASE DispatchConn
  BY <1>3, ConnCore
<1>4. CASE CompleteRetry \/ CompleteClose \/ CompleteRecv \/ CompleteTerminate \/ CompleteSpawn
  BY <1>4, RetryCore, CloseCore, RecvCore, TerminateCore, SpawnCore
<1>5. CASE EnterIssues /\ ~IssueAccept
  <2>1. IssueRecv \/ IssueClose
    BY <1>5, Zenon DEF EnterIssues, Issue
  <2> QED
    BY <1>5, <2>1, IssueRecvCore, IssueCloseCore
<1>6. CASE KernelReads \/ KernelFails
  BY <1>6, ReadsCore, FailsCore
<1>7. CASE \E d \in Conns : KernelEnds(d)
  BY <1>7, EndsCore
<1>8. CASE Next
  BY <1>1, <1>2, <1>3, <1>4, <1>5, <1>6, <1>7, <1>8, Zenon DEF Next, Thread
<1> QED
  BY <1>1, <1>8, Zenon

LEMMA InitCore ==
  ASSUME Init
  PROVE  Core
<1>1. /\ run_queues[0] = <<RunQueueEvent(Spawn, TcpHandle)>> /\ run_queues[1] = << >>
      /\ sq = << >> /\ cq = << >> /\ reads = << >> /\ intents = << >>
      /\ \A i \in 0 .. NHandlers - 1 : ~Live(i)
      /\ \A s \in Slots : files[s] = None
      /\ sent = [c \in Conns |-> 0] /\ fin = {} /\ waiting = Conns
  BY DEF Init, UringInit, Live
<1>2. ToSet(sq) = {} /\ ToSet(reads) = {} /\ ToSet(intents) = {} /\ ToSet(cq) = {}
      /\ ToSet(run_queues[1]) = {} /\ ToSet(run_queues[0]) = {RunQueueEvent(Spawn, TcpHandle)}
  BY <1>1 DEF ToSet
<1>3. \A e \in WayEvents : e.handle = TcpHandle
  BY <1>2 DEF WayEvents, RunQueueEvent
<1>4. \A t \in Tasks : t.user = TcpHandle
  BY <1>2, <1>3, TaskParts DEF SqeTasks, ReadTasks, IntentTasks, EventTask, Task
<1>5. TasksSuit
  <2>1. TcpHandle \notin ConnHandles
    BY HandleKinds
  <2> QED
    BY <1>4, <2>1, Zenon DEF TasksSuit, Suits
<1>6. MachinesSound
  BY <1>1, Zenon DEF MachinesSound, Sound
<1>7. FilesSound
  <2>1. \A c \in waiting : Untouched(c)
    BY <1>1 DEF Untouched
  <2> QED
    BY <1>1, <2>1, NoneAssumption, Zenon DEF FilesSound
<1>8. PeersDistinct
  BY <1>1, Zenon DEF PeersDistinct
<1>9. ComingSound
  <2> SUFFICES ASSUME NEW s \in Slots PROVE Incoming({s}) = 0
    BY Zenon DEF ComingSound
  <2> DEFINE A == AcceptsOf({s})
             e == RunQueueEvent(Spawn, TcpHandle)
  <2>1. /\ ThisQueue = <<e>> /\ NextQueue = << >> /\ Posted = << >>
    BY DEF Init, UringInit, ThisQueue, NextQueue, next_run_queue_idx, Posted
  <2>2. e \notin A
    BY AcceptsAreAccepts DEF RunQueueEvent, IsSpawn, Spawn
  <2> HIDE DEF A
  <2>3. Count(NextQueue, A) = 0 /\ Count(Posted, A) = 0 /\ Count(intents, SpawnsOf({s})) = 0
    BY <1>1, <2>1, CountShort
  <2>4. Count(ThisQueue, A) = 0
    <3> DEFINE T == {e}
    <3>1. e \in T
      OBVIOUS
    <3> HIDE DEF T, e
    <3>2. Count(<<e>>, A) = IF e \in A THEN 1 ELSE 0
      BY <3>1, CountShort
    <3> QED
      BY <2>1, <2>2, <3>2
  <2> QED
    BY <2>3, <2>4 DEF Incoming, OnWay, A
<1> QED
  BY <1>5, <1>6, <1>7, <1>8, <1>9 DEF Core, World

(* What the properties of the machines' requests and buffers are about.    *)
Watched == <<sq, cq, reads, files, conn_alloc, conn_data, io_bufs, mem>>

(* A panic leaves the requests, the machines and the buffers as they were, *)
(* and after it nothing happens.                                           *)
LEMMA CrashKeeps ==
  ASSUME [Next]_vars, panic' # "no"
  PROVE  UNCHANGED Watched
<1>1. CASE UNCHANGED vars
  BY <1>1 DEF vars, Watched, contextVars, machineVars, ringVars, kernelVars
<1>2. CASE DispatchConn
  <2> DEFINE i == NextEvent.handle.index
             e == NextEvent.reason
  <2>1. Pop /\ ConnProcessEvent(i, e) /\ panic = "no"
    BY <1>2 DEF DispatchConn, Pop, Running
  <2> HIDE DEF i, e
  <2>2. UNCHANGED <<conn_data, io_bufs, mem>>
    <3>1. CASE OnUnexpected(i)
      BY <3>1 DEF OnUnexpected
    <3>2. CASE OnInit(i)
      BY <2>1, <3>2 DEF OnInit
    <3>3. CASE OnRecvData(i, e.res)
      BY <2>1, <3>3 DEF OnRecvData
    <3>4. CASE OnRecvRetryErr(i, e.res) \/ OnRecvFatalErr(i, e.res) \/ OnRecvOtherErr(i, e.res)
      BY <3>4 DEF OnRecvRetryErr, OnRecvFatalErr, OnRecvOtherErr
    <3>5. CASE OnRecvEof(i, e.res) \/ OnRecvCloseErr(i, e.res) \/ OnCloseFailed(i, e.res)
      <4>1. Close(i) /\ mem' = mem
        BY <3>5 DEF OnRecvEof, OnRecvCloseErr, OnCloseFailed
      <4> QED
        BY <2>1, <4>1 DEF Close
    <3>6. CASE OnClosed(i, e.res)
      BY <2>1, <3>6 DEF OnClosed
    <3> QED
      BY <2>1, <3>1, <3>2, <3>3, <3>4, <3>5, <3>6, Zenon DEF ConnProcessEvent
  <2> QED
    BY <2>1, <2>2 DEF Pop, Watched, ringVars, kernelVars
<1>3. CASE DispatchTcp \/ DispatchMissing
  <2>1. Pop /\ UNCHANGED <<conn_data, io_bufs, mem>>
    BY <1>3 DEF DispatchTcp, DispatchMissing, TcpProcessEvent, OnListen, OnAccepted, OnAcceptErr,
           OnTcpUnexpected
  <2> QED
    BY <2>1 DEF Pop, Watched, ringVars, kernelVars
<1>4. CASE \/ CompleteRetry \/ CompleteAccept \/ CompleteSpawn \/ CompleteRecv
           \/ CompleteClose \/ CompleteTerminate
  <2>1. panic = "no" /\ ~IntentDone
    BY <1>4, Zenon DEF CompleteRetry, CompleteAccept, CompleteSpawn, CompleteRecv, CompleteClose,
         CompleteTerminate, AtIntent, Running, IntentDone
  <2>2. \A site : Crash(site) => UNCHANGED Watched
    BY DEF Crash, Watched, machineVars, ringVars, kernelVars
  <2>3. \A r : EnqueueFor(r) => UNCHANGED Watched
    BY <2>1, <2>2, Zenon DEF EnqueueFor
  <2> QED
    BY <1>4, <2>1, <2>2, <2>3, Zenon DEF CompleteRetry, CompleteAccept, CompleteSpawn,
       CompleteRecv, CompleteClose, CompleteTerminate
<1>5. CASE EnterError \/ Reap
  BY <1>5 DEF EnterError, Reap, At, Running, Crash, contextVars, Watched, machineVars, ringVars, kernelVars
<1>6. CASE \/ DrainDone \/ IntentsDone \/ SubmitShortcut \/ SubmitEnter \/ EnterReturns \/ ReapDone
           \/ KernelStep
  <2>1. panic = "no" /\ panic' = panic
    BY <1>6 DEF DrainDone, IntentsDone, SubmitShortcut, SubmitEnter, EnterReturns, ReapDone,
       At, Running, contextVars, KernelStep, EnterIssues, KernelAccepts, KernelRefuses, KernelReads,
       KernelFails, KernelEnds, ProgramUnchanged
  <2> QED
    BY <2>1
<1> QED
  BY <1>1, <1>2, <1>3, <1>4, <1>5, <1>6, Zenon DEF Next, Thread, KernelStep

(* The machine of a task is found by the handle that the task carries.     *)
LEMMA UserOwns ==
  ASSUME Before, NEW t \in Tasks, t.user \in ConnHandles, NEW states,
         conn_data[t.user.index].state \in states
  PROVE  Owns(t.user, states)
<1>1. t.user.index \in 0 .. NHandlers - 1 /\ Resolves(t.user)
  BY TaskMachine DEF Before
<1>2. conn_alloc \in GenAllocs(NHandlers)
  BY DEF Before, TypeOK
<1>3. IsValid(conn_alloc, t.user)
  BY <1>1, <1>2 DEF IsValid, Resolves, GenAllocs
<1> QED
  BY <1>3, HandleKinds DEF Owns

(* A receiving machine's buffer is its own.                                *)
LEMMA HoldsBuffer ==
  ASSUME Before, NEW i \in 0 .. NHandlers - 1, Live(i), conn_data[i].state = "Recv"
  PROVE  IsValid(io_bufs, conn_data[i].buf_handle)
BY Zenon DEF Before, BuffersInv, BuffersExact, Receiving

(* Only the accept is submitted for the listener.                          *)
LEMMA SubmittedBy ==
  ASSUME Before, NEW r \in ToSet(sq), r.op \in {"recv", "close"}
  PROVE  r.user \in ConnHandles
<1>1. r \in Sqes
  BY DEF Before, TypeOK, ToSet
<1> QED
  BY <1>1 DEF Sqes, AcceptMulti

LEMMA RecvReachesPeer ==
  ASSUME Before, NEW r \in ToSet(sq), r.op = "recv"
  PROVE  /\ Owns(r.user, {"Recv"})
         /\ files[r.fixed] = conn_data[r.user.index].peer
         /\ InOwnBuffer(r, conn_data[r.user.index])
<1>1. r.user \in ConnHandles
  BY SubmittedBy
<1> DEFINE m == conn_data[r.user.index]
<1>2. /\ r.user.index \in 0 .. NHandlers - 1 /\ Live(r.user.index) /\ SqeSuits(m, r)
  BY <1>1, SubmittedMachine
<1>3. /\ files[r.fixed] = m.peer /\ ReadSuits(m, r)
      /\ r.addr .. r.addr + r.len - 1 \subseteq Iovec(r.buf)
  BY <1>1, RequestFinds
<1>4. r.buf = m.buf_handle.index /\ m.state = "Recv"
  BY <1>2, <1>3 DEF SqeSuits, ReadSuits
<1>5. IsValid(io_bufs, m.buf_handle)
  BY <1>2, <1>4, HoldsBuffer
<1>6. Owns(r.user, {"Recv"})
  <2> DEFINE t == Task("sqe", r.user, r)
  <2>1. t \in Tasks /\ t.user = r.user
    BY TasksThere DEF Task
  <2> HIDE DEF t
  <2> QED
    BY <1>1, <1>4, <2>1, UserOwns
<1> QED
  BY <1>3, <1>4, <1>5, <1>6 DEF InOwnBuffer

LEMMA CloseReachesPeer ==
  ASSUME Before, NEW r \in ToSet(sq), r.op = "close"
  PROVE  /\ Owns(r.user, {"Closing"})
         /\ files[r.fixed] = conn_data[r.user.index].peer
<1>1. r.user \in ConnHandles
  BY SubmittedBy
<1> DEFINE m == conn_data[r.user.index]
<1>2. files[r.fixed] = m.peer /\ m.state = "Closing"
  BY <1>1, RequestFinds DEF CloseSuits
<1> DEFINE t == Task("sqe", r.user, r)
<1>3. t \in Tasks /\ t.user = r.user
  <2>1. t \in Tasks
    BY TasksThere, Zenon
  <2>2. t.user = r.user
    BY Zenon DEF Task
  <2> QED
    BY <2>1, <2>2
<1> HIDE DEF t
<1> QED
  BY <1>1, <1>2, <1>3, UserOwns

LEMMA ReadReachesPeer ==
  ASSUME Before, NEW k \in DOMAIN reads
  PROVE  /\ Owns(reads[k].user, {"Recv"})
         /\ reads[k].conn = conn_data[reads[k].user.index].peer
         /\ InOwnBuffer(reads[k], conn_data[reads[k].user.index])
<1>1. PICK h \in ConnHandles, m \in ConnHandlers :
        /\ h = reads[k].user /\ m = conn_data[h.index] /\ Live(h.index)
        /\ m.state = "Recv" /\ reads[k].conn = m.peer
        /\ m.offset \in Nat /\ m.offset <= BufSize
        /\ m.buf_handle.index \in 0 .. NBufs - 1
        /\ reads[k].addr = BufPtr(m.buf_handle.index) + m.offset
        /\ reads[k].len = BufSize - m.offset
  BY PendingRead
<1>2. h.index \in 0 .. NHandlers - 1
  BY DEF ConnHandles
<1>3. IsValid(io_bufs, m.buf_handle)
  BY <1>1, <1>2, HoldsBuffer
<1>4. reads[k].addr .. reads[k].addr + reads[k].len - 1 \subseteq Iovec(m.buf_handle.index)
  <2> DEFINE a == BufPtr(m.buf_handle.index)
             o == m.offset
  <2>1. a \in Int /\ o \in Nat /\ BufSize \in Nat
    BY <1>1 DEF BufPtr
  <2>2. reads[k].addr = a + o /\ reads[k].len = BufSize - o
    BY <1>1
  <2> HIDE DEF a, o
  <2>3. a + o .. (a + o) + (BufSize - o) - 1 \subseteq a .. a + BufSize - 1
    BY <2>1
  <2> QED
    BY <2>2, <2>3 DEF Iovec, a
<1>5. Owns(h, {"Recv"})
  <2> DEFINE t == Task("read", h, reads[k])
  <2>1. t \in Tasks /\ t.user = h
    <3>1. reads[k] \in ToSet(reads)
      BY EntriesOf DEF Before, TypeOK
    <3> QED
      BY <1>1, <3>1, TasksThere DEF Task
  <2> HIDE DEF t
  <2> QED
    BY <1>1, <2>1, UserOwns
<1> QED
  BY <1>1, <1>3, <1>4, <1>5 DEF InOwnBuffer

LEMMA CoreReaches ==
  ASSUME Before
  PROVE  RequestsReachOwnPeer
<1>1. \A k \in DOMAIN sq : sq[k] \in ToSet(sq)
  BY EntriesOf DEF Before, TypeOK
<1> QED
  BY <1>1, RecvReachesPeer, CloseReachesPeer, ReadReachesPeer, Zenon DEF RequestsReachOwnPeer

LEMMA CoreReceives ==
  ASSUME Before
  PROVE  ReceivedIsStream
<1> SUFFICES ASSUME NEW i \in Receiving
             PROVE  LET h == conn_data[i]
                    IN  /\ Stored(h, h.offset)
                        /\ h.phase = "ReceivingBody" =>
                             \A k \in 0 .. HdrSize - 1 : h.header[k] = <<h.peer, k>>
  BY Zenon DEF ReceivedIsStream, Stored
<1>1. i \in 0 .. NHandlers - 1 /\ Live(i) /\ conn_data[i].state = "Recv" /\ Sound(i)
  BY DEF Receiving, Before, Core, MachinesSound
<1> QED
  BY <1>1, Zenon DEF Sound

-----------------------------------------------------------------------------
(* The inductive invariant.  What it says of a running process is lost     *)
(* when the process panics, but what it promises is not: nothing moves.    *)
PeersInv ==
  /\ TypeOK /\ BuffersInv /\ NothingLost /\ ResultsCalm /\ ExactlyOne /\ QueueDrained
  /\ panic = "no" => Core
  /\ RequestsReachOwnPeer /\ ReceivedIsStream

LEMMA InitPeers == Init => PeersInv
<1> SUFFICES ASSUME Init PROVE PeersInv
  OBVIOUS
<1>1. TypeOK /\ BuffersInv /\ ResultsCalm /\ ExactlyOne /\ QueueDrained /\ Core
  BY InitTypeOK, InitBuffers, InitExactlyOne, InitSlotsHeld, InitCore
<1>2. NothingLost /\ panic = "no"
  BY DEF Init, NothingLost, ClosedTerminates, Live
<1>3. Before
  BY <1>1, <1>2 DEF Before
<1> QED
  BY <1>1, <1>2, <1>3, CoreReaches, CoreReceives DEF PeersInv

LEMMA PanicKeepsPromises ==
  ASSUME UNCHANGED Watched, RequestsReachOwnPeer, ReceivedIsStream
  PROVE  RequestsReachOwnPeer' /\ ReceivedIsStream'
<1>1. UNCHANGED <<sq, cq, reads, files, conn_alloc, conn_data, io_bufs, mem>>
  BY DEF Watched
<1>2. RequestsReachOwnPeer'
  BY <1>1 DEF RequestsReachOwnPeer, Owns, InOwnBuffer
<1>3. ReceivedIsStream'
  BY <1>1 DEF ReceivedIsStream, Receiving, Live
<1> QED
  BY <1>2, <1>3

LEMMA BeforeReaches == Before => RequestsReachOwnPeer /\ ReceivedIsStream
BY CoreReaches, CoreReceives

LEMMA NextPeers ==
  ASSUME CalmErrnos, OverflowChecks
  PROVE  PeersInv /\ [Next]_vars => PeersInv'
<1> SUFFICES ASSUME PeersInv, [Next]_vars PROVE PeersInv'
  OBVIOUS
<1>1. TypeOK' /\ BuffersInv' /\ NothingLost' /\ ResultsCalm' /\ ExactlyOne' /\ QueueDrained'
  BY NextTypeOK, NextBuffers, NextNothingLost, NextCalm, NextExactlyOne, NextDrained DEF PeersInv
<1>2. CASE panic' # "no"
  <2>1. RequestsReachOwnPeer' /\ ReceivedIsStream'
    BY <1>2, CrashKeeps, PanicKeepsPromises DEF PeersInv
  <2> QED
    BY <1>1, <1>2, <2>1 DEF PeersInv
<1>3. CASE panic' = "no"
  <2>1. Before /\ After
    BY <1>1, <1>3, StaysRunning DEF PeersInv, Before, After
  <2>2. Core'
    BY <2>1, NextCore
  <2>3. Before'
    BY <1>1, <1>3, <2>2 DEF Before
  <2>4. (Before => RequestsReachOwnPeer /\ ReceivedIsStream)'
    BY BeforeReaches, PTL
  <2> QED
    BY <1>1, <2>2, <2>3, <2>4 DEF PeersInv
<1> QED
  BY <1>2, <1>3

(* A close never hits a slot that has been given to another client, and    *)
(* the kernel never reads into a buffer that has been given back, nor      *)
(* beyond its end into the next: whatever is submitted, and whatever the   *)
(* kernel has pending, acts for a live machine in the matching state, on   *)
(* that machine's own connection and buffer (executor/mod.rs:153-182,      *)
(* conn_handler.rs:57-174).  For any number of clients and any order of    *)
(* completions, as long as reads fail with none of the errors that are     *)
(* answered with two intents, and generations do not wrap.                 *)
THEOREM ExecRequestsReachOwnPeer ==
  ASSUME CalmErrnos, OverflowChecks
  PROVE  Spec => []RequestsReachOwnPeer
<1>1. Init => PeersInv
  BY InitPeers
<1>2. PeersInv /\ [Next]_vars => PeersInv'
  BY NextPeers
<1>3. PeersInv => RequestsReachOwnPeer
  BY DEF PeersInv
<1> QED
  BY <1>1, <1>2, <1>3, PTL DEF Spec

(* What a receiving machine has in its buffer is the start of its own      *)
(* client's stream, nothing lost, repeated or of another client, and the   *)
(* header it parsed from it is that stream's (conn_handler.rs:80-97),      *)
(* however the stream was cut into reads and whoever held the buffer       *)
(* before.  Under the same two assumptions.                                *)
THEOREM ExecReceivedIsStream ==
  ASSUME CalmErrnos, OverflowChecks
  PROVE  Spec => []ReceivedIsStream
<1>1. Init => PeersInv
  BY InitPeers
<1>2. PeersInv /\ [Next]_vars => PeersInv'
  BY NextPeers
<1>3. PeersInv => ReceivedIsStream
  BY DEF PeersInv
<1> QED
  BY <1>1, <1>2, <1>3, PTL DEF Spec

-----------------------------------------------------------------------------
(* Who is served: a client's phase in TheServer, and what is received of   *)
(* its stream, are those of the one machine it has, if any.                *)
ServedExact ==
  \A i \in 0 .. NHandlers - 1 : Live(i) =>
    /\ \A st : Served(conn_data[i].peer, st) <=> conn_data[i].state = st
    /\ conn_data[i].state = "Recv" => ReceivedOf(conn_data[i].peer) = conn_data[i].offset
    /\ conn_data[i].state # "Recv" => ReceivedOf(conn_data[i].peer) = sent[conn_data[i].peer]

LEMMA MachineServes == PeersDistinct => ServedExact
<1> SUFFICES ASSUME PeersDistinct, NEW i \in 0 .. NHandlers - 1, Live(i), NEW c, c = conn_data[i].peer
             PROVE  /\ \A st : Served(c, st) <=> conn_data[i].state = st
                    /\ conn_data[i].state = "Recv" => ReceivedOf(c) = conn_data[i].offset
                    /\ conn_data[i].state # "Recv" => ReceivedOf(c) = sent[c]
  BY DEF ServedExact
<1>1. \A j \in 0 .. NHandlers - 1 : \A st : Serves(j, c, st) <=> j = i /\ conn_data[i].state = st
  BY DEF PeersDistinct, Serves
<1>2. \A st : Served(c, st) <=> conn_data[i].state = st
  BY <1>1 DEF Served
<1>3. CASE conn_data[i].state = "Recv"
  <2>1. Served(c, "Recv") /\ (CHOOSE j \in 0 .. NHandlers - 1 : Serves(j, c, "Recv")) = i
    BY <1>1, <1>2, <1>3
  <2> QED
    BY <1>2, <1>3, <2>1 DEF ReceivedOf
<1>4. CASE conn_data[i].state # "Recv"
  <2>1. ~Served(c, "Recv")
    BY <1>2, <1>4
  <2> QED
    BY <1>2, <1>4, <2>1 DEF ReceivedOf
<1> QED
  BY <1>3, <1>4

(* Nobody serves a client without a machine.                               *)
LEMMA NobodyServes ==
  \A c : Unserved(c) => (\A st : ~Served(c, st)) /\ ReceivedOf(c) = sent[c]
BY DEF Unserved, Served, Serves, ReceivedOf

HasSlot(c) == \E s \in Slots : files[s] = c

(* A step that keeps client c as it is.                                    *)
ServiceKept(c) ==
  \A j \in 0 .. NHandlers - 1 :
    /\ \A st \in {"Recv", "Closing"} : Serves(j, c, st)' <=> Serves(j, c, st)
    /\ Serves(j, c, "Recv") => conn_data'[j].offset = conn_data[j].offset

Alike(c) ==
  /\ c \in waiting' <=> c \in waiting
  /\ c \in fin' <=> c \in fin
  /\ HasSlot(c)' <=> HasSlot(c)
  /\ sent'[c] = sent[c]
  /\ ServiceKept(c)

(* The places of a client in TheServer.                                    *)
LEMMA AlikePhase ==
  ASSUME NEW c, Alike(c)
  PROVE  PhaseOf(c)' = PhaseOf(c)
<1>1. \A st \in {"Recv", "Closing"} : Served(c, st)' <=> Served(c, st)
  BY Zenon DEF Alike, ServiceKept, Served
<1>2. /\ Served(c, "Recv")' <=> Served(c, "Recv")
      /\ Served(c, "Closing")' <=> Served(c, "Closing")
  BY <1>1
<1>3. (\A s \in Slots : files'[s] # c) <=> (\A s \in Slots : files[s] # c)
  BY DEF Alike, HasSlot
<1> QED
  BY <1>2, <1>3 DEF PhaseOf, Alike

LEMMA AlikeReceived ==
  ASSUME PeersDistinct, PeersDistinct', NEW c, Alike(c)
  PROVE  ReceivedOf(c)' = ReceivedOf(c)
<1>1. ServedExact /\ ServedExact'
  <2>1. (PeersDistinct => ServedExact)'
    BY MachineServes, PTL
  <2> QED
    BY <2>1, MachineServes
<1>2. CASE \E j \in 0 .. NHandlers - 1 : Serves(j, c, "Recv")
  <2>1. PICK j \in 0 .. NHandlers - 1 : Serves(j, c, "Recv")
    BY <1>2
  <2>2. Serves(j, c, "Recv")' /\ conn_data'[j].offset = conn_data[j].offset
    BY <2>1 DEF Alike, ServiceKept
  <2>3. ReceivedOf(c) = conn_data[j].offset
    BY <1>1, <2>1 DEF ServedExact, Serves
  <2>4. Live(j)' /\ conn_data'[j].peer = c /\ conn_data'[j].state = "Recv"
    BY <2>2 DEF Serves
  <2>5. ReceivedOf(c)' = conn_data'[j].offset
    BY <1>1, <2>4 DEF ServedExact
  <2> QED
    BY <2>2, <2>3, <2>5
<1>3. CASE \A j \in 0 .. NHandlers - 1 : ~Serves(j, c, "Recv")
  <2>1. ~Served(c, "Recv") /\ ~Served(c, "Recv")'
    BY <1>3 DEF Alike, ServiceKept, Served
  <2>2. ReceivedOf(c) = sent[c] /\ ReceivedOf(c)' = sent'[c]
    BY <2>1 DEF ReceivedOf
  <2> QED
    BY <2>2 DEF Alike
<1> QED
  BY <1>2, <1>3

(* A step of TheServer that is of one client, or of none.                  *)
PhaseMap == [c \in Conns |-> PhaseOf(c)]
ReceivedMap == [c \in Conns |-> ReceivedOf(c)]

LEMMA StepMaps ==
  ASSUME TypeOK, TypeOK', PeersDistinct, PeersDistinct', NEW c \in Conns,
         \A d \in Conns \ {c} : Alike(d)
  PROVE  /\ PhaseMap' = [PhaseMap EXCEPT ![c] = PhaseOf(c)']
         /\ ReceivedMap' = [ReceivedMap EXCEPT ![c] = ReceivedOf(c)']
         /\ sent' = [sent EXCEPT ![c] = sent'[c]]
<1>1. \A d \in Conns \ {c} :
        PhaseOf(d)' = PhaseOf(d) /\ ReceivedOf(d)' = ReceivedOf(d) /\ sent'[d] = sent[d]
  <2> SUFFICES ASSUME NEW d \in Conns \ {c}
               PROVE  PhaseOf(d)' = PhaseOf(d) /\ ReceivedOf(d)' = ReceivedOf(d) /\ sent'[d] = sent[d]
    OBVIOUS
  <2>1. Alike(d)
    OBVIOUS
  <2> QED
    BY <2>1, AlikePhase, AlikeReceived DEF Alike
<1>2. sent \in [Conns -> 0 .. MaxStream] /\ sent' \in [Conns -> 0 .. MaxStream]
  BY DEF TypeOK
<1>3. PhaseMap' = [PhaseMap EXCEPT ![c] = PhaseOf(c)']
  BY <1>1 DEF PhaseMap
<1>4. ReceivedMap' = [ReceivedMap EXCEPT ![c] = ReceivedOf(c)']
  BY <1>1 DEF ReceivedMap
<1>5. sent' = [sent EXCEPT ![c] = sent'[c]]
  BY <1>1, <1>2
<1> QED
  BY <1>3, <1>4, <1>5

LEMMA NoStepMaps ==
  ASSUME TypeOK, TypeOK', PeersDistinct, PeersDistinct', \A d \in Conns : Alike(d)
  PROVE  PhaseMap' = PhaseMap /\ ReceivedMap' = ReceivedMap /\ sent' = sent
<1>1. \A d \in Conns :
        PhaseOf(d)' = PhaseOf(d) /\ ReceivedOf(d)' = ReceivedOf(d) /\ sent'[d] = sent[d]
  <2> SUFFICES ASSUME NEW d \in Conns
               PROVE  PhaseOf(d)' = PhaseOf(d) /\ ReceivedOf(d)' = ReceivedOf(d) /\ sent'[d] = sent[d]
    OBVIOUS
  <2>1. Alike(d)
    OBVIOUS
  <2> QED
    BY <2>1, AlikePhase, AlikeReceived DEF Alike
<1>2. sent \in [Conns -> 0 .. MaxStream] /\ sent' \in [Conns -> 0 .. MaxStream]
  BY DEF TypeOK
<1>3. sent' = sent
  BY <1>1, <1>2
<1> QED
  BY <1>1, <1>3 DEF PhaseMap, ReceivedMap

(* Steps of TheServer in these terms.                                      *)
LEMMA ServerSteps ==
  ASSUME TypeOK, NEW c \in Conns, PhaseMap' = [PhaseMap EXCEPT ![c] = PhaseOf(c)']
  PROVE  \A from, to : PhaseOf(c) = from /\ PhaseOf(c)' = to => TheServer!Moves(c, from, to)
BY DEF TheServer!Moves, PhaseMap

-----------------------------------------------------------------------------
(* Whether anybody is let in: the refusals on their way to the listener.   *)
Refusals == AcceptsOf({-ENFILE})

(* Accepts fail for no other reason.                                       *)
OtherFailures == AcceptsOf({n \in Int : n < 0 /\ n # -ENFILE})

LEMMA FailsBelow == -ENFILE \in Int /\ -ENFILE < 0
BY DEF ENFILE

LEMMA AcceptingExact ==
  TypeOK => (Accepting <=> tcp_listener # "Error" /\ OnWay(Refusals) = 0)
<1> SUFFICES ASSUME TypeOK
             PROVE  Accepting <=> tcp_listener # "Error" /\ OnWay(Refusals) = 0
  OBVIOUS
<1>1. /\ cq \in Seq(Cqes) /\ run_queues \in [{0, 1} -> Seq(RunQueueEvents)]
      /\ ThisQueue \in Seq(RunQueueEvents) /\ NextQueue \in Seq(RunQueueEvents)
      /\ Posted \in Seq(RunQueueEvents) /\ DOMAIN Posted = DOMAIN cq
      /\ current_run_queue \in {0, 1} /\ next_run_queue_idx \in {0, 1}
      /\ next_run_queue_idx # current_run_queue
  BY WayTypes DEF TypeOK
<1> DEFINE Refuses(e) == e.reason.kind = "IoCompleted" /\ Refusal(e.reason.res, e.handle)
<1>2. ASSUME NEW e \in RunQueueEvents
      PROVE  e \in Refusals <=> Refuses(e)
  BY DEF Refusals, AcceptsOf, TcpCompletions, Refusal
<1>3. ASSUME NEW s \in Seq(RunQueueEvents)
      PROVE  InSeq(s, Refuses) = Count(s, Refusals)
  <2>1. {k \in DOMAIN s : Refuses(s[k])} = Where(s, Refusals)
    BY <1>2 DEF Where
  <2> QED
    BY <2>1 DEF InSeq, Count
<1>4. InSeq(cq, LAMBDA e : Refusal(e.res, e.user)) = Count(Posted, Refusals)
  <2>1. \A k \in DOMAIN cq : cq[k] \in Cqes /\ Posted[k] = EventOf(cq[k])
    BY <1>1 DEF Posted
  <2>2. \A k \in DOMAIN cq : Posted[k] \in Refusals <=> Refusal(cq[k].res, cq[k].user)
    BY <2>1, AcceptsAreAccepts DEF Refusals, Refusal
  <2>3. {k \in DOMAIN cq : Refusal(cq[k].res, cq[k].user)} = Where(Posted, Refusals)
    BY <1>1, <2>2 DEF Where
  <2> QED
    BY <2>3 DEF InSeq, Count
<1>5. Accepting <=> /\ tcp_listener # "Error"
                    /\ Count(Posted, Refusals) = 0
                    /\ Count(ThisQueue, Refusals) = 0 /\ Count(NextQueue, Refusals) = 0
  <2>1. \A q \in {0, 1} :
          InSeq(run_queues[q],
                LAMBDA e : e.reason.kind = "IoCompleted" /\ Refusal(e.reason.res, e.handle))
            = Count(run_queues[q], Refusals)
    BY <1>1, <1>3
  <2>2. (\A q \in {0, 1} : Count(run_queues[q], Refusals) = 0)
          <=> Count(ThisQueue, Refusals) = 0 /\ Count(NextQueue, Refusals) = 0
    BY <1>1 DEF ThisQueue, NextQueue
  <2> QED
    BY <1>4, <2>1, <2>2 DEF Accepting
<1>6. /\ Count(ThisQueue, Refusals) \in Nat /\ Count(NextQueue, Refusals) \in Nat
      /\ Count(Posted, Refusals) \in Nat
  BY OnWayType DEF OnWayCounts
<1> QED
  BY <1>5, <1>6 DEF OnWay

(* While an accept is armed, anybody is let in.                            *)
LEMMA ArmedAccepts ==
  ASSUME TypeOK, panic = "no", FailuresEnd, ArmedOnce, accepts > 0
  PROVE  tcp_listener = "Accepting" /\ Accepting
<1>1. Nowhere(LastEvents) /\ tcp_listener = "Accepting"
  BY ArmedNowhere
<1>2. ASSUME NEW e \in RunQueueEvents, e \in Refusals, e \notin UnendedEvents
      PROVE  e \in LastEvents
  BY <1>2, FailsBelow DEF Refusals, AcceptsOf, TcpCompletions, UnendedEvents, LastEvents, Rearms,
     RunQueueEvents, Events
<1>3. /\ cq \in Seq(Cqes) /\ run_queues \in [{0, 1} -> Seq(RunQueueEvents)]
      /\ ThisQueue \in Seq(RunQueueEvents) /\ NextQueue \in Seq(RunQueueEvents)
      /\ Posted \in Seq(RunQueueEvents) /\ DOMAIN Posted = DOMAIN cq
      /\ current_run_queue \in {0, 1} /\ next_run_queue_idx \in {0, 1}
  BY WayTypes DEF TypeOK
<1>4. NoneIn(ThisQueue, UnendedEvents) /\ NoneIn(NextQueue, UnendedEvents)
  BY <1>3 DEF FailuresEnd, Neither, ThisQueue, NextQueue
<1>5. NoneIn(Posted, UnendedEvents)
  <2> SUFFICES ASSUME NEW k \in DOMAIN cq, Posted[k] \in UnendedEvents PROVE FALSE
    BY <1>3 DEF NoneIn
  <2>1. PICK r \in Cqes : r = cq[k]
    BY <1>3
  <2>2. Posted[k] = EventOf(r)
    BY <2>1 DEF Posted
  <2>3. r \in UnendedCqes
    BY <2>2, EventOfType DEF UnendedEvents, UnendedCqes
  <2> QED
    BY <2>1, <2>3 DEF FailuresEnd, Neither, NoneIn
<1>6. Count(ThisQueue, Refusals) = 0 /\ Count(NextQueue, Refusals) = 0 /\ Count(Posted, Refusals) = 0
  <2>1. ASSUME NEW s \in Seq(RunQueueEvents), NoneIn(s, UnendedEvents), NoneIn(s, LastEvents)
        PROVE  Count(s, Refusals) = 0
    <3>1. \A k \in DOMAIN s : s[k] \in RunQueueEvents
      OBVIOUS
    <3>2. \A k \in DOMAIN s : s[k] \notin Refusals
      BY <1>2, <2>1, <3>1 DEF NoneIn
    <3> QED
      BY <3>2, CountType
  <2> QED
    BY <1>1, <1>3, <1>4, <1>5, <2>1 DEF Nowhere
<1>7. OnWay(Refusals) = 0
  BY <1>6 DEF OnWay
<1> QED
  BY <1>1, <1>7, AcceptingExact

(* What the kernel posts for the listener.                                 *)
LEMMA AcceptPosted ==
  ASSUME TypeOK, KernelStep, NEW r \in Cqes, cq' = Append(cq, r), r.user = TcpHandle
  PROVE  \/ KernelAccepts /\ r.res \in Slots
         \/ KernelRefuses /\ r.res = -ENFILE
<1>1. \A x \in Cqes : cq' = Append(cq, x) => x = r
  BY AppendOnce, Zenon DEF TypeOK
<1>2. KernelAccepts \/ KernelRefuses
  BY KernelPosts, HandleKinds
<1>3. CASE KernelAccepts
  <2>1. PICK s \in Slots, more \in BOOLEAN : cq' = Append(cq, Cqe(TcpHandle, s, more))
    BY <1>3 DEF KernelAccepts, AcceptCompletes, Post
  <2>2. Cqe(TcpHandle, s, more) \in Cqes /\ Cqe(TcpHandle, s, more).res = s
    BY DEF Cqe, Cqes, Slots, AcceptResults
  <2> QED
    BY <1>1, <1>3, <2>1, <2>2
<1>4. CASE KernelRefuses
  <2>1. cq' = Append(cq, Cqe(TcpHandle, -ENFILE, FALSE))
    BY <1>4 DEF KernelRefuses, AcceptOverflows, Post
  <2>2. Cqe(TcpHandle, -ENFILE, FALSE) \in Cqes /\ Cqe(TcpHandle, -ENFILE, FALSE).res = -ENFILE
    BY DEF Cqe, Cqes, AcceptResults, ENFILE
  <2> QED
    BY <1>1, <1>4, <2>1, <2>2
<1> QED
  BY <1>2, <1>3, <1>4

(* Where failed accepts are on their way, a step of the kernel apart.      *)
LEMMA OnWayNumbers ==
  TypeOK => OnWay(Refusals) \in Nat /\ OnWay(OtherFailures) \in Nat
BY OnWayType DEF OnWayCounts

LEMMA OnWayNumbersNext ==
  ASSUME TypeOK'
  PROVE  OnWay(Refusals)' \in Nat /\ OnWay(OtherFailures)' \in Nat
<1>1. (TypeOK => OnWay(Refusals) \in Nat /\ OnWay(OtherFailures) \in Nat)'
  BY OnWayNumbers, PTL
<1> QED
  BY <1>1

LEMMA FailuresMove ==
  ASSUME TypeOK, TypeOK', QueueDrained, [Next]_vars, ~Pop
  PROVE  /\ OnWay(OtherFailures)' = OnWay(OtherFailures)
         /\ OnWay(Refusals)' = OnWay(Refusals) \/ KernelRefuses
<1>1. \A R : \A e \in AcceptsOf(R) : ~IsSpawn(e)
  BY AcceptsAreAccepts
<1>2. ASSUME NEW r \in Cqes, KernelStep, PostsEvent(r)
      PROVE  EventOf(r) \notin OtherFailures /\ (EventOf(r) \notin Refusals \/ KernelRefuses)
  <2>1. r.user = TcpHandle => \/ KernelAccepts /\ r.res \in Slots
                              \/ KernelRefuses /\ r.res = -ENFILE
    BY <1>2, AcceptPosted DEF PostsEvent
  <2>2. r.res \in Slots => r.res \in Nat
    BY DEF Slots
  <2>3. EventOf(r) \in OtherFailures => r.user = TcpHandle /\ r.res < 0 /\ r.res # -ENFILE
    BY AcceptsAreAccepts DEF OtherFailures
  <2>4. EventOf(r) \in Refusals => r.user = TcpHandle /\ r.res = -ENFILE
    BY AcceptsAreAccepts DEF Refusals
  <2> QED
    BY <2>1, <2>2, <2>3, <2>4, FailsBelow
<1>3. OnWay(OtherFailures)' = OnWay(OtherFailures)
  <2>1. \/ OnWay(OtherFailures)' = OnWay(OtherFailures)
        \/ KernelStep /\ \E r \in Cqes :
             PostsEvent(r) /\ OnWay(OtherFailures)'
               = OnWay(OtherFailures) + (IF EventOf(r) \in OtherFailures THEN 1 ELSE 0)
    <3>1. \A e \in OtherFailures : ~IsSpawn(e)
      BY <1>1 DEF OtherFailures
    <3> QED
      BY <3>1, NextOnWay
  <2> QED
    BY <1>2, <2>1, OnWayNumbers
<1>4. OnWay(Refusals)' = OnWay(Refusals) \/ KernelRefuses
  <2>1. \/ OnWay(Refusals)' = OnWay(Refusals)
        \/ KernelStep /\ \E r \in Cqes :
             PostsEvent(r) /\ OnWay(Refusals)'
               = OnWay(Refusals) + (IF EventOf(r) \in Refusals THEN 1 ELSE 0)
    <3>1. \A e \in Refusals : ~IsSpawn(e)
      BY <1>1 DEF Refusals
    <3> QED
      BY <3>1, NextOnWay
  <2> QED
    BY <1>2, <2>1, OnWayNumbers
<1> QED
  BY <1>3, <1>4

(* Accepts fail for no other reason: kept by every step.                   *)
LEMMA NextFailures ==
  ASSUME TypeOK, TypeOK', QueueDrained, [Next]_vars, OnWay(OtherFailures) = 0
  PROVE  OnWay(OtherFailures)' = 0
<1>1. CASE Pop
  BY <1>1, PopOnWay, OnWayNumbersNext
<1>2. CASE ~Pop
  BY <1>2, FailuresMove
<1> QED
  BY <1>1, <1>2

LEMMA InitFailures ==
  ASSUME Init, NEW R
  PROVE  OnWay(AcceptsOf(R)) = 0
<1>1. TypeOK /\ cq = << >> /\ ThisQueue = <<RunQueueEvent(Spawn, TcpHandle)>> /\ NextQueue = << >>
  BY InitTypeOK DEF Init, UringInit, ThisQueue, NextQueue, next_run_queue_idx
<1>2. RunQueueEvent(Spawn, TcpHandle) \notin AcceptsOf(R)
  BY DEF RunQueueEvent, Spawn, AcceptsOf, TcpCompletions
<1>3. /\ ThisQueue \in Seq(RunQueueEvents) /\ NextQueue \in Seq(RunQueueEvents)
      /\ Posted \in Seq(RunQueueEvents) /\ DOMAIN Posted = DOMAIN cq
  BY <1>1, WayTypes
<1>4. Count(ThisQueue, AcceptsOf(R)) = 0 /\ Count(NextQueue, AcceptsOf(R)) = 0
      /\ Count(Posted, AcceptsOf(R)) = 0
  <2>1. \A k \in DOMAIN ThisQueue : ThisQueue[k] \notin AcceptsOf(R)
    BY <1>1, <1>2
  <2>2. \A k \in DOMAIN NextQueue : FALSE
    BY <1>1
  <2>3. \A k \in DOMAIN Posted : FALSE
    BY <1>1, <1>3
  <2> QED
    BY <1>3, <2>1, <2>2, <2>3, CountType
<1> QED
  BY <1>4 DEF OnWay

-----------------------------------------------------------------------------
(* Whether anybody is let in, step by step.                                *)
LEMMA AcceptingType == Accepting \in BOOLEAN
BY DEF Accepting

LEMMA AcceptingTypeNext == Accepting' \in BOOLEAN
BY DEF Accepting

LEMMA AcceptingExactNext ==
  TypeOK' => (Accepting' <=> tcp_listener' # "Error" /\ OnWay(Refusals)' = 0)
<1>1. (TypeOK => (Accepting <=> tcp_listener # "Error" /\ OnWay(Refusals) = 0))'
  BY AcceptingExact, PTL
<1> QED
  BY <1>1

LEMMA OnlyListenerMoves ==
  ASSUME [Next]_vars, ~DispatchTcp
  PROVE  tcp_listener' = tcp_listener
<1>1. CASE UNCHANGED vars
  BY <1>1 DEF vars, machineVars
<1>2. CASE DispatchConn \/ DispatchMissing
  BY <1>2 DEF DispatchConn, DispatchMissing
<1>3. CASE \/ CompleteRetry \/ CompleteAccept \/ CompleteSpawn \/ CompleteRecv
           \/ CompleteClose \/ CompleteTerminate
  <2>1. \A site : Crash(site) => tcp_listener' = tcp_listener
    BY DEF Crash, machineVars
  <2>2. IntentDone => tcp_listener' = tcp_listener
    BY DEF IntentDone
  <2>3. \A r : EnqueueFor(r) => tcp_listener' = tcp_listener
    BY <2>1, <2>2, Zenon DEF EnqueueFor
  <2> QED
    BY <1>3, <2>1, <2>2, <2>3, Zenon DEF CompleteRetry, CompleteAccept, CompleteSpawn,
       CompleteRecv, CompleteClose, CompleteTerminate
<1>4. CASE EnterError \/ Reap
  BY <1>4 DEF EnterError, Reap, Crash, machineVars
<1>5. CASE \/ DrainDone \/ IntentsDone \/ SubmitShortcut \/ SubmitEnter \/ EnterReturns \/ ReapDone
           \/ KernelStep
  BY <1>5 DEF DrainDone, IntentsDone, SubmitShortcut, SubmitEnter, EnterReturns, ReapDone,
     machineVars, KernelStep, EnterIssues, KernelAccepts, KernelRefuses, KernelReads,
     KernelFails, KernelEnds, ProgramUnchanged
<1> QED
  BY <1>1, <1>2, <1>3, <1>4, <1>5, Zenon DEF Next, Thread, KernelStep

(* Only the dispatch of an event takes the loop from draining to intents.  *)
LEMMA PopsOnly ==
  ASSUME [Next]_vars, Pop
  PROVE  DispatchTcp \/ DispatchConn \/ DispatchMissing
<1>1. panic = "no" /\ pc = "drain" /\ pc' = "intents"
  BY DEF Pop, Running
<1>2. ~UNCHANGED vars
  BY <1>1 DEF vars, loopVars
<1>3. ~ \/ CompleteRetry \/ CompleteAccept \/ CompleteSpawn \/ CompleteRecv
        \/ CompleteClose \/ CompleteTerminate
  BY <1>1 DEF CompleteRetry, CompleteAccept, CompleteSpawn, CompleteRecv,
     CompleteClose, CompleteTerminate, AtIntent
<1>4. ~ \/ DrainDone \/ IntentsDone \/ SubmitShortcut \/ SubmitEnter \/ EnterReturns \/ ReapDone
        \/ EnterError \/ Reap \/ KernelStep
  BY <1>1 DEF DrainDone, IntentsDone, SubmitShortcut, SubmitEnter, EnterReturns, ReapDone,
     EnterError, Reap, At, loopVars, KernelStep, EnterIssues, KernelAccepts, KernelRefuses,
     KernelReads, KernelFails, KernelEnds, ProgramUnchanged
<1> QED
  BY <1>2, <1>3, <1>4, Zenon DEF Next, Thread, KernelStep

(* What is known of the listener and its accepts.                          *)
ListenerInv ==
  /\ TypeOK /\ QueueDrained /\ FailuresEnd /\ ArmedOnce /\ EventsInv
  /\ OnWay(OtherFailures) = 0
  /\ panic = "no" => ListenerOrder

LEMMA NowhereRefused ==
  ASSUME TypeOK, Nowhere(TcpCompletions)
  PROVE  OnWay(Refusals) = 0
<1>1. /\ ThisQueue \in Seq(RunQueueEvents) /\ NextQueue \in Seq(RunQueueEvents)
      /\ Posted \in Seq(RunQueueEvents)
  BY WayTypes
<1>2. Refusals \subseteq TcpCompletions
  BY DEF Refusals, AcceptsOf
<1>3. ASSUME NEW s \in Seq(RunQueueEvents), NoneIn(s, TcpCompletions)
      PROVE  Count(s, Refusals) = 0
  <2>1. \A k \in DOMAIN s : s[k] \notin Refusals
    BY <1>2, <1>3 DEF NoneIn
  <2> QED
    BY <2>1, CountType
<1> QED
  BY <1>1, <1>3 DEF Nowhere, OnWay

(* The listener, and the accept that it meets.                             *)
LEMMA ListenerMoves ==
  ASSUME ListenerInv, panic = "no", TypeOK', panic' # "unreachable", DispatchTcp
  PROVE  \/ tcp_listener = "Init" /\ Accepting
         \/ Accepting' = Accepting
<1> DEFINE e == NextEvent
<1>1. Pop /\ TcpProcessEvent(e.reason) /\ e.handle.pool = TCP_SERVER
  BY DEF DispatchTcp
<1>2. e \in RunQueueEvents /\ e.handle = TcpHandle /\ e.reason.res \in Int
      /\ e.reason.kind \in {"Spawn", "IoCompleted"}
  <2>1. e \in RunQueueEvents
    BY <1>1, PopEventType DEF ListenerInv
  <2> QED
    BY <1>1, <2>1, HandleKinds DEF RunQueueEvents, Events, AcceptResults, ConnHandles, TCP_SERVER,
       CONN_HANDLER
<1>3. tcp_listener \in {"Init", "Accepting", "Error"}
  BY DEF ListenerInv, TypeOK, TcpServerStates
<1>4. \A S : OnWay(S) = OnWay(S)' + (IF e \in S THEN 1 ELSE 0)
  BY <1>1, PopOnWay DEF ListenerInv
<1>5. CASE tcp_listener = "Init"
  <2>1. Nowhere(TcpCompletions)
    BY <1>5 DEF ListenerInv, ListenerOrder
  <2> QED
    BY <1>5, <2>1, NowhereRefused, AcceptingExact DEF ListenerInv
<1>6. CASE tcp_listener = "Error"
  <2>1. tcp_listener' = "Error"
    BY <1>1, <1>6 DEF TcpProcessEvent, TcpExpects, OnTcpUnexpected
  <2> QED
    BY <1>6, <2>1, AcceptingExact, AcceptingExactNext, AcceptingType, AcceptingTypeNext DEF ListenerInv
<1>7. CASE tcp_listener = "Accepting"
  <2>1. e.reason.kind = "IoCompleted"
    <3>1. ~(e.reason.kind = "Spawn")
      BY <1>1, <1>7 DEF TcpProcessEvent, TcpExpects, OnTcpUnexpected
    <3> QED
      BY <1>2, <3>1
  <2>2. OnAccepted(e.reason.res, e.reason.more) \/ OnAcceptErr(e.reason.res)
    BY <1>1, <1>7, <2>1 DEF TcpProcessEvent, TcpExpects, OnListen
  <2>3. OnWay(Refusals) \in Nat /\ OnWay(Refusals)' \in Nat /\ OnWay(OtherFailures)' \in Nat
    BY OnWayNumbers, OnWayNumbersNext DEF ListenerInv
  <2>4. CASE OnAccepted(e.reason.res, e.reason.more)
    <3>1. e.reason.res >= 0 /\ tcp_listener' = tcp_listener
      BY <2>4 DEF OnAccepted
    <3>2. e \notin Refusals
      BY <1>2, <3>1, FailsBelow DEF Refusals, AcceptsOf
    <3>3. OnWay(Refusals)' = OnWay(Refusals)
      BY <1>4, <2>3, <3>2
    <3> QED
      BY <3>1, <3>3, AcceptingExact, AcceptingExactNext, AcceptingType, AcceptingTypeNext DEF ListenerInv
  <2>5. CASE OnAcceptErr(e.reason.res)
    <3>1. e.reason.res < 0 /\ tcp_listener' = "Error"
      BY <2>5 DEF OnAcceptErr
    <3>2. e \in Refusals \/ e \in OtherFailures
      <4>1. e \in TcpCompletions
        BY <1>2, <2>1 DEF TcpCompletions
      <4>2. e.reason.res = -ENFILE \/ e.reason.res \in {n \in Int : n < 0 /\ n # -ENFILE}
        BY <1>2, <3>1
      <4> QED
        BY <4>1, <4>2 DEF Refusals, OtherFailures, AcceptsOf
    <3>3. e \notin OtherFailures
      BY <1>4, <2>3 DEF ListenerInv
    <3>4. OnWay(Refusals) # 0
      BY <1>4, <2>3, <3>2, <3>3
    <3> QED
      BY <3>1, <3>4, AcceptingExact, AcceptingExactNext, AcceptingType, AcceptingTypeNext DEF ListenerInv
  <2> QED
    BY <2>2, <2>4, <2>5
<1> QED
  BY <1>3, <1>5, <1>6, <1>7

LEMMA AcceptingMoves ==
  ASSUME ListenerInv, panic = "no", TypeOK', panic' # "unreachable", [Next]_vars, ~KernelRefuses
  PROVE  \/ DispatchTcp /\ tcp_listener = "Init" /\ Accepting
         \/ Accepting' = Accepting
<1>1. CASE DispatchTcp
  BY <1>1, ListenerMoves
<1>2. CASE ~DispatchTcp
  <2>1. tcp_listener' = tcp_listener
    BY <1>2, OnlyListenerMoves
  <2>2. OnWay(Refusals)' = OnWay(Refusals)
    <3>1. CASE ~Pop
      BY <3>1, FailuresMove DEF ListenerInv
    <3>2. CASE Pop
      <4>1. DispatchConn \/ DispatchMissing
        BY <1>2, <3>2, PopsOnly
      <4>2. NextEvent.handle # TcpHandle
        BY <4>1 DEF DispatchConn, DispatchMissing, TcpHandle, ObjectHandle, TCP_SERVER, CONN_HANDLER
      <4>3. NextEvent \notin Refusals
        BY <4>2, AcceptsAreAccepts DEF Refusals
      <4> QED
        BY <3>2, <4>3, PopOnWay, OnWayNumbersNext DEF ListenerInv
    <3> QED
      BY <3>1, <3>2
  <2> QED
    BY <2>1, <2>2, AcceptingExact, AcceptingExactNext, AcceptingType, AcceptingTypeNext DEF ListenerInv
<1> QED
  BY <1>1, <1>2

(* The refusal is the last answer to any client.                           *)
LEMMA RefusalEnds ==
  ASSUME ListenerInv, TypeOK', KernelRefuses
  PROVE  Accepting /\ ~Accepting'
<1>1. accepts > 0 /\ panic = "no" /\ cq' = Append(cq, Cqe(TcpHandle, -ENFILE, FALSE))
      /\ UNCHANGED <<run_queues, current_run_queue>>
  BY DEF KernelRefuses, AcceptOverflows, Post, Running, ProgramUnchanged, loopVars
<1>2. Accepting
  BY <1>1, ArmedAccepts DEF ListenerInv
<1>3. PICK r \in Cqes : r = Cqe(TcpHandle, -ENFILE, FALSE) /\ r.user = TcpHandle /\ r.res = -ENFILE
  <2>1. Cqe(TcpHandle, -ENFILE, FALSE) \in Cqes /\ Cqe(TcpHandle, -ENFILE, FALSE).res = -ENFILE
        /\ Cqe(TcpHandle, -ENFILE, FALSE).user = TcpHandle
    BY DEF Cqe, Cqes, AcceptResults, ENFILE
  <2> QED
    BY <2>1
<1>4. Posted' = Append(Posted, EventOf(r)) /\ Posted \in Seq(RunQueueEvents) /\ EventOf(r) \in RunQueueEvents
  BY <1>1, <1>3, PostedAppend, WayTypes, EventOfType DEF ListenerInv
<1>5. EventOf(r) \in Refusals
  BY <1>3, AcceptsAreAccepts DEF Refusals
<1>6. Count(Posted', Refusals) = Count(Posted, Refusals) + 1 /\ Count(Posted, Refusals) \in Nat
  BY <1>4, <1>5, CountAppend, CountType
<1>7. OnWay(Refusals)' # 0
  <2>1. (TypeOK => OnWayCounts)'
    BY OnWayType, PTL
  <2>2. Count(ThisQueue, Refusals)' \in Nat /\ Count(NextQueue, Refusals)' \in Nat
    BY <2>1 DEF OnWayCounts
  <2>3. Refusals' = Refusals
    BY DEF Refusals, AcceptsOf, TcpCompletions
  <2> QED
    BY <1>6, <2>2, <2>3 DEF OnWay
<1> QED
  BY <1>2, <1>7, AcceptingExactNext

-----------------------------------------------------------------------------
(* The listener's part of the invariant.                                   *)
LEMMA InitListener == Init => ListenerInv
<1> SUFFICES ASSUME Init PROVE ListenerInv
  OBVIOUS
<1>1. TypeOK /\ EventsInv
  BY InitTypeOK, InitFit
<1>2. FailuresEnd /\ ArmedOnce
  BY InitArmed
<1>3. QueueDrained /\ ListenerOrder
  BY InitSlotsHeld
<1>4. OnWay(OtherFailures) = 0
  BY InitFailures DEF OtherFailures
<1> QED
  BY <1>1, <1>2, <1>3, <1>4 DEF ListenerInv

LEMMA NextListener ==
  ASSUME OverflowChecks, ListenerInv, [Next]_vars
  PROVE  ListenerInv'
<1>1. TypeOK' /\ EventsInv'
  BY NextTypeOK, FirstStep, ReadyFit, StutterFit DEF Ready, ListenerInv
<1>2. FailuresEnd' /\ ArmedOnce'
  BY <1>1, NextArmed DEF ListenerInv
<1>3. QueueDrained'
  BY NextDrained DEF ListenerInv
<1>4. OnWay(OtherFailures)' = 0
  BY <1>1, NextFailures DEF ListenerInv
<1>5. ASSUME panic' = "no" PROVE ListenerOrder'
  <2>1. panic = "no"
    BY <1>5, StaysRunning
  <2> QED
    BY <2>1, NextListenerOrder DEF ListenerInv
<1> QED
  BY <1>1, <1>2, <1>3, <1>4, <1>5 DEF ListenerInv

(* Only accepts take clients from the waiting.                             *)
LEMMA WaitersStay ==
  ASSUME [Next]_vars, ~KernelAccepts, ~KernelRefuses
  PROVE  waiting' = waiting
<1>1. CASE UNCHANGED vars
  BY <1>1 DEF vars, kernelVars
<1>2. CASE DispatchTcp \/ DispatchConn \/ DispatchMissing
  BY <1>2 DEF DispatchTcp, DispatchConn, DispatchMissing, Pop, kernelVars
<1>3. CASE \/ CompleteRetry \/ CompleteAccept \/ CompleteSpawn \/ CompleteRecv
           \/ CompleteClose \/ CompleteTerminate
  <2>1. \A site : Crash(site) => waiting' = waiting
    BY DEF Crash, kernelVars
  <2>2. IntentDone => waiting' = waiting
    BY DEF IntentDone, kernelVars
  <2>3. \A r : EnqueueFor(r) => waiting' = waiting
    BY <2>1, <2>2, Zenon DEF EnqueueFor
  <2> QED
    BY <1>3, <2>1, <2>2, <2>3, Zenon DEF CompleteRetry, CompleteAccept, CompleteSpawn,
       CompleteRecv, CompleteClose, CompleteTerminate
<1>4. CASE EnterError \/ Reap
  BY <1>4 DEF EnterError, Reap, Crash, kernelVars
<1>5. CASE \/ DrainDone \/ IntentsDone \/ SubmitShortcut \/ SubmitEnter \/ EnterReturns \/ ReapDone
  BY <1>5 DEF DrainDone, IntentsDone, SubmitShortcut, SubmitEnter, EnterReturns, ReapDone, kernelVars
<1>6. CASE EnterIssues
  BY <1>6 DEF EnterIssues, Issue
<1>7. CASE KernelReads \/ KernelFails \/ \E c \in Conns : KernelEnds(c)
  BY <1>7 DEF KernelReads, KernelFails, KernelEnds, ReadCompletes, ReadFails, ReadEnds, Completes
<1> QED
  BY <1>1, <1>2, <1>3, <1>4, <1>5, <1>6, <1>7, Zenon DEF Next, Thread

(* Nobody has come before the listener has begun.                          *)
ListenerFirst == tcp_listener = "Init" => waiting = Conns

LEMMA NextListenerFirst ==
  ASSUME ListenerInv, ListenerFirst, [Next]_vars
  PROVE  ListenerFirst'
<1> SUFFICES ASSUME tcp_listener' = "Init" PROVE waiting' = waiting /\ tcp_listener = "Init"
  BY DEF ListenerFirst
<1>1. tcp_listener = "Init"
  <2>1. CASE DispatchTcp
    BY <2>1 DEF DispatchTcp, TcpProcessEvent, OnListen, OnAccepted, OnAcceptErr, OnTcpUnexpected
  <2>2. CASE ~DispatchTcp
    BY <2>2, OnlyListenerMoves
  <2> QED
    BY <2>1, <2>2
<1>2. accepts = 0
  BY <1>1 DEF ListenerInv, EventsInv, ListenerStartsOnce, Seeded
<1>3. ~KernelAccepts /\ ~KernelRefuses
  BY <1>2 DEF KernelAccepts, KernelRefuses, AcceptCompletes, AcceptOverflows
<1>4. waiting' = waiting
  BY <1>3, WaitersStay
<1> QED
  BY <1>1, <1>4

-----------------------------------------------------------------------------
(* A client whose close has been answered has left its slot.               *)
GoneSound ==
  \A e \in WayEvents :
    e.handle \in ConnHandles /\ ~IsSpawn(e) /\ conn_data[e.handle.index].state = "Closing" =>
      ~HasSlot(conn_data[e.handle.index].peer)

-----------------------------------------------------------------------------
(* The steps that move something a client's place depends on.              *)
Still == UNCHANGED <<conn_data, files, waiting, sent, fin>>

LEMMA WhatMoves ==
  ASSUME [Next]_vars, panic' = "no"
  PROVE  \/ Still
         \/ DispatchConn \/ CompleteSpawn \/ CompleteTerminate
         \/ KernelAccepts \/ KernelRefuses \/ KernelReads
         \/ \E c \in Conns : KernelEnds(c)
         \/ EnterIssues /\ IssueClose
<1>1. CASE UNCHANGED vars
  BY <1>1 DEF vars, kernelVars, machineVars, Still
<1>2. CASE DispatchTcp \/ DispatchMissing
  BY <1>2 DEF DispatchTcp, DispatchMissing, Pop, kernelVars, Still
<1>3. CASE CompleteRetry \/ CompleteAccept \/ CompleteRecv \/ CompleteClose
  <2>1. \A site : Crash(site) => Still
    BY DEF Crash, kernelVars, machineVars, Still
  <2>2. IntentDone /\ conn_data' = conn_data => Still
    BY DEF IntentDone, kernelVars, Still
  <2>3. \A r : EnqueueFor(r) => Still
    BY <2>1, <2>2, Zenon DEF EnqueueFor
  <2> QED
    BY <1>3, <2>1, <2>2, <2>3, Zenon DEF CompleteRetry, CompleteAccept, CompleteRecv, CompleteClose
<1>4. CASE EnterError \/ Reap
  BY <1>4 DEF EnterError, Reap, Crash, kernelVars, machineVars, Still
<1>5. CASE \/ DrainDone \/ IntentsDone \/ SubmitShortcut \/ SubmitEnter \/ EnterReturns \/ ReapDone
  BY <1>5 DEF DrainDone, IntentsDone, SubmitShortcut, SubmitEnter, EnterReturns, ReapDone, kernelVars,
     machineVars, Still
<1>6. CASE EnterIssues /\ ~IssueClose
  BY <1>6 DEF EnterIssues, Issue, IssueAccept, IssueRecv, machineVars, Still
<1>7. CASE KernelFails
  BY <1>7 DEF KernelFails, ReadFails, Completes, ProgramUnchanged, machineVars, Still
<1> QED
  BY <1>1, <1>2, <1>3, <1>4, <1>5, <1>6, <1>7, Zenon DEF Next, Thread

LEMMA CrashStill ==
  ASSUME [Next]_vars, panic' # "no"
  PROVE  Still
<1>1. conn_data' = conn_data /\ files' = files
  BY CrashKeeps DEF Watched
<1>2. CASE UNCHANGED vars
  BY <1>2 DEF vars, kernelVars, machineVars, Still
<1>3. CASE DispatchConn \/ DispatchTcp \/ DispatchMissing
  BY <1>1, <1>3 DEF DispatchConn, DispatchTcp, DispatchMissing, Pop, kernelVars, Still
<1>4. CASE \/ CompleteRetry \/ CompleteAccept \/ CompleteSpawn \/ CompleteRecv
           \/ CompleteClose \/ CompleteTerminate
  <2>1. \A site : Crash(site) => Still
    BY DEF Crash, kernelVars, machineVars, Still
  <2>2. IntentDone => Still
    BY <1>1 DEF IntentDone, kernelVars, Still
  <2>3. \A r : EnqueueFor(r) => Still
    BY <2>1, <2>2, Zenon DEF EnqueueFor
  <2> QED
    BY <1>4, <2>1, <2>2, <2>3, Zenon DEF CompleteRetry, CompleteAccept, CompleteSpawn,
       CompleteRecv, CompleteClose, CompleteTerminate
<1>5. CASE EnterError \/ Reap
  BY <1>5 DEF EnterError, Reap, Crash, contextVars, kernelVars, machineVars, Still
<1>6. CASE \/ DrainDone \/ IntentsDone \/ SubmitShortcut \/ SubmitEnter \/ EnterReturns \/ ReapDone
           \/ KernelStep
  <2>1. panic = "no" /\ panic' = panic
    BY <1>6 DEF DrainDone, IntentsDone, SubmitShortcut, SubmitEnter, EnterReturns, ReapDone,
       At, Running, contextVars, KernelStep, EnterIssues, KernelAccepts, KernelRefuses, KernelReads,
       KernelFails, KernelEnds, ProgramUnchanged
  <2> QED
    BY <2>1
<1> QED
  BY <1>2, <1>3, <1>4, <1>5, <1>6, Zenon DEF Next, Thread, KernelStep

-----------------------------------------------------------------------------
(* A close that the kernel takes.                                          *)
LEMMA ClosesSlot ==
  ASSUME Before, EnterIssues, IssueClose
  PROVE  \E h \in ConnHandles :
           LET m == conn_data[h.index]
           IN  /\ h.index \in 0 .. NHandlers - 1 /\ Live(h.index) /\ m.state = "Closing"
               /\ m.socket \in Slots /\ m.peer \in Conns /\ m.peer # None
               /\ m.peer \notin waiting /\ files[m.socket] = m.peer
               /\ files' = [files EXCEPT ![m.socket] = None]
               /\ cq' = Append(cq, Cqe(h, 0, FALSE)) /\ Cqe(h, 0, FALSE) \in Cqes
               /\ UNCHANGED <<conn_data, waiting, sent, fin>>
<1> DEFINE r == Head(sq)
<1>1. sq # << >> /\ UNCHANGED <<waiting, sent, fin, conn_data>>
  BY DEF EnterIssues, Issue, machineVars
<1>2. r \in ToSet(sq) /\ r \in Sqes /\ r.op = "close"
  <2>1. r \in ToSet(sq)
    BY <1>1, EntriesOf DEF Before, TypeOK
  <2> QED
    BY <1>1, <2>1 DEF Before, TypeOK, IssueClose
<1>3. PICK h \in ConnHandles : h = r.user
  BY <1>2 DEF Sqes, AcceptMulti
<1> DEFINE m == conn_data[h.index]
<1>4. /\ h.index \in 0 .. NHandlers - 1 /\ Live(h.index) /\ Sound(h.index)
      /\ r.fixed = m.socket /\ m.socket \in Slots
      /\ files[r.fixed] = m.peer /\ m.peer \in Conns /\ m.peer # None
      /\ m.state = "Closing"
  <2>1. CloseSuits(m, m.socket)
    BY <1>2, <1>3, RequestFinds
  <2> QED
    BY <1>2, <1>3, <2>1, SubmittedMachine, RequestFinds DEF CloseSuits
<1>5. m.peer \notin waiting
  BY <1>4, Zenon DEF Sound
<1>6. /\ files' = [files EXCEPT ![m.socket] = None]
      /\ cq' = Append(cq, Cqe(h, 0, FALSE))
  BY <1>3, <1>4 DEF IssueClose, Post
<1>7. Cqe(h, 0, FALSE) \in Cqes
  BY DEF Cqe, Cqes
<1> QED
  BY <1>1, <1>4, <1>5, <1>6, <1>7

LEMMA SlotLeft ==
  ASSUME Before, NEW s \in Slots, NEW c \in Conns, files[s] = c,
         files' = [files EXCEPT ![s] = None]
  PROVE  /\ ~HasSlot(c)'
         /\ \A d \in Conns : d # c => (HasSlot(d)' <=> HasSlot(d))
<1>1. \A t \in Slots : files'[t] = IF t = s THEN None ELSE files[t]
  BY DEF Before, TypeOK
<1>2. \A t \in Slots : files[t] = c => t = s
  BY NoneAssumption DEF Before, Core, World, FilesSound
<1>3. \A d : HasSlot(d)' <=> \E t \in Slots : files'[t] = d
  BY DEF HasSlot
<1>4. \A d \in Conns : d # None
  BY NoneAssumption
<1>5. ~HasSlot(c)'
  BY <1>1, <1>2, <1>3, <1>4
<1>6. ASSUME NEW d \in Conns, d # c
      PROVE  HasSlot(d)' <=> HasSlot(d)
  BY <1>1, <1>3, <1>4, <1>6 DEF HasSlot
<1> QED
  BY <1>5, <1>6

(* What a machine is told by the kernel.                                   *)
LEMMA MachinePosted ==
  ASSUME Before, KernelStep, NEW r \in Cqes, cq' = Append(cq, r), r.user \in ConnHandles
  PROVE  \/ EnterIssues /\ IssueClose
         \/ conn_data[r.user.index].state = "Recv"
<1>1. \A x \in Cqes : cq' = Append(cq, x) => x = r
  BY AppendOnce, Zenon DEF Before, TypeOK
<1>2. ~KernelAccepts /\ ~KernelRefuses
  BY KernelPosts, HandleKinds DEF Before
<1>3. cq' # cq
  BY AppendOnce, Zenon DEF Before, TypeOK
<1>4. CASE EnterIssues /\ ~IssueClose
  <2> DEFINE q == Head(sq)
  <2>1. sq # << >> /\ IssueRecv
    BY <1>3, <1>4 DEF EnterIssues, Issue, IssueAccept
  <2>2. q \in ToSet(sq) /\ q \in Sqes /\ q.op = "recv"
    <3>1. q \in ToSet(sq)
      BY <2>1, EntriesOf DEF Before, TypeOK
    <3> QED
      BY <2>1, <3>1 DEF Before, TypeOK, IssueRecv
  <2>3. q.user \in ConnHandles
    BY <2>2 DEF Sqes, AcceptMulti
  <2>4. q.fixed \in Slots /\ files[q.fixed] # None /\ q.addr .. q.addr + q.len - 1 \subseteq Iovec(q.buf)
    BY <2>2, <2>3, RequestFinds
  <2>5. cq' = cq
    BY <2>1, <2>4 DEF IssueRecv
  <2> QED
    BY <1>3, <2>5
<1>5. ASSUME NEW k \in DOMAIN reads, NEW res \in Int, Completes(k, res)
      PROVE  conn_data[r.user.index].state = "Recv"
  <2>1. PICK h \in ConnHandles : h = reads[k].user /\ conn_data[h.index].state = "Recv"
    BY PendingRead
  <2>2. cq' = Append(cq, Cqe(h, res, FALSE)) /\ Cqe(h, res, FALSE) \in Cqes
        /\ Cqe(h, res, FALSE).user = h
    BY <1>5, <2>1 DEF Completes, Post, Cqe, Cqes
  <2> QED
    BY <1>1, <2>1, <2>2
<1>6. CASE KernelReads
  <2>1. PICK k \in DOMAIN reads, n \in 1 .. BufSize : Completes(k, n)
    BY <1>6 DEF KernelReads, ReadCompletes
  <2>2. n \in Int
    OBVIOUS
  <2> QED
    BY <1>5, <2>1, <2>2
<1>7. CASE \E c \in Conns : KernelEnds(c)
  <2>1. PICK k \in DOMAIN reads : Completes(k, 0)
    BY <1>7 DEF KernelEnds, ReadEnds
  <2> QED
    BY <1>5, <2>1
<1>8. CASE KernelFails
  <2>1. PICK k \in DOMAIN reads, errno \in RecvErrnos : Completes(k, -errno)
    BY <1>8 DEF KernelFails, ReadFails
  <2>2. -errno \in Int
    BY DEF Errnos
  <2> QED
    BY <1>5, <2>1, <2>2
<1> QED
  BY <1>2, <1>4, <1>6, <1>7, <1>8 DEF KernelStep

-----------------------------------------------------------------------------
(* A client whose close has been answered keeps out of the file table.     *)
LEMMA EventMachines ==
  Before =>
    \A e \in WayEvents : e.handle \in ConnHandles =>
      /\ e.handle.index \in 0 .. NHandlers - 1 /\ Resolves(e.handle)
      /\ conn_data[e.handle.index] \in ConnHandlers /\ Sound(e.handle.index)
      /\ \A t \in Tasks : t.user = e.handle => t.at = "event" /\ t.what = e
<1> SUFFICES ASSUME Before, NEW e \in WayEvents, e.handle \in ConnHandles
             PROVE  /\ e.handle.index \in 0 .. NHandlers - 1 /\ Resolves(e.handle)
                    /\ conn_data[e.handle.index] \in ConnHandlers /\ Sound(e.handle.index)
                    /\ \A t \in Tasks : t.user = e.handle => t.at = "event" /\ t.what = e
  BY Zenon
<1>1. EventTask(e) \in Tasks /\ EventTask(e).user = e.handle /\ EventTask(e).at = "event"
      /\ EventTask(e).what = e
  BY TasksThere DEF EventTask, Task
<1> DEFINE x == EventTask(e)
<1>2. x \in Tasks /\ x.user = e.handle /\ x.at = "event" /\ x.what = e
  BY <1>1
<1> HIDE DEF x
<1>3. /\ x.user.index \in 0 .. NHandlers - 1 /\ Resolves(x.user)
      /\ conn_data[x.user.index] \in ConnHandlers /\ Sound(x.user.index)
  BY <1>2, TaskMachine DEF Before
<1>4. \A t \in Tasks : t.user = x.user => t = x
  BY <1>2, TasksAreUnique DEF OneTask, Before
<1> QED
  BY <1>2, <1>3, <1>4

LEMMA EventMachinesNext ==
  ASSUME Before'
  PROVE  \A e \in WayEvents' : e.handle \in ConnHandles =>
           /\ e.handle.index \in 0 .. NHandlers - 1 /\ Resolves(e.handle)'
           /\ conn_data'[e.handle.index] \in ConnHandlers
           /\ \A t \in Tasks' : t.user = e.handle => t.at = "event"
<1>1. (Before =>
         \A e \in WayEvents : e.handle \in ConnHandles =>
           /\ e.handle.index \in 0 .. NHandlers - 1 /\ Resolves(e.handle)
           /\ conn_data[e.handle.index] \in ConnHandlers /\ Sound(e.handle.index)
           /\ \A t \in Tasks : t.user = e.handle => t.at = "event" /\ t.what = e)'
  BY EventMachines, PTL
<1> QED
  BY <1>1, Zenon

(* No machine becomes one that closes but by an event of its own.          *)
LEMMA ClosingStays ==
  ASSUME Before, After, [Next]_vars, ~DispatchConn, NEW i \in 0 .. NHandlers - 1,
         conn_data'[i] # None, conn_data'[i].state = "Closing"
  PROVE  conn_data'[i] = conn_data[i]
<1>1. CASE CompleteSpawn
  <2>1. PICK j \in 0 .. NHandlers - 1, s \in Slots :
          conn_data' = [conn_data EXCEPT ![j] = NewConnHandler(s, files[s])]
    BY <1>1, SpawnStep DEF Before, After
  <2>2. NewConnHandler(s, files[s]).state = "Init"
    BY DEF NewConnHandler
  <2> QED
    BY <2>1, <2>2 DEF Before, TypeOK
<1>2. CASE CompleteTerminate
  BY <1>2, TerminateStep DEF Before, After, TypeOK
<1>3. CASE KernelAccepts \/ KernelRefuses \/ KernelReads \/ (\E c \in Conns : KernelEnds(c))
  BY <1>3 DEF KernelAccepts, KernelRefuses, KernelReads, KernelEnds, ProgramUnchanged, machineVars
<1>4. CASE EnterIssues /\ IssueClose
  BY <1>4 DEF EnterIssues, machineVars
<1>5. CASE Still
  BY <1>5 DEF Still
<1> QED
  BY <1>1, <1>2, <1>3, <1>4, <1>5, WhatMoves DEF After

(* Only an accept puts a client into a slot, and only one that waits.      *)
LEMMA SlotsFill ==
  ASSUME Before, After, [Next]_vars, NEW c \in Conns, HasSlot(c)'
  PROVE  HasSlot(c) \/ c \in waiting
<1>1. CASE KernelAccepts
  <2>1. PICK d \in waiting, s \in Slots : files' = [files EXCEPT ![s] = d]
    BY <1>1 DEF KernelAccepts, AcceptCompletes
  <2> QED
    BY <2>1 DEF HasSlot, Before, TypeOK
<1>2. CASE EnterIssues /\ IssueClose
  <2>1. PICK s \in Slots : files' = [files EXCEPT ![s] = None]
    BY <1>2, ClosesSlot
  <2> QED
    BY <2>1, NoneAssumption DEF HasSlot, Before, TypeOK
<1>3. CASE files' = files
  BY <1>3 DEF HasSlot
<1>4. DispatchConn \/ CompleteSpawn \/ CompleteTerminate => files' = files
  <2>1. CASE DispatchConn
    BY <2>1 DEF DispatchConn, Pop, kernelVars
  <2>2. CASE CompleteSpawn
    BY <2>2, SpawnStep DEF Before, After, IntentDone, kernelVars
  <2>3. CASE CompleteTerminate
    BY <2>3, TerminateStep DEF Before, After, IntentDone, kernelVars
  <2> QED
    BY <2>1, <2>2, <2>3
<1>5. KernelRefuses \/ KernelReads \/ (\E d \in Conns : KernelEnds(d)) => files' = files
  BY DEF KernelRefuses, AcceptOverflows, KernelReads, ReadCompletes, KernelEnds, ReadEnds, Completes
<1>6. Still => files' = files
  BY DEF Still
<1> QED
  BY <1>1, <1>2, <1>3, <1>4, <1>5, <1>6, WhatMoves DEF After

-----------------------------------------------------------------------------
(* What is new on the way to a machine that closes answers its close.      *)
LEMMA NewEvents ==
  ASSUME Before, After, [Next]_vars, NEW e \in WayEvents', e \notin WayEvents, ~IsSpawn(e),
         e.handle \in ConnHandles
  PROVE  KernelStep /\ \E r \in Cqes : cq' = Append(cq, r) /\ e.handle = r.user
<1>1. CASE PushesSpawn
  <2>1. /\ ThisQueue \in Seq(RunQueueEvents) /\ NextQueue \in Seq(RunQueueEvents)
    BY WayTypes DEF Before
  <2>2. /\ WayEvents = ToSet(ThisQueue) \cup ToSet(NextQueue) \cup ToSet(Posted)
        /\ WayEvents' = ToSet(ThisQueue') \cup ToSet(NextQueue') \cup ToSet(Posted')
    <3>1. (TypeOK => WayEvents = ToSet(ThisQueue) \cup ToSet(NextQueue) \cup ToSet(Posted))'
      BY ThisAndNext, PTL
    <3> QED
      BY <3>1, ThisAndNext DEF ToSet, Before, After
  <2>3. PICK d \in RunQueueEvents :
          /\ IsSpawn(d) /\ Posted' = Posted
          /\ \/ ThisQueue' = Append(ThisQueue, d) /\ NextQueue' = NextQueue
             \/ ThisQueue' = ThisQueue /\ NextQueue' = Append(NextQueue, d)
    BY <1>1 DEF PushesSpawn
  <2>4. /\ ToSet(Append(ThisQueue, d)) = ToSet(ThisQueue) \cup {d}
        /\ ToSet(Append(NextQueue, d)) = ToSet(NextQueue) \cup {d}
    BY <2>1, <2>3, EntriesOf
  <2>5. WayEvents' \subseteq WayEvents \cup {d}
    BY <2>2, <2>3, <2>4
  <2> QED
    BY <2>3, <2>5
<1>2. CASE KernelStep /\ \E r \in Cqes : PostsEvent(r) /\ WayEvents' \subseteq WayEvents \cup {EventOf(r)}
  <2>1. PICK r \in Cqes : PostsEvent(r) /\ WayEvents' \subseteq WayEvents \cup {EventOf(r)}
    BY <1>2
  <2>2. e = EventOf(r)
    BY <2>1
  <2>3. e.handle = r.user
    BY <2>2, EventOfType
  <2> QED
    BY <1>2, <2>1, <2>3 DEF PostsEvent
<1> QED
  BY <1>1, <1>2, NextEvents DEF Before, After

LEMMA TaskUsers == Before => \A t \in Tasks : t.user \in ConnHandles => Resolves(t.user)
BY TaskMachine DEF Before

LEMMA TaskUsersNext ==
  ASSUME Before'
  PROVE  \A t \in Tasks' : t.user \in ConnHandles => Resolves(t.user)'
<1>1. (Before => \A t \in Tasks : t.user \in ConnHandles => Resolves(t.user))'
  BY TaskUsers, PTL
<1> QED
  BY <1>1, Zenon

LEMMA NextGone ==
  ASSUME Before, After, Core', Before', [Next]_vars, GoneSound
  PROVE  GoneSound'
<1> SUFFICES ASSUME NEW e \in WayEvents', e.handle \in ConnHandles, ~IsSpawn(e),
                    NEW c, c = conn_data'[e.handle.index].peer,
                    conn_data'[e.handle.index].state = "Closing"
             PROVE  ~HasSlot(c)'
  BY Zenon DEF GoneSound, HasSlot, IsSpawn
<1> DEFINE i == e.handle.index
<1>1. /\ i \in 0 .. NHandlers - 1 /\ Resolves(e.handle)' /\ conn_data'[i] \in ConnHandlers
      /\ \A t \in Tasks' : t.user = e.handle => t.at = "event"
  BY EventMachinesNext
<1>2. conn_data'[i] # None
  BY <1>1, MachineAssumption
<1>3. CASE conn_data'[i] = conn_data[i] /\ e \in WayEvents
  <2>1. Sound(i) /\ ~HasSlot(c)
    BY <1>3, EventMachines, Zenon DEF GoneSound
  <2>2. c \in Conns /\ c \notin waiting
    BY <1>2, <1>3, <2>1, Zenon DEF Sound, Live
  <2> QED
    BY <2>1, <2>2, SlotsFill
<1>4. CASE DispatchConn
  <2>1. PICK f \in RunQueueEvents, u \in ConnHandles, h \in ConnHandlers, g \in ConnHandlers :
          /\ u.index \in 0 .. NHandlers - 1 /\ EventSuits(h, f)
          /\ conn_data' = [conn_data EXCEPT ![u.index] = g]
          /\ Answers(h, g, f.reason) /\ current' = u /\ WayEvents' \subseteq WayEvents
    BY <1>4, MachineAnswers
  <2>2. intents' # << >>
    <3>1. ~Ignores(h, g, f.reason)
      BY <2>1 DEF Ignores, EventSuits, Arrived
    <3>2. (\A x : <<x>> # << >>) /\ (\A x, y : <<x, y>> # << >>)
      OBVIOUS
    <3> QED
      BY <2>1, <3>1, <3>2, Zenon
         DEF Answers, GetsBuffer, TriesAgain, HasReceived, ReadsAgain, StartsClose, Finishes
  <2>3. e.handle # u
    <3>1. intents' \in Seq(IntentsOf(current'))
      BY DEF After, TypeOK
    <3>2. PICK x \in ToSet(intents') : TRUE
      BY <2>2, <3>1, EntriesOf
    <3>3. Task("intent", current', x) \in Tasks'
      BY TasksThereNext
    <3>4. Task("intent", current', x).user = u /\ Task("intent", current', x).at = "intent"
      BY <2>1 DEF Task
    <3> QED
      BY <1>1, <3>3, <3>4
  <2>4. i # u.index
    <3>1. Resolves(u)'
      <4>1. intents' \in Seq(IntentsOf(current'))
        BY DEF After, TypeOK
      <4>2. PICK x \in ToSet(intents') : TRUE
        BY <2>2, <4>1, EntriesOf
      <4>3. PICK w \in Tasks' : w = Task("intent", current', x)
        BY TasksThereNext
      <4>4. w.user = u
        BY <2>1, <4>3 DEF Task
      <4>5. \A y \in Tasks' : y.user \in ConnHandles => Resolves(y.user)'
        BY TaskUsersNext
      <4> QED
        BY <4>4, <4>5, Zenon DEF Resolves, Live
    <3>2. e.handle.generation # u.generation \/ i # u.index
      BY <2>3 DEF ConnHandles
    <3> QED
      BY <1>1, <3>1, <3>2 DEF Resolves
  <2>5. conn_data'[i] = conn_data[i] /\ e \in WayEvents
    BY <1>1, <2>1, <2>4 DEF Before, TypeOK
  <2> QED
    BY <1>3, <2>5
<1>5. CASE ~DispatchConn /\ e \notin WayEvents
  <2>1. KernelStep
    BY <1>5, NewEvents
  <2>2. PICK r \in Cqes : cq' = Append(cq, r) /\ e.handle = r.user
    BY <1>5, NewEvents
  <2>3. conn_data'[i] = conn_data[i]
    BY <1>1, <1>2, <1>5, ClosingStays
  <2>4. EnterIssues /\ IssueClose
    BY <2>1, <2>2, <2>3, MachinePosted
  <2>5. PICK h \in ConnHandles :
          /\ conn_data[h.index].socket \in Slots /\ conn_data[h.index].peer \in Conns
          /\ files[conn_data[h.index].socket] = conn_data[h.index].peer
          /\ files' = [files EXCEPT ![conn_data[h.index].socket] = None]
          /\ cq' = Append(cq, Cqe(h, 0, FALSE)) /\ Cqe(h, 0, FALSE) \in Cqes
    BY <2>4, ClosesSlot
  <2>6. r = Cqe(h, 0, FALSE)
    <3>1. cq \in Seq(Cqes) /\ cq' = Append(cq, r) /\ r \in Cqes
      BY <2>2 DEF Before, TypeOK
    <3>2. \A x \in Cqes : cq' = Append(cq, x) => x = r
      BY <3>1, AppendOnce, Zenon
    <3> QED
      BY <2>5, <3>2
  <2>7. e.handle = h
    BY <2>2, <2>6 DEF Cqe
  <2>8. PICK s \in Slots : s = conn_data[h.index].socket
    BY <2>5
  <2>9. PICK d \in Conns : d = conn_data[h.index].peer
    BY <2>5
  <2>10. ~HasSlot(d)'
    BY <2>5, <2>8, <2>9, SlotLeft
  <2> QED
    BY <2>3, <2>7, <2>9, <2>10
<1>6. CASE ~DispatchConn /\ e \in WayEvents
  BY <1>1, <1>2, <1>3, <1>6, ClosingStays
<1> QED
  BY <1>4, <1>5, <1>6

LEMMA InitGone == Init => GoneSound
<1> SUFFICES ASSUME Init, NEW e \in WayEvents PROVE e.handle \notin ConnHandles
  BY DEF GoneSound
<1>1. /\ run_queues[0] = <<RunQueueEvent(Spawn, TcpHandle)>> /\ run_queues[1] = << >> /\ cq = << >>
  BY DEF Init, UringInit
<1>2. ToSet(cq) = {} /\ ToSet(run_queues[1]) = {} /\ ToSet(run_queues[0]) = {RunQueueEvent(Spawn, TcpHandle)}
  BY <1>1 DEF ToSet
<1>3. e.handle = TcpHandle
  BY <1>2 DEF WayEvents, RunQueueEvent
<1> QED
  BY <1>3, HandleKinds

-----------------------------------------------------------------------------
(* A client with a machine, as the server's client.                        *)
MachineKnown ==
  \A i \in 0 .. NHandlers - 1 : \A c : Live(i) /\ conn_data[i].peer = c /\ c \notin waiting =>
    /\ ~HasSlot(c) => PhaseOf(c) = "gone"
    /\ HasSlot(c) /\ conn_data[i].state = "Recv" =>
         PhaseOf(c) = IF c \in fin THEN "ended" ELSE "receiving"
    /\ HasSlot(c) /\ conn_data[i].state = "Closing" => PhaseOf(c) = "closing"
    /\ HasSlot(c) /\ conn_data[i].state \in {"Init", "Closed"} => PhaseOf(c) = "connected"
    /\ conn_data[i].state = "Recv" => ReceivedOf(c) = conn_data[i].offset
    /\ conn_data[i].state # "Recv" => ReceivedOf(c) = sent[c]

LEMMA MachineIsKnown == PeersDistinct => MachineKnown
<1> SUFFICES ASSUME PeersDistinct, NEW i \in 0 .. NHandlers - 1, NEW c,
                    Live(i), conn_data[i].peer = c, c \notin waiting
             PROVE  /\ ~HasSlot(c) => PhaseOf(c) = "gone"
                    /\ HasSlot(c) /\ conn_data[i].state = "Recv" =>
                         PhaseOf(c) = IF c \in fin THEN "ended" ELSE "receiving"
                    /\ HasSlot(c) /\ conn_data[i].state = "Closing" => PhaseOf(c) = "closing"
                    /\ HasSlot(c) /\ conn_data[i].state \in {"Init", "Closed"} => PhaseOf(c) = "connected"
                    /\ conn_data[i].state = "Recv" => ReceivedOf(c) = conn_data[i].offset
                    /\ conn_data[i].state # "Recv" => ReceivedOf(c) = sent[c]
  BY Zenon DEF MachineKnown
<1>1. /\ \A st : Served(c, st) <=> conn_data[i].state = st
      /\ conn_data[i].state = "Recv" => ReceivedOf(c) = conn_data[i].offset
      /\ conn_data[i].state # "Recv" => ReceivedOf(c) = sent[c]
  BY MachineServes DEF ServedExact
<1>2. HasSlot(c) <=> ~ \A s \in Slots : files[s] # c
  BY DEF HasSlot
<1>3. (Served(c, "Recv") <=> conn_data[i].state = "Recv")
      /\ (Served(c, "Closing") <=> conn_data[i].state = "Closing")
  BY <1>1
<1> QED
  BY <1>1, <1>2, <1>3 DEF PhaseOf

LEMMA MachineIsKnownNext == PeersDistinct' => MachineKnown'
<1>1. (PeersDistinct => MachineKnown)'
  BY MachineIsKnown, PTL
<1> QED
  BY <1>1

(* A client with none.                                                     *)
LEMMA UnservedKnown ==
  \A c : Unserved(c) =>
    /\ PhaseOf(c) = IF c \in waiting THEN "waiting" ELSE IF HasSlot(c) THEN "connected" ELSE "gone"
    /\ ReceivedOf(c) = sent[c]
<1> SUFFICES ASSUME NEW c, Unserved(c)
             PROVE  /\ PhaseOf(c) = IF c \in waiting THEN "waiting" ELSE IF HasSlot(c) THEN "connected" ELSE "gone"
                    /\ ReceivedOf(c) = sent[c]
  OBVIOUS
<1>1. (\A st : ~Served(c, st)) /\ ReceivedOf(c) = sent[c]
  BY NobodyServes
<1>2. HasSlot(c) <=> ~ \A s \in Slots : files[s] # c
  BY DEF HasSlot
<1> QED
  BY <1>1, <1>2 DEF PhaseOf

LEMMA UnservedKnownNext ==
  \A c : Unserved(c)' =>
    /\ PhaseOf(c)' = IF c \in waiting' THEN "waiting" ELSE IF HasSlot(c)' THEN "connected" ELSE "gone"
    /\ ReceivedOf(c)' = sent'[c]
<1>1. (\A c : Unserved(c) =>
        /\ PhaseOf(c) = IF c \in waiting THEN "waiting" ELSE IF HasSlot(c) THEN "connected" ELSE "gone"
        /\ ReceivedOf(c) = sent[c])'
  BY UnservedKnown, PTL
<1> QED
  BY <1>1

-----------------------------------------------------------------------------
(* Steps of the server.                                                    *)
Worlds == TypeOK /\ TypeOK' /\ PeersDistinct /\ PeersDistinct'

LEMMA ServerRests ==
  ASSUME Worlds, \A d \in Conns : Alike(d), Accepting' = Accepting
  PROVE  UNCHANGED TheServer!vars
BY NoStepMaps DEF Worlds, TheServer!vars, PhaseMap, ReceivedMap

LEMMA ServerMoves ==
  ASSUME Worlds, NEW c \in Conns, \A d \in Conns \ {c} : Alike(d),
         NEW from, NEW to, PhaseOf(c) = from, PhaseOf(c)' = to
  PROVE  /\ TheServer!Moves(c, from, to)
         /\ sent'[c] = sent[c] => sent' = sent
         /\ ReceivedOf(c)' = ReceivedOf(c) => ReceivedMap' = ReceivedMap
         /\ from = to => PhaseMap' = PhaseMap
<1>1. /\ PhaseMap' = [PhaseMap EXCEPT ![c] = PhaseOf(c)']
      /\ ReceivedMap' = [ReceivedMap EXCEPT ![c] = ReceivedOf(c)']
      /\ sent' = [sent EXCEPT ![c] = sent'[c]]
  BY StepMaps DEF Worlds
<1>2. PhaseMap[c] = PhaseOf(c) /\ ReceivedMap[c] = ReceivedOf(c)
  BY DEF PhaseMap, ReceivedMap
<1>3. TheServer!Moves(c, from, to)
  BY <1>1, ServerSteps DEF Worlds
<1>4. sent'[c] = sent[c] => sent' = sent
  BY <1>1 DEF Worlds, TypeOK
<1>5. ReceivedOf(c)' = ReceivedOf(c) => ReceivedMap' = ReceivedMap
  BY <1>1, <1>2 DEF ReceivedMap
<1>6. from = to => PhaseMap' = PhaseMap
  BY <1>1, <1>2 DEF PhaseMap
<1> QED
  BY <1>3, <1>4, <1>5, <1>6

(* The clients that a machine's step is not about.                         *)
LEMMA OthersAlike ==
  ASSUME TypeOK, NEW i \in 0 .. NHandlers - 1, Live(i), NEW c, conn_data[i].peer = c,
         conn_data'[i] # None => conn_data'[i].peer = c,
         \A j \in (0 .. NHandlers - 1) \ {i} : conn_data'[j] = conn_data[j],
         waiting' = waiting,
         \A d \in Conns \ {c} :
           sent'[d] = sent[d] /\ (d \in fin' <=> d \in fin) /\ (HasSlot(d)' <=> HasSlot(d))
  PROVE  \A d \in Conns \ {c} : Alike(d)
<1> SUFFICES ASSUME NEW d \in Conns \ {c} PROVE Alike(d)
  OBVIOUS
<1>1. \A st : ~Serves(i, d, st) /\ ~Serves(i, d, st)'
  BY DEF Serves, Live
<1>2. ASSUME NEW j \in (0 .. NHandlers - 1) \ {i}
      PROVE  /\ \A st : Serves(j, d, st)' <=> Serves(j, d, st)
             /\ conn_data'[j] = conn_data[j]
  BY DEF Serves, Live
<1>3. ServiceKept(d)
  BY <1>1, <1>2 DEF ServiceKept
<1> QED
  BY <1>3 DEF Alike

-----------------------------------------------------------------------------
(* Places and buffers.                                                     *)
LEMMA PlaceLeft ==
  ASSUME NEW S, NEW n \in Nat, NEW b \in 0 .. n - 1, NEW f \in [S -> (0 .. n - 1) \ {b}],
         \A x, y \in S : f[x] = f[y] => x = y
  PROVE  Cardinality(S) < n
<1> DEFINE T == (0 .. n - 1) \ {b}
<1>1. IsFiniteSet(0 .. n - 1) /\ Cardinality(0 .. n - 1) = n
  BY FS_Interval
<1>2. IsFiniteSet(T) /\ Cardinality(T) = n - 1
  <2>1. /\ IsFiniteSet((0 .. n - 1) \ {b})
        /\ Cardinality((0 .. n - 1) \ {b})
             = IF b \in 0 .. n - 1 THEN Cardinality(0 .. n - 1) - 1 ELSE Cardinality(0 .. n - 1)
    BY <1>1, FS_RemoveElement, Zenon
  <2> QED
    BY <1>1, <2>1
<1>3. f \in Injection(S, T)
  BY DEF Injection, IsInjective
<1>4. IsFiniteSet(S) /\ Cardinality(S) <= Cardinality(T)
  BY <1>2, <1>3, FS_Injection
<1>5. Cardinality(S) \in Nat
  BY <1>4, FS_CardinalityType
<1> HIDE DEF T
<1> QED
  BY <1>2, <1>4, <1>5

LEMMA PlacesTaken ==
  ASSUME NEW S, NEW n \in Nat, NEW f \in [0 .. n - 1 -> S],
         \A x, y \in 0 .. n - 1 : f[x] = f[y] => x = y,
         \A c \in S : \E x \in 0 .. n - 1 : f[x] = c
  PROVE  Cardinality(S) = n
<1>1. IsFiniteSet(0 .. n - 1) /\ Cardinality(0 .. n - 1) = n
  BY FS_Interval
<1>2. f \in Injection(0 .. n - 1, S) /\ f \in Surjection(0 .. n - 1, S)
  BY DEF Injection, Surjection, IsInjective
<1>3. Cardinality(S) = Cardinality(0 .. n - 1)
  BY <1>1, <1>2, FS_Surjection
<1> QED
  BY <1>1, <1>3

(* Those whom the server holds a place for have a slot, and those whom it  *)
(* receives from have a machine with a buffer.                             *)
LEMMA PlacesAreSlots ==
  \A c : PhaseOf(c) \notin {"waiting", "gone"} <=> c \notin waiting /\ HasSlot(c)
BY DEF PhaseOf, HasSlot

Placed == {c \in Conns : c \notin waiting /\ HasSlot(c)}

LEMMA HeldPlaces == TheServer!InPhases(TheServer!Phases \ {"waiting", "gone"}) = Placed
<1>1. \A c \in Conns : PhaseOf(c) \in TheServer!Phases
  BY DEF PhaseOf, TheServer!Phases
<1> QED
  BY <1>1, PlacesAreSlots DEF TheServer!InPhases, Placed

LEMMA FreeSlot ==
  ASSUME FilesSound, NEW s \in Slots, files[s] = None
  PROVE  Cardinality(Placed) < NHandlers
<1> DEFINE f == [c \in Placed |-> CHOOSE t \in Slots : files[t] = c]
<1>1. ASSUME NEW c \in Placed
      PROVE  f[c] \in Slots /\ files[f[c]] = c
  BY DEF Placed, HasSlot
<1>2. ASSUME NEW c \in Placed
      PROVE  f[c] # s
  BY <1>1, NoneAssumption DEF Placed
<1>3. f \in [Placed -> Slots \ {s}]
  BY <1>1, <1>2
<1>4. \A c, d \in Placed : f[c] = f[d] => c = d
  BY <1>1
<1>5. s \in 0 .. NHandlers - 1 /\ f \in [Placed -> (0 .. NHandlers - 1) \ {s}] /\ NHandlers \in Nat
  BY <1>3 DEF Slots
<1> HIDE DEF f
<1> QED
  BY <1>4, <1>5, PlaceLeft

LEMMA NoFreeSlot ==
  ASSUME TypeOK, FilesSound, \A s \in Slots : files[s] # None
  PROVE  Cardinality(Placed) = NHandlers
<1>1. \A s \in Slots : files[s] \in Placed
  BY DEF TypeOK, FilesSound, Placed, HasSlot
<1>2. files \in [0 .. NHandlers - 1 -> Placed]
  BY <1>1 DEF TypeOK, Slots
<1>3. \A s, t \in 0 .. NHandlers - 1 : files[s] = files[t] => s = t
  BY DEF FilesSound, Slots
<1>4. \A c \in Placed : \E s \in 0 .. NHandlers - 1 : files[s] = c
  BY DEF Placed, HasSlot, Slots
<1> QED
  BY <1>2, <1>3, <1>4, PlacesTaken

LEMMA FreeBuffer ==
  ASSUME TypeOK, BuffersExact, CanAlloc(io_bufs)
  PROVE  Cardinality(TheServer!InPhases({"receiving", "ended"})) < NBufs
<1> DEFINE S == TheServer!InPhases({"receiving", "ended"})
           b == Head(io_bufs.free_list)
           holder(c) == CHOOSE i \in 0 .. NHandlers - 1 : Serves(i, c, "Recv")
           f == [c \in S |-> conn_data[holder(c)].buf_handle.index]
<1>1. ASSUME NEW c \in S
      PROVE  holder(c) \in Receiving /\ conn_data[holder(c)].peer = c
  <2>1. Served(c, "Recv")
    BY DEF TheServer!InPhases, PhaseOf
  <2>2. holder(c) \in 0 .. NHandlers - 1 /\ Serves(holder(c), c, "Recv")
    BY <2>1 DEF Served
  <2> QED
    BY <2>2 DEF Serves, Receiving
<1>2. b \in 0 .. NBufs - 1 /\ Occurs(io_bufs.free_list, b)
  <2>1. io_bufs.free_list \in Seq(0 .. NBufs - 1) /\ io_bufs.free_list # << >>
    BY DEF TypeOK, GenAllocs, CanAlloc
  <2> QED
    BY <2>1 DEF Occurs
<1>3. ASSUME NEW i \in Receiving
      PROVE  conn_data[i].buf_handle.index \in (0 .. NBufs - 1) \ {b}
  <2>1. conn_data[i].buf_handle.index # b
    BY <1>2 DEF BuffersExact
  <2>2. conn_data[i].buf_handle.index \in 0 .. NBufs - 1
    BY DEF BuffersExact, IsValid, TypeOK, GenAllocs
  <2> QED
    BY <2>1, <2>2
<1>4. f \in [S -> (0 .. NBufs - 1) \ {b}]
  BY <1>1, <1>3
<1>5. \A c, d \in S : f[c] = f[d] => c = d
  <2> SUFFICES ASSUME NEW c \in S, NEW d \in S, f[c] = f[d] PROVE c = d
    OBVIOUS
  <2>1. holder(c) = holder(d)
    BY <1>1 DEF BuffersExact
  <2> QED
    BY <1>1, <2>1
<1>6. NBufs \in Nat
  OBVIOUS
<1> HIDE DEF f, S, b, holder
<1> QED
  BY <1>2, <1>4, <1>5, <1>6, PlaceLeft DEF S

-----------------------------------------------------------------------------
(* The server counts as the executor does.                                 *)
LEMMA CountsAlike == \A S : TheServer!Cardinality(S) = Cardinality(S)
BY DEF Cardinality, TheServer!Cardinality

-----------------------------------------------------------------------------
(* Steps that move no client on.                                           *)
LEMMA BothWorlds ==
  ASSUME Before, After, Core'
  PROVE  Worlds
BY DEF Before, After, Core, World, Worlds

LEMMA SlotsStay ==
  ASSUME files' = files
  PROVE  \A c : HasSlot(c)' <=> HasSlot(c)
BY DEF HasSlot

LEMMA StillAlike ==
  ASSUME Still
  PROVE  \A d \in Conns : Alike(d)
<1>1. UNCHANGED <<conn_data, files, waiting, sent, fin>>
  BY DEF Still
<1>2. \A d \in Conns : ServiceKept(d)
  BY <1>1, Zenon DEF ServiceKept, Serves, Live
<1> QED
  BY <1>1, <1>2, SlotsStay, Zenon DEF Alike

LEMMA IdleAlike ==
  ASSUME UNCHANGED <<files, waiting, sent, fin>>, NEW i \in 0 .. NHandlers - 1,
         \A j \in (0 .. NHandlers - 1) \ {i} : conn_data'[j] = conn_data[j],
         Live(i) => conn_data[i].state \notin {"Recv", "Closing"},
         conn_data'[i] # None => conn_data'[i].state \notin {"Recv", "Closing"}
  PROVE  \A d \in Conns : Alike(d)
<1> SUFFICES ASSUME NEW d \in Conns PROVE Alike(d)
  OBVIOUS
<1>1. \A st \in {"Recv", "Closing"} : ~Serves(i, d, st) /\ ~Serves(i, d, st)'
  BY DEF Serves, Live
<1>2. \A j \in 0 .. NHandlers - 1 : j # i =>
        /\ conn_data'[j] = conn_data[j] /\ \A st : Serves(j, d, st)' <=> Serves(j, d, st)
  BY DEF Serves, Live
<1>3. ServiceKept(d)
  BY <1>1, <1>2 DEF ServiceKept
<1> QED
  BY <1>3, SlotsStay, Zenon DEF Alike

LEMMA SpawnRests ==
  ASSUME Before, After, CompleteSpawn
  PROVE  \A d \in Conns : Alike(d)
<1>1. PICK i \in 0 .. NHandlers - 1, s \in Slots :
        /\ ~Live(i)
        /\ conn_data' = [conn_data EXCEPT ![i] = NewConnHandler(s, files[s])]
        /\ IntentDone
  BY SpawnStep DEF Before, After
<1>2. /\ conn_data'[i].state = "Init"
      /\ \A j \in (0 .. NHandlers - 1) \ {i} : conn_data'[j] = conn_data[j]
  BY <1>1 DEF Before, TypeOK, NewConnHandler
<1>3. UNCHANGED <<files, waiting, sent, fin>>
  BY <1>1 DEF IntentDone, kernelVars
<1> QED
  BY <1>1, <1>2, <1>3, IdleAlike

LEMMA TerminateRests ==
  ASSUME Before, After, CompleteTerminate
  PROVE  \A d \in Conns : Alike(d)
<1>1. /\ current \in ConnHandles /\ Head(intents) = Terminate
      /\ conn_data' = IF IsValid(conn_alloc, current)
                      THEN [conn_data EXCEPT ![current.index] = None] ELSE conn_data
      /\ intents # << >> /\ IntentDone
  BY TerminateStep DEF Before, After
<1>2. PICK i \in 0 .. NHandlers - 1 : i = current.index
  BY <1>1, FirstIntent
<1>3. conn_data[i].state = "Closed"
  BY <1>1, <1>2, FirstIntent, DifferentIntents, Zenon DEF IntentSuits
<1>4. UNCHANGED <<files, waiting, sent, fin>>
  BY <1>1 DEF IntentDone, kernelVars
<1>5. /\ conn_data'[i] # None => conn_data'[i] = conn_data[i]
      /\ \A j \in (0 .. NHandlers - 1) \ {i} : conn_data'[j] = conn_data[j]
  BY <1>1, <1>2 DEF Before, TypeOK
<1> QED
  BY <1>3, <1>4, <1>5, IdleAlike

-----------------------------------------------------------------------------
(* A machine handles an event.                                             *)
LEMMA AnswerMoves ==
  ASSUME Before, After, Core', GoneSound, DispatchConn, Accepting' = Accepting
  PROVE  TheServer!Next \/ UNCHANGED TheServer!vars
<1>1. PICK f \in RunQueueEvents, u \in ConnHandles, h \in ConnHandlers, g \in ConnHandlers :
        /\ f \in WayEvents /\ u = f.handle /\ u.index \in 0 .. NHandlers - 1
        /\ Live(u.index) /\ h = conn_data[u.index] /\ Sound(u.index)
        /\ EventSuits(h, f) /\ Calm(f.reason.res)
        /\ conn_data' = [conn_data EXCEPT ![u.index] = g]
        /\ g.socket = h.socket /\ g.peer = h.peer /\ Answers(h, g, f.reason)
        /\ UNCHANGED <<mem, sent, fin, waiting, files>>
  BY MachineAnswers
<1>2. PICK i \in 0 .. NHandlers - 1 : i = u.index
  BY <1>1
<1>3. PICK c : c = h.peer
  OBVIOUS
<1>4. Worlds
  BY BothWorlds
<1>5. /\ c \in Conns /\ c \notin waiting
      /\ h.state = "Init" => Untouched(c) /\ files[h.socket] = c
      /\ h.state = "Recv" => files[h.socket] = c
  BY <1>1, <1>2, <1>3 DEF Sound
<1>6. /\ conn_data'[i] = g /\ conn_data[i] = h /\ Live(i)
      /\ \A j \in (0 .. NHandlers - 1) \ {i} : conn_data'[j] = conn_data[j]
  BY <1>1, <1>2 DEF Before, TypeOK
<1>7. \A d : HasSlot(d)' <=> HasSlot(d)
  BY <1>1, SlotsStay
<1>8. \A d \in Conns \ {c} : Alike(d)
  BY <1>1, <1>3, <1>4, <1>6, <1>7, OthersAlike, Zenon DEF Worlds
<1>9. h.state \in {"Init", "Recv"} => HasSlot(c)
  <2>1. h.socket \in Slots
    BY DEF ConnHandlers, Machines
  <2> QED
    BY <1>5, <2>1 DEF HasSlot
<1>10. /\ ~HasSlot(c) => PhaseOf(c) = "gone"
       /\ HasSlot(c) /\ h.state = "Recv" => PhaseOf(c) = IF c \in fin THEN "ended" ELSE "receiving"
       /\ HasSlot(c) /\ h.state = "Closing" => PhaseOf(c) = "closing"
       /\ HasSlot(c) /\ h.state \in {"Init", "Closed"} => PhaseOf(c) = "connected"
       /\ h.state = "Recv" => ReceivedOf(c) = h.offset
       /\ h.state # "Recv" => ReceivedOf(c) = sent[c]
  BY <1>3, <1>4, <1>5, <1>6, MachineIsKnown, Zenon DEF Worlds, MachineKnown
<1>11. g # None
  BY MachineAssumption
<1>12. /\ ~HasSlot(c) => PhaseOf(c)' = "gone"
       /\ HasSlot(c) /\ g.state = "Recv" => PhaseOf(c)' = IF c \in fin THEN "ended" ELSE "receiving"
       /\ HasSlot(c) /\ g.state = "Closing" => PhaseOf(c)' = "closing"
       /\ HasSlot(c) /\ g.state \in {"Init", "Closed"} => PhaseOf(c)' = "connected"
       /\ g.state = "Recv" => ReceivedOf(c)' = g.offset
       /\ g.state # "Recv" => ReceivedOf(c)' = sent[c]
  <2>1. MachineKnown'
    BY <1>4, MachineIsKnownNext DEF Worlds
  <2>2. Live(i)' /\ conn_data'[i].peer = c /\ c \notin waiting'
    BY <1>1, <1>3, <1>5, <1>6, <1>11 DEF Live
  <2>3. /\ ~HasSlot(c)' => PhaseOf(c)' = "gone"
        /\ HasSlot(c)' /\ g.state = "Recv" => PhaseOf(c)' = IF c \in fin' THEN "ended" ELSE "receiving"
        /\ HasSlot(c)' /\ g.state = "Closing" => PhaseOf(c)' = "closing"
        /\ HasSlot(c)' /\ g.state \in {"Init", "Closed"} => PhaseOf(c)' = "connected"
        /\ g.state = "Recv" => ReceivedOf(c)' = g.offset
        /\ g.state # "Recv" => ReceivedOf(c)' = sent'[c]
    BY <1>6, <2>1, <2>2, Zenon DEF MachineKnown
  <2> QED
    BY <1>1, <1>7, <2>3
<1>13. sent' = sent
  BY <1>1
<1>14. CASE GetsBuffer(h, g, f.reason)
  <2>1. h.state = "Init" /\ g.state = "Recv" /\ g.offset = h.offset /\ CanAlloc(io_bufs)
    BY <1>14 DEF GetsBuffer, ConnHandlers, Machines
  <2>2. c \notin fin /\ sent[c] = 0 /\ h.offset = 0
    BY <1>1, <1>2, <1>3, <1>5, <2>1 DEF Untouched, Sound
  <2>3. PhaseOf(c) = "connected" /\ PhaseOf(c)' = "receiving" /\ ReceivedOf(c)' = ReceivedOf(c)
    BY <1>9, <1>10, <1>12, <2>1, <2>2
  <2>4. TheServer!Moves(c, "connected", "receiving") /\ ReceivedMap' = ReceivedMap
    BY <1>4, <1>5, <1>8, <2>3, ServerMoves
  <2>5. Cardinality(TheServer!InPhases({"receiving", "ended"})) < NBufs
    BY <2>1, FreeBuffer DEF Before, BuffersInv
  <2>6. TheServer!Serve(c)
    BY <1>13, <2>4, <2>5, CountsAlike DEF TheServer!Serve, ReceivedMap
  <2> QED
    BY <1>5, <2>6 DEF TheServer!Next
<1>15. CASE TriesAgain(h, g, f.reason) \/ ReadsAgain(h, g, f.reason) \/ Ignores(h, g, f.reason)
  <2>1. g = h
    BY <1>15 DEF TriesAgain, ReadsAgain, Ignores
  <2>2. conn_data' = conn_data
    BY <1>1, <2>1 DEF Before, TypeOK
  <2>3. Still
    BY <1>1, <2>2 DEF Still
  <2> QED
    BY <1>4, <2>3, StillAlike, ServerRests
<1>16. CASE HasReceived(h, g, f.reason)
  <2>1. h.state = "Recv" /\ f.reason.kind = "IoCompleted" /\ f.reason.res > 0 /\ f.reason.res \in Int
        /\ g = AfterData(h, f.reason.res)
    BY <1>16 DEF HasReceived, RunQueueEvents, Events, AcceptResults
  <2>2. g.state = "Recv" /\ g.offset = h.offset + f.reason.res
    BY <2>1 DEF AfterData, ConnHandlers, Machines
  <2>3. sent[c] = h.offset + f.reason.res
    BY <1>1, <1>3, <2>1 DEF EventSuits, IsSpawn, Arrived
  <2>4. h.offset \in Nat
    BY DEF ConnHandlers, Machines
  <2>5. PhaseOf(c)' = PhaseOf(c) /\ ReceivedOf(c) = h.offset /\ ReceivedOf(c)' = sent[c]
    BY <1>9, <1>10, <1>12, <2>1, <2>2, <2>3
  <2>6. PhaseMap' = PhaseMap
    BY <1>4, <1>5, <1>8, <2>5, ServerMoves
  <2>7. ReceivedMap' = [ReceivedMap EXCEPT ![c] = sent[c]] /\ ReceivedMap[c] = h.offset
    BY <1>4, <1>5, <1>8, <2>5, StepMaps DEF Worlds, ReceivedMap
  <2>8. TheServer!Receive(c)
    BY <1>13, <2>1, <2>3, <2>4, <2>6, <2>7 DEF TheServer!Receive, ReceivedMap, PhaseMap
  <2> QED
    BY <1>5, <2>8 DEF TheServer!Next
<1>17. CASE StartsClose(h, g, f.reason)
  <2>1. f.reason.kind = "IoCompleted" /\ g.state = "Closing" /\ f.reason.res \in Int
    BY <1>17 DEF StartsClose, Closing, ConnHandlers, Machines, RunQueueEvents, Events, AcceptResults
  <2>2. h.state = "Recv" /\ f.reason.res = 0
    BY <1>1, <1>17 DEF StartsClose, EventSuits, IsSpawn, Arrived
  <2>3. sent[c] = h.offset /\ c \in fin
    BY <1>1, <1>3, <2>1, <2>2 DEF EventSuits, IsSpawn, Arrived
  <2>4. PhaseOf(c) = "ended" /\ PhaseOf(c)' = "closing" /\ ReceivedOf(c) = sent[c]
        /\ ReceivedOf(c)' = ReceivedOf(c)
    BY <1>9, <1>10, <1>12, <2>1, <2>2, <2>3
  <2>5. TheServer!Moves(c, "ended", "closing") /\ ReceivedMap' = ReceivedMap
    BY <1>4, <1>5, <1>8, <2>4, ServerMoves
  <2>6. ReceivedMap[c] = sent[c]
    BY <1>5, <2>4 DEF ReceivedMap
  <2>7. TheServer!Drop(c)
    BY <1>13, <2>5, <2>6 DEF TheServer!Drop, ReceivedMap
  <2> QED
    BY <1>5, <2>7 DEF TheServer!Next
<1>18. CASE Finishes(h, g, f.reason)
  <2>1. h.state = "Closing" /\ g.state = "Closed" /\ f.reason.kind = "IoCompleted"
    BY <1>18 DEF Finishes, ConnHandlers, Machines
  <2>2. ~HasSlot(c)
    BY <1>1, <1>2, <1>3, <2>1 DEF GoneSound, IsSpawn
  <2>3. PhaseOf(c)' = PhaseOf(c) /\ ReceivedOf(c)' = ReceivedOf(c)
    BY <1>10, <1>12, <2>1, <2>2
  <2>4. PhaseMap' = PhaseMap /\ ReceivedMap' = ReceivedMap
    BY <1>4, <1>5, <1>8, <2>3, ServerMoves
  <2> QED
    BY <1>13, <2>4 DEF TheServer!vars, PhaseMap, ReceivedMap
<1> QED
  BY <1>1, <1>14, <1>15, <1>16, <1>17, <1>18 DEF Answers

-----------------------------------------------------------------------------
(* The kernel acts for a client.                                           *)
LEMMA CloseMoves ==
  ASSUME Before, After, Core', EnterIssues, IssueClose, Accepting' = Accepting
  PROVE  TheServer!Next
<1>1. PICK u \in ConnHandles :
        LET m == conn_data[u.index]
        IN  /\ u.index \in 0 .. NHandlers - 1 /\ Live(u.index) /\ m.state = "Closing"
            /\ m.socket \in Slots /\ m.peer \in Conns /\ m.peer # None
            /\ m.peer \notin waiting /\ files[m.socket] = m.peer
            /\ files' = [files EXCEPT ![m.socket] = None]
            /\ UNCHANGED <<conn_data, waiting, sent, fin>>
  BY ClosesSlot
<1>2. PICK i \in 0 .. NHandlers - 1, c \in Conns, s \in Slots :
        /\ i = u.index /\ c = conn_data[i].peer /\ s = conn_data[i].socket
        /\ Live(i) /\ conn_data[i].state = "Closing" /\ c \notin waiting /\ files[s] = c
        /\ files' = [files EXCEPT ![s] = None]
  BY <1>1
<1>3. UNCHANGED <<conn_data, waiting, sent, fin>>
  BY <1>1
<1>4. Worlds
  BY BothWorlds
<1>5. ~HasSlot(c)' /\ \A d \in Conns : d # c => (HasSlot(d)' <=> HasSlot(d))
  BY <1>2, SlotLeft
<1>6. HasSlot(c)
  BY <1>2 DEF HasSlot
<1>7. PhaseOf(c) = "closing" /\ ReceivedOf(c) = sent[c]
  <2>1. MachineKnown
    BY <1>4, MachineIsKnown DEF Worlds
  <2> QED
    BY <1>2, <1>6, <2>1 DEF MachineKnown
<1>8. PhaseOf(c)' = "gone" /\ ReceivedOf(c)' = sent[c]
  <2>1. MachineKnown'
    BY <1>4, MachineIsKnownNext DEF Worlds
  <2>2. Live(i)' /\ conn_data'[i].peer = c /\ c \notin waiting' /\ conn_data'[i].state = "Closing"
    BY <1>2, <1>3 DEF Live
  <2>3. sent'[c] = sent[c]
    BY <1>3
  <2> QED
    BY <1>5, <2>1, <2>2, <2>3 DEF MachineKnown
<1>9. \A d \in Conns \ {c} : Alike(d)
  BY <1>2, <1>3, <1>4, <1>5, OthersAlike, Zenon DEF Worlds
<1>10. TheServer!Moves(c, "closing", "gone") /\ ReceivedMap' = ReceivedMap
  BY <1>4, <1>7, <1>8, <1>9, ServerMoves
<1>11. TheServer!Close(c)
  BY <1>3, <1>10 DEF TheServer!Close, ReceivedMap
<1> QED
  BY <1>11 DEF TheServer!Next

(* A client without a machine, before and after the step that answers it.  *)
LEMMA AnsweredAlike ==
  ASSUME UNCHANGED <<conn_data, sent, fin>>, NEW c \in waiting, waiting' = waiting \ {c},
         \A d \in Conns \ {c} : HasSlot(d)' <=> HasSlot(d)
  PROVE  \A d \in Conns \ {c} : Alike(d)
<1>1. \A d : ServiceKept(d)
  BY Zenon DEF ServiceKept, Serves, Live
<1> QED
  BY <1>1 DEF Alike

LEMMA AcceptMoves ==
  ASSUME Before, After, Core', ListenerInv, KernelAccepts, Accepting' = Accepting
  PROVE  TheServer!Next
<1>1. PICK c \in Conns, s \in Slots :
        /\ accepts > 0 /\ c \in waiting /\ waiting' = waiting \ {c}
        /\ files[s] = None /\ files' = [files EXCEPT ![s] = c]
        /\ UNCHANGED <<sent, fin>>
  BY Zenon DEF KernelAccepts, AcceptCompletes
<1>2. conn_data' = conn_data
  BY DEF KernelAccepts, ProgramUnchanged, machineVars
<1>3. Worlds
  BY BothWorlds
<1>4. Accepting
  BY <1>1, ArmedAccepts DEF ListenerInv, Before
<1>5. Unserved(c) /\ Unserved(c)'
  <2>1. Unserved(c)
    BY <1>1, WaitingUnserved DEF Before, Core
  <2> QED
    BY <1>2, <2>1 DEF Unserved, Live
<1>6. HasSlot(c)' /\ \A d \in Conns \ {c} : HasSlot(d)' <=> HasSlot(d)
  <2>1. files'[s] = c /\ \A t \in Slots \ {s} : files'[t] = files[t]
    BY <1>1 DEF Before, TypeOK
  <2> QED
    BY <1>1, <2>1, NoneAssumption DEF HasSlot
<1>7. PhaseOf(c) = "waiting" /\ PhaseOf(c)' = "connected" /\ ReceivedOf(c)' = ReceivedOf(c)
  <2>1. PhaseOf(c) = "waiting" /\ ReceivedOf(c) = sent[c]
    BY <1>1, <1>5, UnservedKnown
  <2>2. PhaseOf(c)' = "connected" /\ ReceivedOf(c)' = sent'[c]
    <3>1. c \notin waiting'
      BY <1>1
    <3> QED
      BY <1>5, <1>6, <3>1, UnservedKnownNext
  <2> QED
    BY <1>1, <2>1, <2>2
<1>8. \A d \in Conns \ {c} : Alike(d)
  BY <1>1, <1>2, <1>6, AnsweredAlike
<1>9. TheServer!Moves(c, "waiting", "connected") /\ ReceivedMap' = ReceivedMap
  BY <1>3, <1>7, <1>8, ServerMoves
<1>10. Cardinality(TheServer!InPhases(TheServer!Phases \ {"waiting", "gone"})) < NHandlers
  BY <1>1, HeldPlaces, FreeSlot DEF Before, Core, World
<1>11. TheServer!Accept(c)
  BY <1>1, <1>4, <1>9, <1>10, CountsAlike DEF TheServer!Accept, ReceivedMap
<1> QED
  BY <1>11 DEF TheServer!Next

LEMMA RefuseMoves ==
  ASSUME Before, After, Core', ListenerInv, KernelRefuses
  PROVE  TheServer!Next
<1>1. PICK c \in Conns :
        /\ c \in waiting /\ waiting' = waiting \ {c}
        /\ \A s \in Slots : files[s] # None
        /\ UNCHANGED <<files, sent, fin>>
  BY Zenon DEF KernelRefuses, AcceptOverflows
<1>2. conn_data' = conn_data
  BY DEF KernelRefuses, ProgramUnchanged, machineVars
<1>3. Worlds
  BY BothWorlds
<1>4. Accepting /\ Accepting' = FALSE
  BY RefusalEnds, AcceptingTypeNext DEF After
<1>5. Unserved(c) /\ Unserved(c)'
  <2>1. Unserved(c)
    BY <1>1, WaitingUnserved DEF Before, Core
  <2> QED
    BY <1>2, <2>1 DEF Unserved, Live
<1>6. \A d : HasSlot(d)' <=> HasSlot(d)
  BY <1>1, SlotsStay
<1>7. ~HasSlot(c)
  BY <1>1 DEF HasSlot, Before, Core, World, FilesSound
<1>8. PhaseOf(c) = "waiting" /\ PhaseOf(c)' = "gone" /\ ReceivedOf(c)' = ReceivedOf(c)
  <2>1. PhaseOf(c) = "waiting" /\ ReceivedOf(c) = sent[c]
    BY <1>1, <1>5, UnservedKnown
  <2>2. PhaseOf(c)' = "gone" /\ ReceivedOf(c)' = sent'[c]
    <3>1. c \notin waiting' /\ ~HasSlot(c)'
      BY <1>1, <1>6, <1>7
    <3> QED
      BY <1>5, <3>1, UnservedKnownNext
  <2> QED
    BY <1>1, <2>1, <2>2
<1>9. \A d \in Conns \ {c} : Alike(d)
  BY <1>1, <1>2, <1>6, AnsweredAlike
<1>10. TheServer!Moves(c, "waiting", "gone") /\ ReceivedMap' = ReceivedMap
  BY <1>3, <1>8, <1>9, ServerMoves
<1>11. Cardinality(TheServer!InPhases(TheServer!Phases \ {"waiting", "gone"})) = NHandlers
  BY <1>1, HeldPlaces, NoFreeSlot DEF Before, Core, World
<1>12. TheServer!Refuse(c)
  BY <1>1, <1>4, <1>10, <1>11, CountsAlike DEF TheServer!Refuse, ReceivedMap
<1> QED
  BY <1>12 DEF TheServer!Next

(* A pending read is of a client that is being received from.              *)
LEMMA ReadingClient ==
  ASSUME Before, NEW k \in DOMAIN reads
  PROVE  \E i \in 0 .. NHandlers - 1 : \E c \in Conns :
           /\ c = reads[k].conn /\ Live(i) /\ conn_data[i].peer = c /\ conn_data[i].state = "Recv"
           /\ conn_data[i].offset \in Nat
           /\ c \notin waiting /\ HasSlot(c) /\ c \notin fin
           /\ PhaseOf(c) = "receiving" /\ ReceivedOf(c) = conn_data[i].offset
<1>1. PICK u \in ConnHandles : \E m \in ConnHandlers :
        /\ u = reads[k].user /\ m = conn_data[u.index] /\ Live(u.index)
        /\ m.state = "Recv" /\ Reading(m)
        /\ m.peer \in Conns /\ reads[k].conn = m.peer /\ m.offset \in Nat
  BY PendingRead
<1>2. PICK m \in ConnHandlers :
        /\ m = conn_data[u.index] /\ m.state = "Recv" /\ Reading(m)
        /\ m.peer \in Conns /\ reads[k].conn = m.peer /\ m.offset \in Nat
  BY <1>1
<1>3. PICK r \in ToSet(reads) : r = reads[k]
  BY EntriesOf DEF Before, TypeOK
<1>4. u.index \in 0 .. NHandlers - 1 /\ Sound(u.index)
  BY <1>1, <1>3, ReadingMachine
<1>5. PICK i \in 0 .. NHandlers - 1 : i = u.index
  BY <1>4
<1>6. PICK c \in Conns : c = m.peer
  BY <1>2
<1>7. Live(i) /\ conn_data[i].peer = c /\ conn_data[i].state = "Recv" /\ conn_data[i].offset \in Nat
  BY <1>1, <1>2, <1>5, <1>6
<1>8. c \notin waiting /\ files[m.socket] = c /\ m.socket \in Slots
  BY <1>2, <1>4, <1>5, <1>6, <1>7 DEF Sound, ConnHandlers, Machines
<1>9. HasSlot(c)
  BY <1>8 DEF HasSlot
<1>10. c \notin fin
  BY <1>2, <1>6 DEF Reading
<1>11. PhaseOf(c) = "receiving" /\ ReceivedOf(c) = conn_data[i].offset
  <2>1. MachineKnown
    BY MachineIsKnown DEF Before, Core, World
  <2> QED
    BY <1>7, <1>8, <1>9, <1>10, <2>1 DEF MachineKnown
<1> QED
  BY <1>2, <1>6, <1>7, <1>8, <1>9, <1>10, <1>11

LEMMA ReadMoves ==
  ASSUME Before, After, Core', KernelReads, Accepting' = Accepting
  PROVE  TheServer!Next
<1>1. PICK k \in DOMAIN reads, n \in 1 .. BufSize : ReadCompletes(k, n) /\ ProgramUnchanged
  BY DEF KernelReads
<1>2. PICK i \in 0 .. NHandlers - 1, c \in Conns :
        /\ c = reads[k].conn /\ Live(i) /\ conn_data[i].peer = c /\ conn_data[i].state = "Recv"
        /\ c \notin waiting /\ HasSlot(c) /\ c \notin fin
        /\ PhaseOf(c) = "receiving" /\ ReceivedOf(c) = conn_data[i].offset
  BY ReadingClient
<1>3. /\ sent' = [sent EXCEPT ![c] = sent[c] + n] /\ n <= MaxStream - sent[c]
      /\ UNCHANGED <<files, waiting, fin, conn_data>>
  BY <1>1, <1>2 DEF ReadCompletes, Completes, ProgramUnchanged, machineVars
<1>4. Worlds
  BY BothWorlds
<1>5. sent[c] \in Nat /\ sent[c] + n \in sent[c] + 1 .. MaxStream /\ sent'[c] = sent[c] + n
      /\ \A d \in Conns \ {c} : sent'[d] = sent[d]
  BY <1>3 DEF Before, TypeOK
<1>6. \A d : HasSlot(d)' <=> HasSlot(d)
  BY <1>3, SlotsStay
<1>7. \A d \in Conns \ {c} : Alike(d)
  BY <1>2, <1>3, <1>4, <1>5, <1>6, OthersAlike, Zenon DEF Worlds
<1>8. PhaseOf(c)' = "receiving" /\ ReceivedOf(c)' = conn_data[i].offset
  <2>1. MachineKnown'
    BY <1>4, MachineIsKnownNext DEF Worlds
  <2>2. Live(i)' /\ conn_data'[i] = conn_data[i] /\ c \notin waiting' /\ c \notin fin' /\ HasSlot(c)'
    BY <1>2, <1>3, <1>6 DEF Live
  <2> QED
    BY <1>2, <2>1, <2>2 DEF MachineKnown
<1>9. PhaseMap' = PhaseMap /\ ReceivedMap' = ReceivedMap
  BY <1>2, <1>4, <1>7, <1>8, ServerMoves
<1>10. PhaseMap[c] = "receiving"
  BY <1>2 DEF PhaseMap
<1>11. TheServer!Send(c)
  BY <1>3, <1>5, <1>9, <1>10 DEF TheServer!Send, PhaseMap, ReceivedMap
<1> QED
  BY <1>11 DEF TheServer!Next

LEMMA EndMoves ==
  ASSUME Before, After, Core', NEW e \in Conns, KernelEnds(e), Accepting' = Accepting
  PROVE  TheServer!Next
<1>1. PICK k \in DOMAIN reads : ReadEnds(k) /\ ProgramUnchanged
  BY DEF KernelEnds
<1>2. PICK i \in 0 .. NHandlers - 1, c \in Conns :
        /\ c = reads[k].conn /\ Live(i) /\ conn_data[i].peer = c /\ conn_data[i].state = "Recv"
        /\ c \notin waiting /\ HasSlot(c) /\ c \notin fin
        /\ PhaseOf(c) = "receiving" /\ ReceivedOf(c) = conn_data[i].offset
  BY <1>1, ReadingClient
<1>3. fin' = fin \cup {c} /\ UNCHANGED <<files, waiting, sent, conn_data>>
  BY <1>1, <1>2 DEF ReadEnds, Completes, ProgramUnchanged, machineVars
<1>4. Worlds
  BY BothWorlds
<1>5. \A d : HasSlot(d)' <=> HasSlot(d)
  BY <1>3, SlotsStay
<1>6. \A d \in Conns \ {c} : sent'[d] = sent[d] /\ (d \in fin' <=> d \in fin)
  BY <1>3
<1>7. \A d \in Conns \ {c} : Alike(d)
  BY <1>2, <1>3, <1>4, <1>5, <1>6, OthersAlike, Zenon DEF Worlds
<1>8. PhaseOf(c)' = "ended" /\ ReceivedOf(c)' = conn_data[i].offset
  <2>1. MachineKnown'
    BY <1>4, MachineIsKnownNext DEF Worlds
  <2>2. Live(i)' /\ conn_data'[i] = conn_data[i] /\ c \notin waiting' /\ c \in fin' /\ HasSlot(c)'
    BY <1>2, <1>3, <1>5 DEF Live
  <2> QED
    BY <1>2, <2>1, <2>2 DEF MachineKnown
<1>9. TheServer!Moves(c, "receiving", "ended") /\ ReceivedMap' = ReceivedMap
  BY <1>2, <1>4, <1>7, <1>8, ServerMoves
<1>10. TheServer!HangUp(c)
  BY <1>3, <1>9 DEF TheServer!HangUp, ReceivedMap
<1> QED
  BY <1>10 DEF TheServer!Next

-----------------------------------------------------------------------------
(* The listener fails to listen before anybody has been answered.          *)
LEMMA ListenMoves ==
  ASSUME Worlds, Still, waiting = Conns, Accepting
  PROVE  TheServer!Next \/ UNCHANGED TheServer!vars
<1>1. PhaseMap' = PhaseMap /\ ReceivedMap' = ReceivedMap /\ sent' = sent
  BY StillAlike, NoStepMaps DEF Worlds
<1>2. TheServer!InPhases({"waiting"}) = Conns
  BY DEF TheServer!InPhases, PhaseOf
<1>3. CASE Accepting' = Accepting
  BY <1>1, <1>3 DEF TheServer!vars, PhaseMap, ReceivedMap
<1>4. CASE Accepting' = FALSE
  <2>1. TheServer!ListenFails
    BY <1>1, <1>2, <1>4 DEF TheServer!ListenFails, PhaseMap, ReceivedMap
  <2> QED
    BY <2>1 DEF TheServer!Next
<1> QED
  BY <1>3, <1>4, AcceptingType, AcceptingTypeNext

-----------------------------------------------------------------------------
(* Every step of the executor is a step of the server or none.             *)
LEMMA RunningMoves ==
  ASSUME Before, After, Core', ListenerInv, ListenerFirst, GoneSound, [Next]_vars
  PROVE  TheServer!Next \/ UNCHANGED TheServer!vars
<1>1. Worlds
  BY BothWorlds
<1>2. CASE KernelRefuses
  BY <1>2, RefuseMoves
<1>3. CASE DispatchTcp /\ tcp_listener = "Init" /\ Accepting
  <2>1. Still
    BY <1>3 DEF DispatchTcp, Pop, kernelVars, Still
  <2> QED
    BY <1>1, <1>3, <2>1, ListenMoves DEF ListenerFirst
<1>4. CASE ~KernelRefuses /\ Accepting' = Accepting
  <2>1. CASE Still
    BY <1>1, <1>4, <2>1, StillAlike, ServerRests
  <2>2. CASE CompleteSpawn \/ CompleteTerminate
    BY <1>1, <1>4, <2>2, SpawnRests, TerminateRests, ServerRests
  <2>3. CASE DispatchConn
    BY <1>4, <2>3, AnswerMoves
  <2>4. CASE KernelAccepts
    BY <1>4, <2>4, AcceptMoves
  <2>5. CASE KernelReads
    BY <1>4, <2>5, ReadMoves
  <2>6. CASE \E c \in Conns : KernelEnds(c)
    BY <1>4, <2>6, EndMoves
  <2>7. CASE EnterIssues /\ IssueClose
    BY <1>4, <2>7, CloseMoves
  <2> QED
    BY <1>4, <2>1, <2>2, <2>3, <2>4, <2>5, <2>6, <2>7, WhatMoves, Zenon DEF After
<1> QED
  <2>1. panic = "no" /\ TypeOK' /\ panic' # "unreachable"
    BY DEF Before, After
  <2> QED
    BY <1>2, <1>3, <1>4, <2>1, AcceptingMoves

(* A step into a panic, or after one, is none.                             *)
LEMMA PanicEnds ==
  ASSUME [Next]_vars, panic # "no"
  PROVE  UNCHANGED vars
BY Zenon DEF Next, Thread, Running, DispatchTcp, DispatchConn, DispatchMissing, Pop, DrainDone,
   CompleteRetry, CompleteAccept, CompleteSpawn, CompleteRecv, CompleteClose, CompleteTerminate,
   AtIntent, IntentsDone, SubmitShortcut, SubmitEnter, EnterIssues, EnterReturns, EnterError, At,
   Reap, ReapDone, KernelAccepts, KernelRefuses, KernelReads, KernelFails, KernelEnds

LEMMA AcceptingStays ==
  ASSUME UNCHANGED vars
  PROVE  Accepting' = Accepting
<1>1. tcp_listener' = tcp_listener /\ cq' = cq /\ run_queues' = run_queues
  BY DEF vars, loopVars, machineVars, ringVars
<1> QED
  BY <1>1 DEF Accepting, InSeq

LEMMA PanicRests ==
  ASSUME TypeOK, TypeOK', PeersDistinct, ListenerInv, ListenerFirst, EventsInv', [Next]_vars,
         panic' # "no"
  PROVE  PeersDistinct' /\ (TheServer!Next \/ UNCHANGED TheServer!vars)
<1>1. Still
  BY CrashStill
<1>2. Worlds
  BY <1>1 DEF Still, PeersDistinct, Live, Worlds
<1>3. CASE panic # "no"
  <2>1. UNCHANGED vars
    BY <1>3, PanicEnds
  <2> QED
    BY <1>1, <1>2, <2>1, AcceptingStays, StillAlike, ServerRests DEF Worlds
<1>4. CASE panic = "no"
  <2>1. panic' # "unreachable"
    BY DEF EventsInv, NoUnreachable
  <2>2. ~KernelRefuses
    BY <1>4 DEF KernelRefuses, ProgramUnchanged
  <2>3. CASE Accepting' = Accepting
    BY <1>1, <1>2, <2>3, StillAlike, ServerRests DEF Worlds
  <2>4. CASE DispatchTcp /\ tcp_listener = "Init" /\ Accepting
    BY <1>1, <1>2, <2>4, ListenMoves DEF ListenerFirst, Worlds
  <2> QED
    BY <1>4, <2>1, <2>2, <2>3, <2>4, AcceptingMoves
<1> QED
  BY <1>3, <1>4

(* The invariant: what is known of machines and clients, what is known of  *)
(* the listener, and that the answer to a close finds the slot left.       *)
ServerInv ==
  /\ PeersInv /\ ListenerInv /\ ListenerFirst /\ PeersDistinct
  /\ panic = "no" => GoneSound

LEMMA InitServer == Init => ServerInv /\ TheServer!Init
<1> SUFFICES ASSUME Init PROVE ServerInv /\ TheServer!Init
  OBVIOUS
<1>1. PeersInv /\ ListenerInv /\ GoneSound
  BY InitPeers, InitListener, InitGone
<1>2. /\ waiting = Conns /\ sent = [c \in Conns |-> 0] /\ tcp_listener = "Init"
      /\ \A i \in 0 .. NHandlers - 1 : ~Live(i)
      /\ run_queues[0] = <<RunQueueEvent(Spawn, TcpHandle)>> /\ run_queues[1] = << >> /\ cq = << >>
  BY DEF Init, UringInit, Live
<1>3. ListenerFirst /\ PeersDistinct
  BY <1>2 DEF ListenerFirst, PeersDistinct
<1>4. \A c \in Conns : PhaseOf(c) = "waiting" /\ ReceivedOf(c) = 0
  BY <1>2, NobodyServes DEF PhaseOf, Unserved
<1>5. Accepting
  <2>1. OnWay(Refusals) = 0
    BY InitFailures DEF Refusals
  <2> QED
    BY <1>1, <1>2, <2>1, AcceptingExact DEF ListenerInv
<1>6. TheServer!Init
  BY <1>2, <1>4, <1>5 DEF TheServer!Init
<1> QED
  BY <1>1, <1>3, <1>6 DEF ServerInv

LEMMA NextServer ==
  ASSUME CalmErrnos, OverflowChecks
  PROVE  ServerInv /\ [Next]_vars => ServerInv' /\ [TheServer!Next]_(TheServer!vars)
<1> SUFFICES ASSUME ServerInv, [Next]_vars
             PROVE  ServerInv' /\ (TheServer!Next \/ UNCHANGED TheServer!vars)
  OBVIOUS
<1>1. PeersInv' /\ ListenerInv' /\ ListenerFirst'
  BY NextPeers, NextListener, NextListenerFirst DEF ServerInv
<1>2. CASE panic' # "no"
  <2>1. PeersDistinct' /\ (TheServer!Next \/ UNCHANGED TheServer!vars)
    BY <1>1, <1>2, PanicRests DEF ServerInv, ListenerInv
  <2> QED
    BY <1>1, <1>2, <2>1 DEF ServerInv
<1>3. CASE panic' = "no"
  <2>1. Before /\ After
    BY <1>1, <1>3, StaysRunning DEF ServerInv, PeersInv, Before, After
  <2>2. Core' /\ Before'
    BY <1>1, <1>3 DEF PeersInv, Before
  <2>3. GoneSound /\ GoneSound'
    BY <2>1, <2>2, NextGone DEF ServerInv, Before
  <2>4. TheServer!Next \/ UNCHANGED TheServer!vars
    BY <2>1, <2>2, <2>3, RunningMoves DEF ServerInv
  <2>5. PeersDistinct'
    BY <2>2 DEF Core, World
  <2> QED
    BY <1>1, <2>3, <2>4, <2>5 DEF ServerInv
<1> QED
  BY <1>2, <1>3

(* The executor implements Server: a client is let in only while a file    *)
(* slot is free and turned away only when none is, and nobody is let in    *)
(* after it; no more clients are received from than there are buffers; a   *)
(* connection is closed only when its client has hung up and every byte    *)
(* that a read took has been received, and its slot is free for another    *)
(* only then (executor/mod.rs:54-186, conn_handler.rs:57-146,              *)
(* tcp_server.rs:40-58).  For any number of clients and any order of       *)
(* completions, also when the executor panics on the way, as long as reads *)
(* fail with none of the errors that are answered with two intents, and    *)
(* generations do not wrap.                                                *)
THEOREM ExecImplementsServer ==
  ASSUME CalmErrnos, OverflowChecks
  PROVE  Spec => ImplementsServer
<1>1. Init => ServerInv /\ TheServer!Init
  BY InitServer
<1>2. ServerInv /\ [Next]_vars => ServerInv' /\ [TheServer!Next]_(TheServer!vars)
  BY NextServer
<1> QED
  BY <1>1, <1>2, PTL DEF Spec, ImplementsServer, TheServer!Spec
=============================================================================
