---------------------------- MODULE Limits_proofs ----------------------------
(***************************************************************************)
(* Proofs that nothing in the executor runs out.  The completion queue has *)
(* room for whatever the kernel has to post (CompletionQueueSuffices):     *)
(* every place in it belongs to a machine, to a file slot or to the end of *)
(* the accept, and no two are the same.  And no unwrap or assertion of the *)
(* executor's path fires (NoPanic): requests have their places in the      *)
(* submission queue in the same way, the pool of machines has a place for  *)
(* whoever is accepted because an accept of a slot comes after the end of  *)
(* the machine that had it, and the run queues and the generations have    *)
(* room for the clients there are.                                         *)
(***************************************************************************)
EXTENDS Peers_proofs

USE SizesAssumption, UringAssumption, GenSpanAssumption

(* A set that fits into another without a collision is not larger.         *)
LEMMA FitsInto ==
  ASSUME NEW S, IsFiniteSet(S), NEW T, IsFiniteSet(T), NEW f \in [S -> T],
         \A x, y \in S : f[x] = f[y] => x = y
  PROVE  Cardinality(S) <= Cardinality(T)
<1>1. Cardinality(S) \in Nat /\ Cardinality(T) \in Nat
  BY FS_CardinalityType
<1>2. ASSUME Cardinality(T) < Cardinality(S) PROVE FALSE
  BY <1>2, FS_PigeonHole
<1> QED
  BY <1>1, <1>2

(* Where no more than one element of a queue is counted, the places of two *)
(* are the same.                                                           *)
LEMMA CountOnce ==
  \A T : \A s \in Seq(T) : \A S : Count(s, S) <= 1 =>
    \A j, k \in DOMAIN s : s[j] \in S /\ s[k] \in S => j = k
<1> SUFFICES ASSUME NEW T, NEW s \in Seq(T), NEW S, Count(s, S) <= 1,
                    NEW j \in DOMAIN s, NEW k \in DOMAIN s, s[j] \in S, s[k] \in S
             PROVE  j = k
  OBVIOUS
<1>1. IsFiniteSet(Where(s, S)) /\ Count(s, S) \in Nat
  BY CountType
<1>2. j \in Where(s, S) /\ k \in Where(s, S)
  BY DEF Where
<1>3. Count(s, S) # 0
  BY <1>1, <1>2, FS_EmptySet DEF Count
<1>4. Count(s, S) = 1
  BY <1>1, <1>3
<1>5. \E x : Where(s, S) = {x}
  BY <1>1, <1>4, FS_Singleton, Zenon DEF Count
<1> QED
  BY <1>2, <1>5

(* A queue is as long as it has places.                                    *)
LEMMA LengthCounts ==
  \A T : \A s \in Seq(T) : IsFiniteSet(DOMAIN s) /\ Cardinality(DOMAIN s) = Len(s) /\ Len(s) \in Nat
<1> SUFFICES ASSUME NEW T, NEW s \in Seq(T)
             PROVE  IsFiniteSet(DOMAIN s) /\ Cardinality(DOMAIN s) = Len(s) /\ Len(s) \in Nat
  OBVIOUS
<1>1. DOMAIN s = 1 .. Len(s) /\ Len(s) \in Nat
  OBVIOUS
<1> QED
  BY <1>1, FS_Interval

(* Two handles that are good for one machine are the same.                 *)
LEMMA SameIndexResolves ==
  ASSUME TypeOK, NEW g \in ConnHandles, NEW h \in ConnHandles, Resolves(g), Resolves(h),
         g.index = h.index
  PROVE  g = h
BY DEF ConnHandles, Resolves

(* A machine has one completion in the completion queue at most, ...       *)
LEMMA OneCompletion ==
  ASSUME TypeOK, ExactlyOne, panic = "no",
         NEW j \in DOMAIN cq, NEW k \in DOMAIN cq,
         cq[j].user \in ConnHandles, cq[k].user \in ConnHandles,
         cq[j].user.index = cq[k].user.index
  PROVE  j = k
<1> DEFINE g == cq[j].user
           h == cq[k].user
<1>1. cq \in Seq(Cqes) /\ cq[j] \in Cqes /\ cq[k] \in Cqes
  BY DEF TypeOK
<1>2. EventTask(EventOf(cq[j])) \in Tasks /\ EventTask(EventOf(cq[k])) \in Tasks
  BY <1>1, TasksThere DEF WayEvents, ToSet
<1>3. EventTask(EventOf(cq[j])).user = g /\ EventTask(EventOf(cq[k])).user = h
  BY <1>1, EventOfType DEF EventTask, Task
<1>4. Resolves(g) /\ Resolves(h)
  BY <1>2, <1>3, TasksAreUnique, Zenon DEF OneTask
<1>5. g = h
  BY <1>4, SameIndexResolves
<1>6. UnderWay(g) = 1
  BY <1>4 DEF ExactlyOne
<1>7. InQueues(g) \in Nat /\ InRing(g) \in Nat
  BY UnderWayType
<1>8. intents \in Seq(IntentsOf(current))
  BY DEF TypeOK
<1>9. InRing(g) <= 1
  BY <1>6, <1>7, <1>8 DEF UnderWay
<1>10. sq \in Seq(Sqes) /\ reads \in Seq(Reads)
  BY DEF TypeOK
<1>11. /\ Count(sq, RequestsBy(g)) \in Nat /\ Count(reads, RequestsBy(g)) \in Nat
       /\ Count(cq, RequestsBy(g)) \in Nat
  BY <1>1, <1>10, CountType, Zenon
<1>12. Count(cq, RequestsBy(g)) <= 1
  BY <1>9, <1>11 DEF InRing
<1>13. cq[j] \in RequestsBy(g) /\ cq[k] \in RequestsBy(g)
  BY <1>1, <1>5 DEF RequestsBy
<1> QED
  BY <1>1, <1>12, <1>13, CountOnce

(* ... an accepted connection has one, ...                                 *)
LEMMA OneAcceptCompletion ==
  ASSUME TypeOK, ComingSound, NEW j \in DOMAIN cq, NEW k \in DOMAIN cq,
         cq[j].user = TcpHandle, cq[k].user = TcpHandle,
         cq[j].res >= 0, cq[j].res = cq[k].res
  PROVE  j = k
<1> DEFINE R == {cq[j].res}
<1>1. cq \in Seq(Cqes) /\ cq[j] \in Cqes /\ cq[k] \in Cqes
  BY DEF TypeOK
<1>2. cq[j].res \in Slots
  BY <1>1, HandleKinds DEF Cqes, AcceptResults, Slots
<1>3. Incoming(R) \in Nat /\ Incoming(R) <= 1
  BY <1>2, IncomingType DEF ComingSound, IncomingCounts
<1>4. Count(Posted, AcceptsOf(R)) <= 1
  <2>1. Count(intents, SpawnsOf(R)) \in Nat
    BY IncomingType DEF IncomingCounts
  <2>2. /\ Count(ThisQueue, AcceptsOf(R)) \in Nat /\ Count(NextQueue, AcceptsOf(R)) \in Nat
        /\ Count(Posted, AcceptsOf(R)) \in Nat
    BY OnWayType DEF OnWayCounts
  <2> QED
    BY <1>3, <2>1, <2>2 DEF Incoming, OnWay
<1>5. Posted \in Seq(RunQueueEvents) /\ DOMAIN Posted = DOMAIN cq
  BY WayTypes
<1>6. Posted[j] = EventOf(cq[j]) /\ Posted[k] = EventOf(cq[k])
  BY DEF Posted
<1>7. Posted[j] \in AcceptsOf(R) /\ Posted[k] \in AcceptsOf(R)
  BY <1>1, <1>6, AcceptsAreAccepts
<1> QED
  BY <1>4, <1>5, <1>7, CountOnce

(* ... and the failure of an accept is the end of it.                      *)
LEMMA OneFailedAccept ==
  ASSUME TypeOK, FailuresEnd, ArmedOnce, panic = "no", NEW j \in DOMAIN cq, NEW k \in DOMAIN cq,
         cq[j].user = TcpHandle, cq[k].user = TcpHandle, cq[j].res < 0, cq[k].res < 0
  PROVE  j = k
<1>1. cq \in Seq(Cqes) /\ cq[j] \in Cqes /\ cq[k] \in Cqes
  BY DEF TypeOK
<1>2. cq[j] \notin UnendedCqes /\ cq[k] \notin UnendedCqes
  BY DEF FailuresEnd, Neither, NoneIn
<1>3. cq[j] \in LastCqes /\ cq[k] \in LastCqes
  BY <1>1, <1>2 DEF LastCqes, UnendedCqes
<1>4. Armed <= 1
  BY DEF ArmedOnce
<1>5. Count(cq, LastCqes) <= 1
  BY <1>4, ArmedType DEF Armed
<1> QED
  BY <1>1, <1>3, <1>5, CountOnce

(* So there is a place for every completion: one for each machine, one for *)
(* each slot, one for the accept's failure.                                *)
LEMMA CompletionsFit ==
  ASSUME Before, FailuresEnd, ArmedOnce
  PROVE  Len(cq) <= 2 * NHandlers + 1
<1> DEFINE place(r) == IF r.user # TcpHandle THEN r.user.index
                       ELSE IF r.res >= 0 THEN NHandlers + r.res
                       ELSE 2 * NHandlers
           T == 0 .. 2 * NHandlers
           f == [k \in DOMAIN cq |-> place(cq[k])]
<1>1. TypeOK /\ ExactlyOne /\ panic = "no" /\ ComingSound
  BY DEF Before, Core, World
<1>2. cq \in Seq(Cqes)
  BY <1>1 DEF TypeOK
<1>3. ASSUME NEW k \in DOMAIN cq
      PROVE  /\ cq[k].user # TcpHandle => cq[k].user \in ConnHandles /\ cq[k].user.index \in 0 .. NHandlers - 1
             /\ cq[k].user = TcpHandle => cq[k].res \in Int /\ cq[k].res < NHandlers
  <2>1. cq[k] \in Cqes
    BY <1>2
  <2>2. CASE cq[k] \in [user : {TcpHandle}, res : AcceptResults, more : BOOLEAN]
    BY <2>2 DEF AcceptResults
  <2>3. CASE cq[k] \in [user : ConnHandles, res : Int, more : BOOLEAN]
    BY <2>3, HandleKinds DEF ConnHandles
  <2> QED
    BY <2>1, <2>2, <2>3 DEF Cqes
<1>4. \A k \in DOMAIN cq : place(cq[k]) \in T
  BY <1>3
<1>5. f \in [DOMAIN cq -> T]
  BY <1>4
<1>6. ASSUME NEW j \in DOMAIN cq, NEW k \in DOMAIN cq, f[j] = f[k]
      PROVE  j = k
  <2>1. place(cq[j]) = place(cq[k])
    BY <1>6
  <2>2. \/ cq[j].user # TcpHandle /\ cq[k].user # TcpHandle /\ cq[j].user.index = cq[k].user.index
        \/ /\ cq[j].user = TcpHandle /\ cq[k].user = TcpHandle
           /\ \/ cq[j].res >= 0 /\ cq[j].res = cq[k].res
              \/ cq[j].res < 0 /\ cq[k].res < 0
    BY <1>3, <2>1
  <2> QED
    BY <1>1, <1>3, <2>2, OneCompletion, OneAcceptCompletion, OneFailedAccept
<1>7. IsFiniteSet(T) /\ Cardinality(T) = 2 * NHandlers + 1
  BY FS_Interval
<1>8. IsFiniteSet(DOMAIN cq) /\ Cardinality(DOMAIN cq) = Len(cq)
  BY <1>2, LengthCounts
<1> HIDE DEF f, T
<1>9. Cardinality(DOMAIN cq) <= Cardinality(T)
  BY <1>5, <1>6, <1>7, <1>8, FitsInto
<1> QED
  BY <1>7, <1>8, <1>9

(* What the room for completions rests on.                                 *)
CompletionsInv ==
  PeersInv /\ FailuresEnd /\ ArmedOnce /\ CompletionQueueSuffices

(* While the executor runs, the invariant of the peers holds in full.      *)
LEMMA PeersBefore ==
  PeersInv /\ panic = "no" => Before
BY DEF PeersInv, Before

(* The bound again, as a formula of a state.                               *)
LEMMA RoomForCompletions ==
  Before /\ FailuresEnd /\ ArmedOnce => Len(cq) <= 2 * NHandlers + 1
BY CompletionsFit

(* The kernel never has a completion to post for which there is no room:   *)
(* each machine has one at most, each accepted connection that no machine  *)
(* has yet has one, and the accept that ends has the last                  *)
(* (executor/mod.rs:107-119), however many clients come and go while the   *)
(* executor does not reap.  For queues of more entries than there are      *)
(* machines (main.rs:38-39), under the assumptions of the two theorems on  *)
(* peers.                                                                  *)
THEOREM ExecCompletionQueueSuffices ==
  ASSUME CalmErrnos, OverflowChecks, SqEntries > NHandlers
  PROVE  Spec => []CompletionQueueSuffices
<1>1. Init => CompletionsInv
  <2> SUFFICES ASSUME Init PROVE CompletionsInv
    OBVIOUS
  <2>1. cq = << >>
    BY DEF Init, UringInit
  <2>2. CompletionQueueSuffices
    BY <2>1 DEF CompletionQueueSuffices
  <2> QED
    BY <2>2, InitPeers, InitArmed DEF CompletionsInv
<1>2. CompletionsInv /\ [Next]_vars => CompletionsInv'
  <2> SUFFICES ASSUME CompletionsInv, [Next]_vars PROVE CompletionsInv'
    OBVIOUS
  <2>1. PeersInv /\ FailuresEnd /\ ArmedOnce /\ CompletionQueueSuffices
    BY DEF CompletionsInv
  <2>2. PeersInv'
    BY <2>1, NextPeers
  <2>3. FailuresEnd' /\ ArmedOnce'
    BY <2>1, <2>2, NextArmed DEF PeersInv
  <2>4. CompletionQueueSuffices'
    <3>1. CASE panic' # "no"
      BY <2>1, <3>1, CrashKeeps DEF Watched, CompletionQueueSuffices
    <3>2. CASE panic' = "no"
      <4>1. Before'
        <5>1. (PeersInv /\ panic = "no" => Before)'
          BY PeersBefore, PTL
        <5> QED
          BY <2>2, <3>2, <5>1
      <4>2. (Before /\ FailuresEnd /\ ArmedOnce => Len(cq) <= 2 * NHandlers + 1)'
        BY RoomForCompletions, PTL
      <4>3. Len(cq') <= 2 * NHandlers + 1 /\ Len(cq') \in Nat
        BY <2>2, <2>3, <4>1, <4>2 DEF PeersInv, TypeOK
      <4> QED
        BY <4>3 DEF CompletionQueueSuffices
    <3> QED
      BY <3>1, <3>2
  <2> QED
    BY <2>2, <2>3, <2>4 DEF CompletionsInv
<1>3. CompletionsInv => CompletionQueueSuffices
  BY DEF CompletionsInv
<1> QED
  BY <1>1, <1>2, <1>3, PTL DEF Spec

-----------------------------------------------------------------------------
(* The slot of machine i holds its client.                                 *)
Connected(i) ==
  /\ i \in 0 .. NHandlers - 1 /\ Live(i) /\ conn_data[i] \in ConnHandlers
  /\ conn_data[i].peer \in Conns /\ files[conn_data[i].socket] = conn_data[i].peer

(* What a machine's request may complete with.                             *)
Result(res) == res >= 0 \/ \E errno \in RecvErrnos : res = -errno

(* The kernel completes a machine's request while the machine's client is  *)
(* still in the slot, and finds the slot and the buffer that the request   *)
(* names.                                                                  *)
LEMMA KernelCompletes ==
  ASSUME Before, KernelStep, NEW r \in Cqes, cq' = Append(cq, r), r.user \in ConnHandles
  PROVE  Connected(r.user.index) /\ Result(r.res)
<1>1. cq \in Seq(Cqes) /\ cq' # cq /\ \A x \in Cqes : cq' = Append(cq, x) => x = r
  BY AppendOnce, Zenon DEF Before, TypeOK
<1>2. ASSUME NEW h \in ConnHandles, NEW res \in Int, Result(res), Connected(h.index),
             cq' = Append(cq, Cqe(h, res, FALSE))
      PROVE  Connected(r.user.index) /\ Result(r.res)
  <2>1. Cqe(h, res, FALSE) \in Cqes /\ Cqe(h, res, FALSE).user = h /\ Cqe(h, res, FALSE).res = res
    BY DEF Cqe, Cqes
  <2> QED
    BY <1>1, <1>2, <2>1, Zenon
<1>3. CASE EnterIssues
  <2> DEFINE e == Head(sq)
  <2>1. e \in ToSet(sq) /\ e \in Sqes /\ (IssueRecv \/ IssueClose)
    <3>1. sq \in Seq(Sqes) /\ sq # << >>
      BY <1>3 DEF Before, TypeOK, EnterIssues, Issue
    <3> QED
      BY <1>1, <1>3, <3>1, EntriesOf, PopType DEF EnterIssues, Issue, IssueAccept
  <2>2. e.op \in {"recv", "close"}
    BY <2>1 DEF IssueRecv, IssueClose
  <2>3. PICK h \in ConnHandles : h = e.user
    BY <2>1, <2>2, SubmittedBy
  <2> DEFINE m == conn_data[h.index]
  <2>4. /\ h.index \in 0 .. NHandlers - 1 /\ Live(h.index) /\ m \in ConnHandlers
        /\ e.fixed = m.socket /\ m.socket \in Slots /\ files[e.fixed] = m.peer
        /\ m.peer \in Conns /\ m.peer # None
        /\ e.op = "recv" => e.addr .. e.addr + e.len - 1 \subseteq Iovec(e.buf)
    BY <2>1, <2>3, SubmittedMachine, RequestFinds
  <2>5. Connected(h.index)
    BY <2>4, Zenon DEF Connected
  <2>6. IssueClose /\ ~IssueRecv
    <3>1. ~IssueRecv
      BY <1>1, <2>4 DEF IssueRecv
    <3> QED
      BY <2>1, <3>1
  <2>7. cq' = Append(cq, Cqe(h, 0, FALSE))
    BY <2>3, <2>4, <2>6 DEF IssueClose, Post
  <2>8. 0 \in Int /\ Result(0)
    BY DEF Result
  <2> HIDE DEF e, m
  <2> QED
    BY <1>2, <2>5, <2>7, <2>8, Zenon
<1>4. CASE KernelAccepts \/ KernelRefuses
  BY <1>4, KernelPosts, HandleKinds DEF Before
<1>5. CASE KernelReads \/ KernelFails \/ \E c \in Conns : KernelEnds(c)
  <2>1. \E k \in DOMAIN reads : \E res \in Int : Completes(k, res) /\ Result(res)
    <3>1. \A n \in 1 .. BufSize : n \in Int /\ Result(n)
      BY DEF Result
    <3>2. \A errno \in RecvErrnos : -errno \in Int /\ Result(-errno)
      BY DEF Errnos, Result
    <3>3. 0 \in Int /\ Result(0)
      BY DEF Result
    <3> QED
      BY <1>5, <3>1, <3>2, <3>3 DEF KernelReads, KernelFails, KernelEnds, ReadCompletes,
                                    ReadEnds, ReadFails
  <2>2. PICK k \in DOMAIN reads : \E res \in Int : Completes(k, res) /\ Result(res)
    BY <2>1
  <2>3. PICK res \in Int : Completes(k, res) /\ Result(res)
    BY <2>2
  <2>4. PICK h \in ConnHandles : h = reads[k].user
    BY PendingRead
  <2>5. cq' = Append(cq, Cqe(h, res, FALSE))
    BY <2>3, <2>4 DEF Completes, Post
  <2>6. reads[k] \in ToSet(reads)
    BY DEF ToSet
  <2> DEFINE m == conn_data[h.index]
  <2>7. /\ h.index \in 0 .. NHandlers - 1 /\ Live(h.index) /\ m \in ConnHandlers
        /\ m.state = "Recv" /\ Sound(h.index)
    BY <2>4, <2>6, ReadingMachine DEF ReadSuits
  <2>8. Connected(h.index)
    BY <2>7, Zenon DEF Connected, Sound
  <2> QED
    BY <1>2, <2>3, <2>5, <2>8
<1> QED
  BY <1>3, <1>4, <1>5 DEF KernelStep

-----------------------------------------------------------------------------
(* Reads fail with errors of the last arm of handle_io_error only.         *)
HarmlessErrnos == RecvErrnos \cap (RetryErrnos \cup CloseErrnos \cup FatalErrnos) = {}

(* Such errors are answered with one intent only.                          *)
LEMMA HarmlessCalm == HarmlessErrnos => CalmErrnos
BY DEF HarmlessErrnos, CalmErrnos

(* No machine has a completion on its way that ends the process.           *)
FatalEvent(e) ==
  /\ e.handle \in ConnHandles /\ ~IsSpawn(e)
  /\ e.reason.res < 0 /\ from_raw_syscall_error(e.reason.res) \in FatalErrnos

(* No machine is told of an error that makes it panic                      *)
(* (conn_handler.rs:114-121).                                              *)
NoneFatal == \A e \in WayEvents : ~FatalEvent(e)

(* A machine's first event is added to the way.                            *)
LEMMA SpawnEvents ==
  ASSUME TypeOK, TypeOK', PushesSpawn
  PROVE  \E e \in RunQueueEvents : IsSpawn(e) /\ WayEvents' \subseteq WayEvents \cup {e}
<1>1. PICK e \in RunQueueEvents :
        /\ IsSpawn(e) /\ Posted' = Posted
        /\ \/ ThisQueue' = Append(ThisQueue, e) /\ NextQueue' = NextQueue
           \/ ThisQueue' = ThisQueue /\ NextQueue' = Append(NextQueue, e)
  BY DEF PushesSpawn
<1>2. ThisQueue \in Seq(RunQueueEvents) /\ NextQueue \in Seq(RunQueueEvents)
  BY WayTypes
<1>3. (TypeOK => WayEvents = ToSet(ThisQueue) \cup ToSet(NextQueue) \cup ToSet(Posted))'
  BY ThisAndNext, PTL
<1>4. /\ ToSet(ThisQueue)' \subseteq ToSet(ThisQueue) \cup {e}
      /\ ToSet(NextQueue)' \subseteq ToSet(NextQueue) \cup {e}
      /\ ToSet(Posted)' = ToSet(Posted)
  <2>1. /\ ToSet(Append(ThisQueue, e)) = ToSet(ThisQueue) \cup {e}
        /\ ToSet(Append(NextQueue, e)) = ToSet(NextQueue) \cup {e}
    BY <1>2, EntriesOf
  <2>2. \A s, t : s = t => ToSet(s) = ToSet(t)
    OBVIOUS
  <2> QED
    BY <1>1, <2>1, <2>2, Zenon
<1> QED
  BY <1>1, <1>3, <1>4, ThisAndNext

(* The kernel posts none, and reaping and popping make none of others.     *)
LEMMA NextNoneFatal ==
  ASSUME Before, TypeOK', [Next]_vars, HarmlessErrnos, NoneFatal
  PROVE  NoneFatal'
<1>1. TypeOK /\ QueueDrained
  BY DEF Before
<1>2. CASE WayEvents' \subseteq WayEvents
  BY <1>2 DEF NoneFatal, FatalEvent, IsSpawn
<1>3. CASE PushesSpawn
  BY <1>1, <1>3, SpawnEvents DEF NoneFatal, FatalEvent, IsSpawn
<1>4. ASSUME KernelStep, NEW r \in Cqes, PostsEvent(r), WayEvents' \subseteq WayEvents \cup {EventOf(r)}
      PROVE  NoneFatal'
  <2>1. ~FatalEvent(EventOf(r))
    <3>1. SUFFICES ASSUME r.user \in ConnHandles, r.res < 0,
                          from_raw_syscall_error(r.res) \in FatalErrnos
                   PROVE  FALSE
      BY EventOfType DEF FatalEvent
    <3>2. Result(r.res)
      BY <1>4, <3>1, KernelCompletes DEF PostsEvent
    <3>3. PICK errno \in RecvErrnos : r.res = -errno
      <4>1. r.res \in Int
        BY DEF Cqes, AcceptResults
      <4> QED
        BY <3>1, <3>2, <4>1 DEF Result
    <3>4. errno \in Int /\ from_raw_syscall_error(r.res) = errno
      BY <3>3 DEF Errnos, from_raw_syscall_error
    <3> QED
      BY <3>1, <3>3, <3>4 DEF HarmlessErrnos
  <2> QED
    BY <1>4, <2>1 DEF NoneFatal, FatalEvent, IsSpawn
<1> QED
  BY <1>1, <1>2, <1>3, <1>4, NextEvents

-----------------------------------------------------------------------------
(* The one thing that is under way for a machine is in one place.          *)
LEMMA OnePlace ==
  ASSUME TypeOK, ExactlyOne, panic = "no", NEW h \in ConnHandles
  PROVE  /\ \A q \in {0, 1} : Count(run_queues[q], EventsFor(h)) <= 1
         /\ Count(sq, RequestsBy(h)) <= 1 /\ Count(cq, RequestsBy(h)) <= 1
         /\ current = h /\ intents # << >> =>
              /\ \A q \in {0, 1} : Count(run_queues[q], EventsFor(h)) = 0
              /\ Count(sq, RequestsBy(h)) = 0
         /\ Count(cq, RequestsBy(h)) # 0 =>
              \A q \in {0, 1} : Count(run_queues[q], EventsFor(h)) = 0
<1>1. /\ run_queues[0] \in Seq(RunQueueEvents) /\ run_queues[1] \in Seq(RunQueueEvents)
      /\ sq \in Seq(Sqes) /\ reads \in Seq(Reads) /\ cq \in Seq(Cqes)
      /\ intents \in Seq(IntentsOf(current))
  BY DEF TypeOK
<1>2. PICK a, b, c, d, e \in Nat :
        /\ a = Count(run_queues[0], EventsFor(h)) /\ b = Count(run_queues[1], EventsFor(h))
        /\ c = Count(sq, RequestsBy(h)) /\ d = Count(reads, RequestsBy(h))
        /\ e = Count(cq, RequestsBy(h))
  BY <1>1, CountType, Zenon
<1>3. PICK n \in Nat : n = IF current = h THEN Len(intents) ELSE 0
  BY <1>1
<1>4. UnderWay(h) \in {0, 1}
  BY DEF ExactlyOne
<1>5. UnderWay(h) = (a + b) + (c + d + e) + n
  BY <1>2, <1>3 DEF UnderWay, InQueues, OfQueues, InRing
<1>6. a + b + c + d + e + n <= 1
  BY <1>4, <1>5
<1>7. current = h /\ intents # << >> => n # 0
  BY <1>1, <1>3
<1>8. a <= 1 /\ b <= 1 /\ c <= 1 /\ e <= 1
  BY <1>6
<1>9. (n # 0 => a = 0 /\ b = 0 /\ c = 0) /\ (e # 0 => a = 0 /\ b = 0)
  BY <1>6
<1> QED
  BY <1>2, <1>7, <1>8, <1>9

-----------------------------------------------------------------------------
(* The place of a request in the submission queue: its machine, or the     *)
(* listener.                                                               *)
SqePlace(r) == IF r.op = "accept" THEN NHandlers ELSE r.user.index

(* Each request has its place, and is of a machine of the pool or the      *)
(* listener's.                                                             *)
LEMMA SubmissionPlaces ==
  ASSUME Before
  PROVE  \A k \in DOMAIN sq :
           /\ sq[k] \in Sqes /\ SqePlace(sq[k]) \in 0 .. NHandlers
           /\ SqePlace(sq[k]) # NHandlers =>
                /\ sq[k].user \in ConnHandles /\ sq[k] \in RequestsBy(sq[k].user)
                /\ sq[k].user.index = SqePlace(sq[k]) /\ Resolves(sq[k].user)
           /\ SqePlace(sq[k]) = NHandlers => sq[k] \in AcceptSqes
<1> SUFFICES ASSUME NEW k \in DOMAIN sq
             PROVE  /\ sq[k] \in Sqes /\ SqePlace(sq[k]) \in 0 .. NHandlers
                    /\ SqePlace(sq[k]) # NHandlers =>
                         /\ sq[k].user \in ConnHandles /\ sq[k] \in RequestsBy(sq[k].user)
                         /\ sq[k].user.index = SqePlace(sq[k]) /\ Resolves(sq[k].user)
                    /\ SqePlace(sq[k]) = NHandlers => sq[k] \in AcceptSqes
  OBVIOUS
<1> DEFINE r == sq[k]
<1>1. r \in Sqes
  BY DEF Before, TypeOK
<1>2. CASE r.op = "accept"
  BY <1>1, <1>2 DEF SqePlace, AcceptSqes
<1>3. CASE r.op # "accept"
  <2>1. r.user \in ConnHandles
    BY <1>1, <1>3 DEF Sqes, AcceptMulti
  <2>2. r.user.index \in 0 .. NHandlers - 1
    BY <2>1 DEF ConnHandles
  <2>3. r \in ToSet(sq)
    BY DEF ToSet
  <2>4. Task("sqe", r.user, r) \in Tasks /\ Task("sqe", r.user, r).user = r.user
    BY <2>3, TasksThere DEF Task
  <2>5. Resolves(r.user)
    BY <2>1, <2>4, TasksAreUnique, Zenon DEF OneTask, Before
  <2> QED
    BY <1>1, <1>3, <2>1, <2>2, <2>5 DEF SqePlace, RequestsBy
<1> QED
  BY <1>2, <1>3

(* Two requests have different places: with one place left, the queue has  *)
(* no more entries than there are handlers.                                *)
LEMMA SubmissionsFit ==
  ASSUME Before, ArmedOnce, NEW p \in 0 .. NHandlers, \A k \in DOMAIN sq : SqePlace(sq[k]) # p
  PROVE  Len(sq) <= NHandlers
<1> DEFINE T == (0 .. NHandlers) \ {p}
           f == [k \in DOMAIN sq |-> SqePlace(sq[k])]
<1>1. TypeOK /\ ExactlyOne /\ panic = "no" /\ sq \in Seq(Sqes)
  BY DEF Before, TypeOK
<1>2. f \in [DOMAIN sq -> T]
  BY SubmissionPlaces
<1>3. ASSUME NEW j \in DOMAIN sq, NEW k \in DOMAIN sq, f[j] = f[k]
      PROVE  j = k
  <2>1. CASE SqePlace(sq[j]) = NHandlers
    <3>1. sq[j] \in AcceptSqes /\ sq[k] \in AcceptSqes
      BY <1>3, <2>1, SubmissionPlaces
    <3>2. Count(sq, AcceptSqes) <= 1
      <4>1. Armed <= 1
        BY <1>1 DEF ArmedOnce
      <4> QED
        BY <1>1, <4>1, ArmedType DEF Armed
    <3> QED
      BY <1>1, <3>1, <3>2, CountOnce
  <2>2. CASE SqePlace(sq[j]) # NHandlers
    <3> DEFINE g == sq[j].user
               h == sq[k].user
    <3>1. SqePlace(sq[k]) = SqePlace(sq[j])
      BY <1>3
    <3>2. /\ g \in ConnHandles /\ sq[j] \in RequestsBy(g) /\ Resolves(g)
          /\ h \in ConnHandles /\ sq[k] \in RequestsBy(h) /\ Resolves(h)
          /\ g.index = h.index
      BY <2>2, <3>1, SubmissionPlaces
    <3>3. g = h
      BY <1>1, <3>2, SameIndexResolves
    <3>4. Count(sq, RequestsBy(g)) <= 1
      BY <1>1, <3>2, OnePlace
    <3> QED
      BY <1>1, <3>2, <3>3, <3>4, CountOnce
  <2> QED
    BY <2>1, <2>2
<1>4. IsFiniteSet(T) /\ Cardinality(T) = NHandlers
  <2>1. IsFiniteSet(0 .. NHandlers) /\ Cardinality(0 .. NHandlers) = NHandlers + 1
    BY FS_Interval
  <2>2. /\ IsFiniteSet((0 .. NHandlers) \ {p})
        /\ Cardinality((0 .. NHandlers) \ {p})
             = IF p \in 0 .. NHandlers THEN Cardinality(0 .. NHandlers) - 1 ELSE Cardinality(0 .. NHandlers)
    BY <2>1, FS_RemoveElement, Zenon
  <2>3. (NHandlers + 1) - 1 = NHandlers
    OBVIOUS
  <2> QED
    BY <2>1, <2>2, <2>3
<1>5. IsFiniteSet(DOMAIN sq) /\ Cardinality(DOMAIN sq) = Len(sq)
  BY <1>1, LengthCounts
<1> HIDE DEF f, T
<1>6. Cardinality(DOMAIN sq) <= Cardinality(T)
  BY <1>2, <1>3, <1>4, <1>5, FitsInto
<1> QED
  BY <1>4, <1>5, <1>6

(* So there is room for what the current machine asks for, as nothing else *)
(* is under way for it.                                                    *)
LEMMA CanSubmit ==
  ASSUME Before, ArmedOnce, SqEntries > NHandlers, intents # << >>,
         \/ current \in ConnHandles
         \/ Head(intents) = SubmitMultishotAccept
  PROVE  CanEnqueue
<1>1. TypeOK /\ ExactlyOne /\ panic = "no" /\ sq \in Seq(Sqes) /\ intents \in Seq(IntentsOf(current))
  BY DEF Before, TypeOK
<1>2. \E p \in 0 .. NHandlers : \A k \in DOMAIN sq : SqePlace(sq[k]) # p
  <2>1. CASE current \in ConnHandles
    <3> DEFINE p == current.index
    <3>1. p \in 0 .. NHandlers - 1
      BY <2>1 DEF ConnHandles
    <3>2. Resolves(current)
      BY <2>1, FirstIntent
    <3>3. Count(sq, RequestsBy(current)) = 0
      BY <1>1, <2>1, OnePlace
    <3>4. \A k \in DOMAIN sq : sq[k] \notin RequestsBy(current)
      BY <1>1, <3>3, CountType
    <3>5. ASSUME NEW k \in DOMAIN sq, SqePlace(sq[k]) = p PROVE FALSE
      <4>1. /\ sq[k].user \in ConnHandles /\ sq[k] \in RequestsBy(sq[k].user)
            /\ sq[k].user.index = p /\ Resolves(sq[k].user)
        BY <3>1, <3>5, SubmissionPlaces
      <4>2. sq[k].user = current
        BY <1>1, <2>1, <3>2, <4>1, SameIndexResolves
      <4> QED
        BY <3>4, <4>1, <4>2
    <3> QED
      BY <3>1, <3>5
  <2>2. CASE Head(intents) = SubmitMultishotAccept
    <3>1. current = TcpHandle /\ Head(intents) \in ArmingIntents
      <4>1. Head(intents).kind = "SubmitMultishotAccept"
        BY <2>2 DEF SubmitMultishotAccept, Intent
      <4> QED
        BY <1>1, <4>1, IntentKinds DEF ArmingIntents
    <3>2. Count(intents, ArmingIntents) # 0
      <4>1. 1 \in DOMAIN intents /\ intents[1] = Head(intents)
        BY <1>1
      <4> QED
        BY <1>1, <3>1, <4>1, CountType
    <3>3. Count(sq, AcceptSqes) = 0
      <4>1. Armed <= 1
        BY <1>1 DEF ArmedOnce
      <4> QED
        BY <1>1, <3>2, <4>1, ArmedType DEF Armed
    <3>4. \A k \in DOMAIN sq : sq[k] \notin AcceptSqes
      BY <1>1, <3>3, CountType
    <3> QED
      BY <3>4, SubmissionPlaces
  <2> QED
    BY <2>1, <2>2
<1>3. Len(sq) <= NHandlers
  BY <1>2, SubmissionsFit
<1> QED
  BY <1>1, <1>3 DEF CanEnqueue

-----------------------------------------------------------------------------
(* The connection pool: the free list has exactly the places without a     *)
(* machine, no two machines serve one slot, and a machine that is about to *)
(* be made finds its slot without one.                                     *)
ConnExact ==
  /\ NoRepeats(conn_alloc.free_list)
  /\ \A i \in 0 .. NHandlers - 1 : Occurs(conn_alloc.free_list, i) <=> ~Live(i)

SocketsDistinct ==
  \A i, j \in 0 .. NHandlers - 1 :
    Live(i) /\ Live(j) /\ conn_data[i].socket = conn_data[j].socket => i = j

SlotFree(s) == \A i \in 0 .. NHandlers - 1 : Live(i) => conn_data[i].socket # s

SpawnsFree == \A s \in Slots : Count(intents, SpawnsOf({s})) # 0 => SlotFree(s)

(* What a step may panic with, and where.                                  *)
LEMMA SpawnPanics ==
  ASSUME Before, ConnExact, SocketsDistinct, SpawnsFree, CompleteSpawn, panic' # "no"
  PROVE  panic' = "run queue full" /\ ~CanPush(current_run_queue)
<1> DEFINE id == AllocId(conn_alloc)
<1>1. /\ panic = "no" /\ TypeOK /\ intents # << >> /\ Head(intents).kind = "SpawnConnHandler"
  BY DEF Before, CompleteSpawn, AtIntent
<1>2. PICK s \in Slots : Head(intents) = SpawnConnHandler(s)
  <2>1. Head(intents) \in TcpIntents
    BY <1>1, IntentKinds
  <2> QED
    BY <1>1, <2>1 DEF TcpIntents, SubmitMultishotAccept, Intent
<1>3. SlotFree(s)
  <2>1. /\ intents \in Seq(IntentsOf(current))
        /\ 1 \in DOMAIN intents /\ intents[1] \in SpawnsOf({s})
    BY <1>1, <1>2 DEF TypeOK, SpawnsOf
  <2> QED
    BY <2>1, CountType, Zenon DEF SpawnsFree
<1>4. CanAlloc(conn_alloc)
  <2> SUFFICES ASSUME conn_alloc.free_list = << >> PROVE FALSE
    BY DEF CanAlloc
  <2>1. \A i \in 0 .. NHandlers - 1 : Live(i)
    BY DEF ConnExact, Occurs
  <2> DEFINE f == [i \in 0 .. NHandlers - 1 |-> conn_data[i].socket]
             T == Slots \ {s}
  <2>2. \A i \in 0 .. NHandlers - 1 : conn_data[i].socket \in T
    <3> TAKE i \in 0 .. NHandlers - 1
    <3>1. conn_data[i] \in ConnHandlers
      BY <1>1, <2>1 DEF TypeOK, Live
    <3> QED
      BY <1>3, <2>1, <3>1 DEF ConnHandlers, Machines, SlotFree
  <2>3. f \in [0 .. NHandlers - 1 -> T]
    BY <2>2
  <2>4. \A i, j \in 0 .. NHandlers - 1 : f[i] = f[j] => i = j
    BY <2>1 DEF SocketsDistinct
  <2>5. IsFiniteSet(0 .. NHandlers - 1) /\ Cardinality(0 .. NHandlers - 1) = NHandlers
    BY FS_Interval
  <2>6. IsFiniteSet(T) /\ Cardinality(T) = NHandlers - 1
    <3>1. /\ IsFiniteSet((0 .. NHandlers - 1) \ {s})
          /\ Cardinality((0 .. NHandlers - 1) \ {s}) =
               IF s \in 0 .. NHandlers - 1 THEN Cardinality(0 .. NHandlers - 1) - 1
               ELSE Cardinality(0 .. NHandlers - 1)
      BY <2>5, FS_RemoveElement, Zenon
    <3> QED
      BY <2>5, <3>1 DEF Slots
  <2> HIDE DEF f, T
  <2>7. Cardinality(0 .. NHandlers - 1) <= Cardinality(T)
    BY <2>3, <2>4, <2>5, <2>6, FitsInto
  <2> QED
    BY <2>5, <2>6, <2>7
<1>5. conn_data[id.index] = None
  <2>1. conn_alloc.free_list \in Seq(0 .. NHandlers - 1) /\ conn_alloc.free_list # << >>
    BY <1>1, <1>4 DEF TypeOK, GenAllocs, CanAlloc
  <2>2. id.index \in 0 .. NHandlers - 1 /\ Occurs(conn_alloc.free_list, id.index)
    BY <2>1 DEF AllocId, Occurs
  <2> QED
    BY <2>2 DEF ConnExact, Live
<1> QED
  BY <1>1, <1>4, <1>5 DEF CompleteSpawn, IntentDone, Crash

(* A request for which there is room is submitted without a panic.         *)
LEMMA EnqueueRuns ==
  ASSUME Before, CanEnqueue, NEW r, EnqueueFor(r)
  PROVE  panic' = "no"
BY DEF Before, EnqueueFor, IntentDone

(* No intent that submits finds the queue full, its offset past the buffer *)
(* or its buffer given back (executor/mod.rs:139, 153-182).                 *)
LEMMA RequestPanics ==
  ASSUME Before, ArmedOnce, SqEntries > NHandlers, MaxStream < BufSize,
         CompleteAccept \/ CompleteRecv \/ CompleteClose
  PROVE  panic' = "no"
<1>1. TypeOK /\ intents # << >>
  BY DEF Before, CompleteAccept, CompleteRecv, CompleteClose, AtIntent
<1>2. CASE CompleteAccept
  <2>1. Head(intents) = SubmitMultishotAccept
    <3>1. Head(intents).kind = "SubmitMultishotAccept" /\ Head(intents) \in TcpIntents
      BY <1>1, <1>2, IntentKinds DEF CompleteAccept, AtIntent
    <3> QED
      BY <3>1 DEF TcpIntents, SpawnConnHandler, Intent
  <2>2. CanEnqueue
    BY <1>1, <2>1, CanSubmit
  <2> QED
    BY <1>2, <2>2, EnqueueRuns DEF CompleteAccept
<1>3. CASE CompleteClose
  <2>1. current \in ConnHandles
    BY <1>1, <1>3, IntentKinds DEF CompleteClose, AtIntent
  <2>2. CanEnqueue
    BY <1>1, <2>1, CanSubmit
  <2> QED
    BY <1>3, <2>2, EnqueueRuns DEF CompleteClose
<1>4. CASE CompleteRecv
  <2> DEFINE x == Head(intents)
             m == conn_data[current.index]
  <2>1. current \in ConnHandles /\ x.kind = "SubmitRecv"
    BY <1>1, <1>4, IntentKinds DEF CompleteRecv, AtIntent
  <2>2. CanEnqueue
    BY <1>1, <2>1, CanSubmit
  <2>3. /\ current.index \in 0 .. NHandlers - 1 /\ Live(current.index) /\ m \in ConnHandlers
        /\ IntentSuits(m, x) /\ Sound(current.index)
    BY <1>1, <2>1, FirstIntent
  <2>4. m.state = "Recv" /\ Reading(m) /\ x = Recv(m)
    BY <2>1, <2>3, DifferentIntents DEF IntentSuits
  <2>5. m.peer \in Conns
    BY <2>3 DEF Sound
  <2>6. m.offset < BufSize
    <3>1. sent[m.peer] \in 0 .. MaxStream
      BY <1>1, <2>5 DEF TypeOK
    <3> QED
      BY <2>4, <3>1 DEF Reading
  <2>7. IsValid(io_bufs, m.buf_handle)
    BY <2>3, <2>4, HoldsBuffer
  <2>8. x.off = m.offset /\ x.buf = m.buf_handle
    BY <2>4 DEF Recv, SubmitRecv, Intent
  <2>9. ~(x.off >= BufSize)
    <3>1. m.offset \in Nat
      BY <2>3 DEF ConnHandlers, Machines
    <3> QED
      BY <2>6, <2>8, <3>1
  <2> HIDE DEF m
  <2>10. \E r : EnqueueFor(r)
    BY <1>4, <2>7, <2>8, <2>9, Zenon DEF CompleteRecv
  <2> QED
    BY <2>2, <2>10, EnqueueRuns
<1> QED
  BY <1>2, <1>3, <1>4

(* The listener panics only when it meets an event it has no arm for.      *)
LEMMA ListenerPanics ==
  ASSUME Before, DispatchTcp \/ DispatchMissing, panic' # "unreachable"
  PROVE  panic' = "no"
BY DEF Before, DispatchTcp, DispatchMissing, TcpProcessEvent, OnListen, OnAccepted, OnAcceptErr,
       OnTcpUnexpected

(* A machine panics only when the generation of its buffer has run out.    *)
LEMMA MachinePanics ==
  ASSUME Before, NoneFatal, DispatchConn, panic' # "no", panic' # "unreachable"
  PROVE  /\ panic' = "generation overflow"
         /\ \E i \in Receiving : FreePanics(io_bufs, conn_data[i].buf_handle)
<1> DEFINE i == NextEvent.handle.index
           e == NextEvent.reason
           h == conn_data[i]
<1>1. TypeOK /\ panic = "no" /\ Pop /\ ConnProcessEvent(i, e)
  BY DEF Before, DispatchConn
<1>2. NextEvent \in WayEvents /\ NextEvent \in RunQueueEvents
  <2>1. run_queues[current_run_queue] \in Seq(RunQueueEvents) /\ run_queues[current_run_queue] # << >>
    BY <1>1 DEF TypeOK, Pop
  <2>2. NextEvent \in ToSet(run_queues[current_run_queue]) /\ NextEvent \in RunQueueEvents
    BY <2>1, EntriesOf, PopType DEF NextEvent
  <2>3. current_run_queue \in {0, 1}
    BY <1>1 DEF TypeOK
  <2> QED
    BY <2>2, <2>3 DEF WayEvents
<1>3. NextEvent.handle \in ConnHandles /\ e \in Events(Int)
  BY <1>2, EventKinds DEF DispatchConn
<1>4. EventTask(NextEvent) \in Tasks /\ EventTask(NextEvent).user = NextEvent.handle
  BY <1>2, TasksThere DEF EventTask, Task
<1>5. /\ i \in 0 .. NHandlers - 1 /\ Live(i) /\ h \in ConnHandlers
      /\ EventSuits(h, NextEvent)
  <2>1. /\ i \in 0 .. NHandlers - 1 /\ Live(i) /\ h \in ConnHandlers /\ Suits(EventTask(NextEvent))
    BY <1>3, <1>4, TaskMachine DEF Before
  <2> QED
    BY <1>3, <2>1 DEF Suits, EventTask, Task
<1>6. ~FatalEvent(NextEvent)
  BY <1>2 DEF NoneFatal
<1>7. e.kind = "IoCompleted" => ~IsSpawn(NextEvent)
  BY DEF IsSpawn
<1>8. h.state = "Recv" => IsValid(io_bufs, h.buf_handle) /\ i \in Receiving
  <2>1. h.state = "Recv" => IsValid(io_bufs, h.buf_handle)
    BY <1>5, HoldsBuffer
  <2> QED
    BY <1>5, <2>1 DEF Receiving
<1> HIDE DEF e, h
<1>9. CASE OnUnexpected(i)
  BY <1>1, <1>9 DEF OnUnexpected
<1>10. CASE ConnExpects(i, e)
  <2>1. CASE OnInit(i) \/ OnRecvRetryErr(i, e.res) \/ OnRecvOtherErr(i, e.res) \/ OnClosed(i, e.res)
    BY <1>1, <2>1 DEF OnInit, OnRecvRetryErr, OnRecvOtherErr, OnClosed
  <2>2. CASE OnRecvData(i, e.res)
    BY <1>1, <1>8, <2>2 DEF OnRecvData, h
  <2>3. CASE OnRecvFatalErr(i, e.res)
    <3>1. ~IsSpawn(NextEvent)
      BY <1>7, <1>10, <2>3 DEF ConnExpects, OnRecvFatalErr
    <3> QED
      BY <1>3, <1>6, <2>3, <3>1 DEF FatalEvent, OnRecvFatalErr, e
  <2>4. CASE OnRecvEof(i, e.res) \/ OnRecvCloseErr(i, e.res)
    <3>1. h.state = "Recv" /\ Close(i)
      BY <2>4 DEF OnRecvEof, OnRecvCloseErr, h
    <3>2. i \in Receiving
      BY <1>8, <3>1
    <3>3. panic' = "generation overflow" /\ ClosePanics(h)
      BY <1>1, <3>1 DEF Close, h
    <3> QED
      BY <3>2, <3>3 DEF ClosePanics, h
  <2>5. CASE OnCloseFailed(i, e.res)
    <3>1. h.state = "Closing" /\ e.res # 0
      BY <2>5 DEF OnCloseFailed, h
    <3>2. ~IsSpawn(NextEvent)
      BY <1>7, <1>10, <3>1 DEF ConnExpects, h
    <3> QED
      BY <1>5, <3>1, <3>2 DEF EventSuits, Arrived, e
  <2> QED
    BY <1>1, <1>10, <2>1, <2>2, <2>3, <2>4, <2>5, Zenon DEF ConnProcessEvent
<1> QED
  BY <1>1, <1>9, <1>10, Zenon DEF ConnProcessEvent

-----------------------------------------------------------------------------
(* Something is under way for every machine.                               *)
LEMMA SomeTask ==
  ASSUME TypeOK, ExactlyOne, panic = "no", NEW h \in ConnHandles, Resolves(h)
  PROVE  \E t \in Tasks : t.user = h
<1>1. /\ run_queues[0] \in Seq(RunQueueEvents) /\ run_queues[1] \in Seq(RunQueueEvents)
      /\ sq \in Seq(Sqes) /\ reads \in Seq(Reads) /\ cq \in Seq(Cqes)
      /\ intents \in Seq(IntentsOf(current))
  BY DEF TypeOK
<1>2. PICK a, b, c, d, e \in Nat :
        /\ a = Count(run_queues[0], EventsFor(h)) /\ b = Count(run_queues[1], EventsFor(h))
        /\ c = Count(sq, RequestsBy(h)) /\ d = Count(reads, RequestsBy(h))
        /\ e = Count(cq, RequestsBy(h))
  BY <1>1, CountType, Zenon
<1>3. PICK n \in Nat : n = IF current = h THEN Len(intents) ELSE 0
  BY <1>1
<1>4. UnderWay(h) = 1
  BY DEF ExactlyOne
<1>5. UnderWay(h) = (a + b) + (c + d + e) + n
  BY <1>2, <1>3 DEF UnderWay, InQueues, OfQueues, InRing
<1>6. a # 0 \/ b # 0 \/ c # 0 \/ d # 0 \/ e # 0 \/ n # 0
  BY <1>4, <1>5
<1>7. ASSUME NEW q \in {0, 1}, Count(run_queues[q], EventsFor(h)) # 0
      PROVE  \E t \in Tasks : t.user = h
  <2>1. PICK k \in DOMAIN run_queues[q] : run_queues[q][k] \in EventsFor(h)
    BY <1>1, <1>7, CountType, Zenon
  <2>2. run_queues[q][k] \in WayEvents /\ run_queues[q][k].handle = h
    BY <1>7, <2>1 DEF WayEvents, ToSet, EventsFor
  <2> QED
    BY <2>2, TasksThere DEF EventTask, Task
<1>8. CASE c # 0
  <2>1. PICK k \in DOMAIN sq : sq[k] \in RequestsBy(h)
    BY <1>1, <1>2, <1>8, CountType, Zenon
  <2>2. sq[k] \in ToSet(sq) /\ sq[k].user = h
    BY <2>1 DEF ToSet, RequestsBy
  <2> QED
    BY <2>2, TasksThere DEF Task
<1>9. CASE d # 0
  <2>1. PICK k \in DOMAIN reads : reads[k] \in RequestsBy(h)
    BY <1>1, <1>2, <1>9, CountType, Zenon
  <2>2. reads[k] \in ToSet(reads) /\ reads[k].user = h
    BY <2>1 DEF ToSet, RequestsBy
  <2> QED
    BY <2>2, TasksThere DEF Task
<1>10. CASE e # 0
  <2>1. PICK k \in DOMAIN cq : cq[k] \in RequestsBy(h)
    BY <1>1, <1>2, <1>10, CountType, Zenon
  <2>2. cq[k] \in ToSet(cq) /\ cq[k] \in Cqes /\ cq[k].user = h
    BY <1>1, <2>1 DEF ToSet, RequestsBy
  <2>3. EventOf(cq[k]) \in WayEvents /\ EventOf(cq[k]).handle = h
    BY <2>2, EventOfType DEF WayEvents
  <2> QED
    BY <2>3, TasksThere DEF EventTask, Task
<1>11. CASE n # 0
  <2>1. current = h /\ 1 \in DOMAIN intents
    BY <1>1, <1>3, <1>11
  <2>2. intents[1] \in ToSet(intents)
    BY <2>1 DEF ToSet
  <2> QED
    BY <2>1, <2>2, TasksThere DEF Task
<1> QED
  BY <1>2, <1>6, <1>7, <1>8, <1>9, <1>10, <1>11

(* No accept of R is on its way.                                           *)
LEMMA NoneIncoming ==
  ASSUME TypeOK, NEW R, Incoming(R) = 0
  PROVE  Nowhere(AcceptsOf(R)) /\ NoneIn(intents, SpawnsOf(R))
<1>1. /\ ThisQueue \in Seq(RunQueueEvents) /\ NextQueue \in Seq(RunQueueEvents)
      /\ Posted \in Seq(RunQueueEvents) /\ intents \in Seq(IntentsOf(current))
  BY WayTypes DEF TypeOK
<1>2. PICK a, b, c, d \in Nat :
        /\ a = Count(ThisQueue, AcceptsOf(R)) /\ b = Count(NextQueue, AcceptsOf(R))
        /\ c = Count(Posted, AcceptsOf(R)) /\ d = Count(intents, SpawnsOf(R))
  BY <1>1, CountType, Zenon
<1>3. a + b + c + d = 0
  BY <1>2 DEF Incoming, OnWay
<1>4. a = 0 /\ b = 0 /\ c = 0 /\ d = 0
  BY <1>3
<1> QED
  BY <1>1, <1>2, <1>4, CountType, Zenon DEF Nowhere, NoneIn

-----------------------------------------------------------------------------
(* The completions of machine i, and the order of what is on its way for   *)
(* a slot: when the slot's machine has a completion under way, no accept   *)
(* of the slot is ahead of it.                                             *)
DoneEvents(h) == {e \in EventsFor(h) : ~IsSpawn(e)}

(* An accept that gives a slot away again comes behind the last completion *)
(* of the machine that had it.                                             *)
SlotOrder ==
  \A i \in 0 .. NHandlers - 1 :
    Live(i) => InOrder(AcceptsOf({conn_data[i].socket}), DoneEvents(HandleOf(i)))

(* A machine whose close has not completed, with nothing to be drained,    *)
(* has its connection in its slot.                                         *)
LEMMA TaskConnected ==
  ASSUME Before, NEW h \in ConnHandles, Resolves(h), intents = << >>,
         \A e \in WayEvents : e \notin DoneEvents(h)
  PROVE  files[conn_data[h.index].socket] = conn_data[h.index].peer
<1>1. PICK t \in Tasks : t.user = h
  BY SomeTask DEF Before
<1> DEFINE m == conn_data[h.index]
<1>2. /\ h.index \in 0 .. NHandlers - 1 /\ Live(h.index) /\ m \in ConnHandlers
      /\ Suits(t) /\ Sound(h.index)
  BY <1>1, TaskMachine DEF Before
<1>3. m.state \in {"Init", "Recv"} => files[m.socket] = m.peer
  BY <1>2, Zenon DEF Sound
<1>4. CASE t \in QueueTasks(0) \cup QueueTasks(1) \cup PostedTasks
  <2>1. PICK e \in WayEvents : t = EventTask(e)
    BY <1>4 DEF QueueTasks, PostedTasks, WayEvents
  <2>2. e \in RunQueueEvents /\ e.handle = h /\ EventSuits(m, e)
    <3>1. e \in RunQueueEvents
      BY EventOfType DEF Before, TypeOK, WayEvents, ToSet
    <3> QED
      BY <1>1, <1>2, <2>1, <3>1, Zenon DEF Suits, EventTask, Task
  <2>3. IsSpawn(e)
    BY <2>2 DEF DoneEvents, EventsFor
  <2> QED
    BY <1>3, <2>2, <2>3 DEF EventSuits
<1>5. CASE t \in SqeTasks
  <2>1. PICK r \in ToSet(sq) : t = Task("sqe", r.user, r)
    BY <1>5 DEF SqeTasks
  <2>2. SqeSuits(m, r)
    BY <1>1, <1>2, <2>1 DEF Suits, Task
  <2> QED
    BY <1>3, <2>2 DEF SqeSuits, ReadSuits, CloseSuits
<1>6. CASE t \in ReadTasks
  <2>1. PICK r \in ToSet(reads) : t = Task("read", r.user, r)
    BY <1>6 DEF ReadTasks
  <2>2. ReadSuits(m, r)
    BY <1>1, <1>2, <2>1 DEF Suits, Task
  <2> QED
    BY <1>3, <2>2 DEF ReadSuits
<1>7. t \notin IntentTasks
  BY DEF IntentTasks, ToSet
<1> QED
  BY <1>1, <1>4, <1>5, <1>6, <1>7 DEF Tasks

(* When the listener takes an accept of a slot, the machine that had the   *)
(* slot has gone.                                                          *)
LEMMA AcceptedIsFree ==
  ASSUME Before, SlotOrder, DispatchTcp, NEW s \in Slots, NextEvent \in AcceptsOf({s})
  PROVE  SlotFree(s)
<1> SUFFICES ASSUME NEW i \in 0 .. NHandlers - 1, Live(i), conn_data[i].socket = s PROVE FALSE
  BY DEF SlotFree
<1>1. TypeOK /\ World /\ pc = "drain" /\ ThisQueue # << >> /\ NextEvent = Head(ThisQueue)
  BY DEF Before, Core, DispatchTcp, Pop, ThisQueue, NextEvent
<1>2. intents = << >> /\ ThisQueue \in Seq(RunQueueEvents)
  BY <1>1, WayTypes DEF TypeOK
<1>3. 1 \in DOMAIN ThisQueue /\ ThisQueue[1] = NextEvent
  BY <1>1, <1>2
<1>4. Incoming({s}) # 0
  <2>1. ~Nowhere(AcceptsOf({s}))
    BY <1>3 DEF Nowhere, NoneIn
  <2> QED
    BY <1>1, <2>1, NoneIncoming
<1>5. Unserved(files[s])
  BY <1>1, <1>4, Zenon DEF World, ComingSound
<1>6. PICK h \in ConnHandles : h = HandleOf(i)
  BY <1>1, HandleType
<1>7. Resolves(h) /\ h.index = i
  BY <1>6 DEF HandleOf, ObjectHandle, Resolves
<1>8. InOrder(AcceptsOf({s}), DoneEvents(h))
  BY <1>6 DEF SlotOrder
<1>9. NextEvent \notin DoneEvents(h)
  BY HandleKinds DEF AcceptsOf, TcpCompletions, DoneEvents, EventsFor
<1>10. NoneIn(ThisQueue, DoneEvents(h)) /\ NoneIn(NextQueue, DoneEvents(h)) /\ NoneIn(Posted, DoneEvents(h))
  <2>1. ~NoneIn(ThisQueue, AcceptsOf({s}))
    BY <1>3 DEF NoneIn
  <2>2. \A k \in DOMAIN ThisQueue : k # 1 => ThisQueue[k] \notin DoneEvents(h)
    <3>1. Sorted(ThisQueue, AcceptsOf({s}), DoneEvents(h))
      BY <1>8 DEF InOrder
    <3>2. DOMAIN ThisQueue = 1 .. Len(ThisQueue) /\ Len(ThisQueue) \in Nat
      BY <1>2
    <3>3. \A k \in DOMAIN ThisQueue : k # 1 => 1 < k
      BY <3>2
    <3> QED
      BY <1>3, <3>1, <3>3 DEF Sorted
  <2> QED
    BY <1>3, <1>8, <1>9, <2>1, <2>2 DEF InOrder, NoneIn
<1>11. \A e \in WayEvents : e \notin DoneEvents(h)
  BY <1>1, <1>10, ThisAndNext DEF NoneIn, ToSet
<1>12. files[s] = conn_data[i].peer
  BY <1>2, <1>7, <1>11, TaskConnected
<1> QED
  BY <1>5, <1>12 DEF Unserved

-----------------------------------------------------------------------------
(* Machines come and go in two steps only, and keep their slots.           *)
LEMMA PlacesKept ==
  ASSUME Before, After, [Next]_vars, ~CompleteSpawn, ~CompleteTerminate
  PROVE  /\ conn_alloc' = conn_alloc
         /\ \A i \in 0 .. NHandlers - 1 :
              /\ Live(i)' <=> Live(i)
              /\ Live(i) => conn_data'[i].socket = conn_data[i].socket
<1>1. CASE UNCHANGED <<conn_alloc, conn_data>>
  BY <1>1 DEF Live
<1>2. CASE DispatchConn
  <2> DEFINE h == NextEvent.handle
  <2>1. /\ conn_alloc' = conn_alloc /\ Finds(h) /\ ConnProcessEvent(h.index, NextEvent.reason)
        /\ Pop /\ TypeOK /\ panic' = "no"
    BY <1>2 DEF DispatchConn, Pop, Before, After
  <2>2. h \in ConnHandles /\ NextEvent.reason \in Events(Int)
    BY <1>2, <2>1, PopEventType, EventKinds DEF DispatchConn
  <2>3. PICK i \in 0 .. NHandlers - 1 : i = h.index
    BY <2>2 DEF ConnHandles
  <2>4. conn_data[i] \in ConnHandlers
    BY <2>1, <2>3 DEF Finds, TypeOK
  <2>5. PICK e \in Events(Int) : e = NextEvent.reason
    BY <2>2
  <2> HIDE DEF h
  <2>6. PICK g \in ConnHandlers :
          conn_data' = [conn_data EXCEPT ![i] = g] /\ g.socket = conn_data[i].socket
    BY <2>1, <2>3, <2>4, <2>5, ArmAnswers
  <2>7. g # None
    BY MachineAssumption
  <2>8. conn_data'[i] = g /\ \A j \in (0 .. NHandlers - 1) \ {i} : conn_data'[j] = conn_data[j]
    BY <2>1, <2>6 DEF TypeOK
  <2>9. conn_data[i] # None
    BY <2>4, MachineAssumption
  <2> QED
    BY <2>1, <2>6, <2>7, <2>8, <2>9, Zenon DEF Live
<1>3. CASE DispatchTcp \/ DispatchMissing
  BY <1>1, <1>3 DEF DispatchTcp, DispatchMissing, Pop
<1>4. \A site : Crash(site) => UNCHANGED <<conn_alloc, conn_data>>
  BY DEF Crash, machineVars
<1>5. \A r : EnqueueFor(r) => UNCHANGED <<conn_alloc, conn_data>>
  BY <1>4 DEF EnqueueFor
<1>6. CASE CompleteRetry \/ CompleteAccept \/ CompleteRecv \/ CompleteClose
  BY <1>1, <1>4, <1>5, <1>6, Zenon DEF CompleteRetry, CompleteAccept, CompleteRecv, CompleteClose
<1>7. CASE \/ DrainDone \/ IntentsDone \/ SubmitShortcut \/ SubmitEnter \/ EnterReturns
           \/ EnterError \/ Reap \/ ReapDone \/ UNCHANGED vars
  BY <1>1, <1>4, <1>7 DEF DrainDone, IntentsDone, SubmitShortcut, SubmitEnter, EnterReturns,
     EnterError, Reap, ReapDone, vars, machineVars
<1>8. CASE KernelStep
  BY <1>1, <1>8 DEF KernelStep, EnterIssues, KernelAccepts, KernelRefuses, KernelReads, KernelFails,
       KernelEnds, ProgramUnchanged, machineVars
<1> QED
  BY <1>2, <1>3, <1>6, <1>7, <1>8 DEF Next, Thread, KernelStep

(* The machine that terminates leaves the pool, ...                        *)
LEMMA TerminatePlaces ==
  ASSUME Before, After, CompleteTerminate
  PROVE  /\ current \in ConnHandles /\ current.index \in 0 .. NHandlers - 1
         /\ Resolves(current) /\ Live(current.index) /\ ~FreePanics(conn_alloc, current)
         /\ IsValid(conn_alloc, current) /\ conn_alloc' = AfterFree(conn_alloc, current)
         /\ conn_data' = [conn_data EXCEPT ![current.index] = None]
         /\ conn_data'[current.index] = None
         /\ \A j \in (0 .. NHandlers - 1) \ {current.index} : conn_data'[j] = conn_data[j]
<1>1. /\ current \in ConnHandles /\ Head(intents) = Terminate
      /\ ~FreePanics(conn_alloc, current)
      /\ conn_alloc' = AfterFree(conn_alloc, current)
      /\ conn_data' = IF IsValid(conn_alloc, current)
                      THEN [conn_data EXCEPT ![current.index] = None] ELSE conn_data
      /\ intents # << >>
  BY TerminateStep DEF Before, After
<1>2. current.index \in 0 .. NHandlers - 1 /\ Resolves(current) /\ Live(current.index)
  BY <1>1, FirstIntent
<1>3. IsValid(conn_alloc, current)
  BY <1>2 DEF Resolves, IsValid, Before, TypeOK, GenAllocs
<1>4. /\ conn_data'[current.index] = None
      /\ \A j \in (0 .. NHandlers - 1) \ {current.index} : conn_data'[j] = conn_data[j]
  BY <1>1, <1>2, <1>3 DEF Before, TypeOK
<1> QED
  BY <1>1, <1>2, <1>3, <1>4

(* ... and the new one takes a place in it.                                *)
LEMMA SpawnPlaces ==
  ASSUME Before, After, CompleteSpawn
  PROVE  \E i \in 0 .. NHandlers - 1 : \E s \in Slots :
           /\ Head(intents) = SpawnConnHandler(s) /\ intents # << >> /\ intents' = Tail(intents)
           /\ CanAlloc(conn_alloc) /\ i = Head(conn_alloc.free_list) /\ ~Live(i)
           /\ conn_alloc' = AfterAlloc(conn_alloc)
           /\ Live(i)' /\ conn_data'[i].socket = s
           /\ \A j \in (0 .. NHandlers - 1) \ {i} : conn_data'[j] = conn_data[j]
<1>1. TypeOK /\ panic' = "no"
  BY DEF Before, After
<1>2. PICK i \in 0 .. NHandlers - 1, s \in Slots :
        /\ Head(intents) = SpawnConnHandler(s)
        /\ CanAlloc(conn_alloc) /\ i = Head(conn_alloc.free_list) /\ ~Live(i)
        /\ conn_alloc' = AfterAlloc(conn_alloc)
        /\ conn_data' = [conn_data EXCEPT ![i] = NewConnHandler(s, files[s])]
        /\ intents # << >> /\ IntentDone
  BY <1>1, SpawnStep
<1>3. /\ conn_data'[i] = NewConnHandler(s, files[s])
      /\ \A j \in (0 .. NHandlers - 1) \ {i} : conn_data'[j] = conn_data[j]
  BY <1>1, <1>2 DEF TypeOK
<1>4. NewConnHandler(s, files[s]) \in ConnHandlers
  BY <1>1, NewMachineType DEF TypeOK
<1>5. Live(i)' /\ conn_data'[i].socket = s
  BY <1>3, <1>4, MachineAssumption DEF Live, NewConnHandler
<1> QED
  BY <1>2, <1>3, <1>5, Zenon DEF IntentDone

(* The pool's free list stays exact: a spawn takes its head, a despawn     *)
(* appends the index.                                                      *)
LEMMA NextConnExact ==
  ASSUME Before, After, [Next]_vars, ConnExact
  PROVE  ConnExact'
<1> DEFINE l == conn_alloc.free_list
<1>1. l \in Seq(0 .. NHandlers - 1) /\ conn_alloc \in GenAllocs(NHandlers)
  BY DEF Before, TypeOK, GenAllocs
<1>2. NoRepeats(l) /\ \A i \in 0 .. NHandlers - 1 : Occurs(l, i) <=> ~Live(i)
  BY DEF ConnExact
<1>3. ASSUME NoRepeats(l'), \A i \in 0 .. NHandlers - 1 : Occurs(l', i) <=> ~Live(i)'
      PROVE  ConnExact'
  BY <1>3 DEF ConnExact
<1>4. CASE CompleteSpawn
  <2>1. PICK i \in 0 .. NHandlers - 1 :
          /\ CanAlloc(conn_alloc) /\ i = Head(l)
          /\ conn_alloc' = AfterAlloc(conn_alloc) /\ Live(i)'
          /\ \A j \in (0 .. NHandlers - 1) \ {i} : conn_data'[j] = conn_data[j]
    BY <1>4, SpawnPlaces
  <2>2. l' = Tail(l) /\ l # << >>
    BY <1>1, <2>1 DEF AfterAlloc, CanAlloc, GenAllocs
  <2>3. \A j \in (0 .. NHandlers - 1) \ {i} : Live(j)' <=> Live(j)
    BY <2>1 DEF Live
  <2> HIDE DEF l
  <2>4. NoRepeats(Tail(l)) /\ \A e : Occurs(Tail(l), e) <=> Occurs(l, e) /\ e # i
    BY <1>1, <1>2, <2>1, <2>2, PopExact
  <2> QED
    BY <1>2, <1>3, <2>1, <2>2, <2>3, <2>4, Zenon
<1>5. CASE CompleteTerminate
  <2>1. PICK i \in 0 .. NHandlers - 1 :
          /\ i = current.index /\ Live(i)
          /\ IsValid(conn_alloc, current) /\ conn_alloc' = AfterFree(conn_alloc, current)
          /\ conn_data'[i] = None
          /\ \A j \in (0 .. NHandlers - 1) \ {i} : conn_data'[j] = conn_data[j]
    BY <1>5, TerminatePlaces
  <2>2. l' = Append(l, i)
    BY <1>1, <2>1 DEF AfterFree
  <2>3. ~Live(i)' /\ \A j \in (0 .. NHandlers - 1) \ {i} : Live(j)' <=> Live(j)
    BY <2>1 DEF Live
  <2> HIDE DEF l
  <2>4. NoRepeats(Append(l, i)) /\ \A f : Occurs(Append(l, i), f) <=> Occurs(l, f) \/ f = i
    BY <1>1, <1>2, <2>1, PushExact
  <2> QED
    BY <1>2, <1>3, <2>2, <2>3, <2>4, Zenon
<1>6. CASE ~CompleteSpawn /\ ~CompleteTerminate
  <2>1. l' = l /\ \A i \in 0 .. NHandlers - 1 : Live(i)' <=> Live(i)
    BY <1>6, PlacesKept
  <2> HIDE DEF l
  <2> QED
    BY <1>2, <1>3, <2>1, Zenon
<1> QED
  BY <1>4, <1>5, <1>6

(* A slot that no machine has gets one from a spawn only.                  *)
LEMMA SlotStaysFree ==
  ASSUME Before, After, [Next]_vars, NEW s \in Slots, SlotFree(s),
         ~(CompleteSpawn /\ Head(intents) = SpawnConnHandler(s))
  PROVE  SlotFree(s)'
<1>1. CASE CompleteSpawn
  <2>1. PICK i \in 0 .. NHandlers - 1, t \in Slots :
          /\ Head(intents) = SpawnConnHandler(t) /\ conn_data'[i].socket = t
          /\ \A j \in (0 .. NHandlers - 1) \ {i} : conn_data'[j] = conn_data[j]
    BY <1>1, SpawnPlaces
  <2>2. t # s
    BY <1>1, <2>1
  <2> QED
    BY <2>1, <2>2 DEF SlotFree, Live
<1>2. CASE CompleteTerminate
  BY <1>2, TerminatePlaces DEF SlotFree, Live
<1>3. CASE ~CompleteSpawn /\ ~CompleteTerminate
  <2>1. \A i \in 0 .. NHandlers - 1 : 
          (Live(i)' <=> Live(i)) /\ (Live(i) => conn_data'[i].socket = conn_data[i].socket)
    BY <1>3, PlacesKept
  <2> QED
    BY <2>1, Zenon DEF SlotFree
<1> QED
  BY <1>1, <1>2, <1>3

(* No two machines come to have one slot: a machine is made for a slot     *)
(* that none has.                                                          *)
LEMMA NextSocketsDistinct ==
  ASSUME Before, After, [Next]_vars, SocketsDistinct, SpawnsFree
  PROVE  SocketsDistinct'
<1>1. CASE CompleteSpawn
  <2>1. PICK i \in 0 .. NHandlers - 1, s \in Slots :
          /\ Head(intents) = SpawnConnHandler(s) /\ intents # << >> /\ conn_data'[i].socket = s
          /\ \A j \in (0 .. NHandlers - 1) \ {i} : conn_data'[j] = conn_data[j]
    BY <1>1, SpawnPlaces
  <2>2. SlotFree(s)
    <3>1. /\ intents \in Seq(IntentsOf(current))
          /\ 1 \in DOMAIN intents /\ intents[1] \in SpawnsOf({s})
      BY <2>1 DEF Before, TypeOK, SpawnsOf
    <3> QED
      BY <3>1, CountType, Zenon DEF SpawnsFree
  <2>3. \A j \in (0 .. NHandlers - 1) \ {i} : Live(j)' => Live(j) /\ conn_data'[j].socket # s
    BY <2>1, <2>2 DEF SlotFree, Live
  <2> QED
    BY <2>1, <2>3, Zenon DEF SocketsDistinct
<1>2. CASE CompleteTerminate
  BY <1>2, TerminatePlaces DEF SocketsDistinct, Live
<1>3. CASE ~CompleteSpawn /\ ~CompleteTerminate
  <2>1. \A i \in 0 .. NHandlers - 1 : 
          (Live(i)' <=> Live(i)) /\ (Live(i) => conn_data'[i].socket = conn_data[i].socket)
    BY <1>3, PlacesKept
  <2> QED
    BY <2>1, Zenon DEF SocketsDistinct
<1> QED
  BY <1>1, <1>2, <1>3

-----------------------------------------------------------------------------
(* An event that is popped is dispatched.                                  *)
LEMMA PopDispatches ==
  ASSUME TypeOK, [Next]_vars, Pop
  PROVE  DispatchTcp \/ DispatchConn \/ DispatchMissing
<1>1. pc = "drain" /\ pc' = "intents" /\ run_queues' # run_queues
  <2>1. run_queues[current_run_queue] # << >> /\ run_queues \in [{0, 1} -> Seq(RunQueueEvents)]
        /\ current_run_queue \in {0, 1}
    BY DEF Pop, TypeOK
  <2>2. Tail(run_queues[current_run_queue]) # run_queues[current_run_queue]
    BY <2>1, TailShorter
  <2> QED
    BY <2>1, <2>2 DEF Pop
<1> QED
  BY <1>1 DEF Next, Thread, vars, loopVars, At, AtIntent, DrainDone,
     CompleteRetry, CompleteAccept, CompleteSpawn, CompleteRecv, CompleteClose,
     CompleteTerminate, IntentsDone, SubmitShortcut, SubmitEnter, EnterIssues, EnterReturns,
     EnterError, Reap, ReapDone, KernelAccepts, KernelRefuses, KernelReads, KernelFails,
     KernelEnds, ProgramUnchanged

(* A spawn is asked for by the listener, for an accept that it has taken.  *)
LEMMA NextSpawns ==
  ASSUME TypeOK, TypeOK', [Next]_vars, NEW R, Count(intents', SpawnsOf(R)) # 0
  PROVE  \/ Count(intents, SpawnsOf(R)) # 0
         \/ DispatchTcp /\ NextEvent \in AcceptsOf(R)
<1>1. intents \in Seq(IntentsOf(current)) /\ intents' \in Seq(IntentsOf(current'))
  BY DEF TypeOK
<1>2. CASE Pop
  <2>1. CASE DispatchTcp
    BY <2>1, ListenerSpawns, Zenon
  <2>2. CASE DispatchConn \/ DispatchMissing
    <3>1. current' \in ConnHandles
      BY <1>2, <2>2, PopEventType, EventKinds DEF DispatchConn, DispatchMissing
    <3> QED
      BY <3>1, MachinesSpawnNothing, Zenon
  <2> QED
    BY <1>2, <2>1, <2>2, PopDispatches
<1>3. CASE ~Pop
  <2>1. PICK k \in DOMAIN intents' : intents'[k] \in SpawnsOf(R)
    BY <1>1, CountType, Zenon
  <2>2. \E j \in DOMAIN intents : intents[j] \in SpawnsOf(R)
    <3>1. CASE intents' = intents
      BY <2>1, <3>1
    <3>2. CASE intents # << >> /\ intents' = Tail(intents)
      <4>1. k + 1 \in DOMAIN intents /\ intents[k + 1] = intents'[k]
        BY <1>1, <2>1, <3>2
      <4> QED
        BY <2>1, <4>1
    <3> QED
      BY <1>3, <3>1, <3>2, IntentsGo
  <2> QED
    BY <1>1, <2>2, CountType, Zenon
<1> QED
  BY <1>2, <1>3

(* Where no accept of a slot is counted there is none.                     *)
NoneAreIncoming == \A R : Incoming(R) = 0 => Nowhere(AcceptsOf(R)) /\ NoneIn(intents, SpawnsOf(R))

(* It is a matter of types.                                                *)
LEMMA NoneAreIncomingHolds == TypeOK => NoneAreIncoming
BY NoneIncoming, Zenon DEF NoneAreIncoming

(* The listener asks for a machine only when the last one of the slot is   *)
(* gone.                                                                   *)
LEMMA NextSpawnsFree ==
  ASSUME Before, After, [Next]_vars, SlotOrder, SpawnsFree
  PROVE  SpawnsFree'
<1> SUFFICES ASSUME NEW s \in Slots, Count(intents', SpawnsOf({s})) # 0 PROVE SlotFree(s)'
  BY DEF SpawnsFree
<1>1. TypeOK /\ TypeOK' /\ QueueDrained /\ World /\ panic' = "no"
  BY DEF Before, After, Core
<1>2. SlotFree(s)
  BY <1>1, NextSpawns, AcceptedIsFree, Zenon DEF SpawnsFree
<1>3. ~(CompleteSpawn /\ Head(intents) = SpawnConnHandler(s))
  <2> SUFFICES ASSUME CompleteSpawn, Head(intents) = SpawnConnHandler(s) PROVE FALSE
    OBVIOUS
  <2>1. Incoming({s})' = 0
    BY <1>1, SpawnFinds
  <2>2. (TypeOK => NoneAreIncoming)'
    BY NoneAreIncomingHolds, PTL
  <2>3. NoneIn(intents', SpawnsOf({s}))
    BY <1>1, <2>1, <2>2, Zenon DEF NoneAreIncoming, NoneIn
  <2> QED
    BY <1>1, <2>3, CountType, Zenon DEF NoneIn, TypeOK
<1> QED
  BY <1>2, <1>3, SlotStaysFree

(* A machine that was there before a step has kept its slot and handle.    *)
LEMMA PlaceSame ==
  ASSUME Before, After, [Next]_vars, NEW i \in 0 .. NHandlers - 1, Live(i)'
  PROVE  \/ /\ Live(i) /\ conn_data'[i].socket = conn_data[i].socket
            /\ conn_alloc'.generation[i] = conn_alloc.generation[i]
            /\ HandleOf(i)' = HandleOf(i)
         \/ \E s \in Slots :
              /\ CompleteSpawn /\ Head(intents) = SpawnConnHandler(s)
              /\ conn_data'[i].socket = s /\ ~Live(i) /\ conn_alloc' = AfterAlloc(conn_alloc)
<1>1. TypeOK
  BY DEF Before
<1>2. ASSUME Live(i), conn_data'[i].socket = conn_data[i].socket,
             conn_alloc'.generation[i] = conn_alloc.generation[i]
      PROVE  HandleOf(i)' = HandleOf(i)
  BY <1>1, <1>2, HandleType
<1>3. CASE CompleteSpawn
  <2>1. PICK j \in 0 .. NHandlers - 1, s \in Slots :
          /\ Head(intents) = SpawnConnHandler(s) /\ conn_data'[j].socket = s /\ ~Live(j)
          /\ conn_alloc' = AfterAlloc(conn_alloc)
          /\ \A k \in (0 .. NHandlers - 1) \ {j} : conn_data'[k] = conn_data[k]
    BY <1>3, SpawnPlaces
  <2>2. CASE i = j
    BY <1>3, <2>1, <2>2
  <2>3. CASE i # j
    <3>1. conn_data'[i] = conn_data[i] /\ Live(i)
      BY <2>1, <2>3 DEF Live
    <3>2. conn_alloc'.generation = conn_alloc.generation
      BY <1>1, <2>1 DEF AfterAlloc, TypeOK, GenAllocs
    <3> QED
      BY <1>2, <3>1, <3>2
  <2> QED
    BY <2>2, <2>3
<1>4. CASE CompleteTerminate
  <2>1. PICK j \in 0 .. NHandlers - 1 :
          /\ j = current.index
          /\ IsValid(conn_alloc, current) /\ conn_alloc' = AfterFree(conn_alloc, current)
          /\ conn_data'[j] = None
          /\ \A k \in (0 .. NHandlers - 1) \ {j} : conn_data'[k] = conn_data[k]
    BY <1>4, TerminatePlaces
  <2>2. i # j
    BY <2>1 DEF Live
  <2>3. conn_data'[i] = conn_data[i] /\ Live(i)
    BY <2>1, <2>2 DEF Live
  <2>4. conn_alloc'.generation[i] = conn_alloc.generation[i]
    BY <1>1, <2>1, <2>2 DEF AfterFree, TypeOK, GenAllocs
  <2> QED
    BY <1>2, <2>3, <2>4
<1>5. CASE ~CompleteSpawn /\ ~CompleteTerminate
  BY <1>2, <1>5, PlacesKept
<1> QED
  BY <1>3, <1>4, <1>5

(* Queues keep the order of accepts and completions, and the kernel gives  *)
(* a slot away only after the close.                                       *)
LEMMA NextSlotOrder ==
  ASSUME Before, After, [Next]_vars, SlotOrder
  PROVE  SlotOrder'
<1>1. TypeOK /\ TypeOK' /\ QueueDrained /\ World /\ panic' = "no"
  BY DEF Before, After, Core
<1>2. ASSUME NEW i \in 0 .. NHandlers - 1, NEW s, NEW h \in ConnHandles,
             Live(i), s = conn_data[i].socket, h = HandleOf(i)
      PROVE  InOrder(AcceptsOf({s}), DoneEvents(h))'
  <2>1. InOrder(AcceptsOf({s}), DoneEvents(h))
    BY <1>2 DEF SlotOrder
  <2>2. \A e : IsSpawn(e) => e \notin AcceptsOf({s}) /\ e \notin DoneEvents(h)
    BY AcceptsAreAccepts, Zenon DEF DoneEvents
  <2>3. ASSUME NEW r \in Cqes, KernelStep, PostsEvent(r), EventOf(r) \in DoneEvents(h)
        PROVE  Nowhere(AcceptsOf({s}))
    <3>1. r.user = h /\ cq' = Append(cq, r) /\ h.index = i
      BY <1>1, <1>2, <2>3, EventOfType, HandleType DEF DoneEvents, EventsFor, PostsEvent
    <3>2. Connected(i)
      BY <2>3, <3>1, KernelCompletes
    <3>3. s \in Slots /\ files[s] = conn_data[i].peer
      BY <1>2, <3>2 DEF Connected, ConnHandlers, Machines
    <3>4. ~Unserved(files[s])
      BY <1>2, <3>3 DEF Unserved
    <3>5. Incoming({s}) = 0
      BY <1>1, <3>3, <3>4, Zenon DEF World, ComingSound
    <3> QED
      BY <1>1, <3>5, NoneIncoming
  <2> DEFINE A == AcceptsOf({s})
             B == DoneEvents(h)
  <2>4. /\ InOrder(A, B)
        /\ \A e : IsSpawn(e) => e \notin A /\ e \notin B
        /\ \A r \in Cqes : KernelStep /\ PostsEvent(r) /\ EventOf(r) \in B => Nowhere(A)
    BY <2>1, <2>2, <2>3
  <2>5. PICK AA, BB : AA = A /\ BB = B
    OBVIOUS
  <2>6. InOrder(AA, BB)'
    BY <1>1, <2>4, <2>5, NextInOrder
  <2> QED
    BY <2>5, <2>6
<1> SUFFICES ASSUME NEW i \in 0 .. NHandlers - 1, Live(i)'
             PROVE  InOrder(AcceptsOf({conn_data[i].socket}), DoneEvents(HandleOf(i)))'
  BY DEF SlotOrder
<1>3. CASE /\ Live(i) /\ conn_data'[i].socket = conn_data[i].socket /\ HandleOf(i)' = HandleOf(i)
  <2>1. PICK s : s = conn_data[i].socket
    OBVIOUS
  <2>2. PICK h \in ConnHandles : h = HandleOf(i)
    BY <1>1, HandleType
  <2>3. InOrder(AcceptsOf({s}), DoneEvents(h))'
    BY <1>2, <1>3, <2>1, <2>2
  <2> QED
    BY <1>3, <2>1, <2>2, <2>3
<1>4. ASSUME NEW s \in Slots, CompleteSpawn, Head(intents) = SpawnConnHandler(s),
             conn_data'[i].socket = s
      PROVE  InOrder(AcceptsOf({conn_data[i].socket}), DoneEvents(HandleOf(i)))'
  <2>1. Incoming({s})' = 0
    BY <1>1, <1>4, SpawnFinds
  <2>2. (TypeOK => NoneAreIncoming)'
    BY NoneAreIncomingHolds, PTL
  <2>3. Nowhere(AcceptsOf({s}))'
    BY <1>1, <2>1, <2>2, Zenon DEF NoneAreIncoming
  <2>4. NoneIn(ThisQueue, AcceptsOf({s}))' /\ NoneIn(NextQueue, AcceptsOf({s}))' /\ NoneIn(Posted, AcceptsOf({s}))'
    BY <2>3 DEF Nowhere
  <2> QED
    BY <1>4, <2>4 DEF InOrder, Sorted, NoneIn
<1> QED
  BY <1>3, <1>4, PlaceSame

(* What keeps the pool of machines from running out.                       *)
PoolInv == ConnExact /\ SocketsDistinct /\ SpawnsFree /\ SlotOrder

(* It holds of empty pools.                                                *)
LEMMA InitPool ==
  ASSUME Init
  PROVE  PoolInv
<1>1. /\ \A i \in 0 .. NHandlers - 1 : ~Live(i)
      /\ intents = << >> /\ conn_alloc = NewAlloc(NHandlers)
  BY DEF Init, Live
<1>2. ConnExact
  BY <1>1, NewAllocExact DEF ConnExact
<1>3. \A R : Count(intents, SpawnsOf(R)) = 0
  BY <1>1, FS_EmptySet DEF Count, Where
<1> QED
  BY <1>1, <1>2, <1>3 DEF PoolInv, SocketsDistinct, SpawnsFree, SlotOrder

(* Every step keeps it.                                                    *)
LEMMA NextPool ==
  ASSUME Before, After, [Next]_vars, PoolInv
  PROVE  PoolInv'
BY NextConnExact, NextSocketsDistinct, NextSpawnsFree, NextSlotOrder DEF PoolInv

-----------------------------------------------------------------------------
(* The clients that may still get a machine: those that have not connected *)
(* yet, and those whose accept is on its way.                              *)
Expected == Cardinality(waiting) + Incoming(Int)

(* It is a number, for a finite number of clients.                         *)
LEMMA ExpectedType ==
  IsFiniteSet(Conns) /\ TypeOK =>
    Cardinality(waiting) \in Nat /\ Incoming(Int) \in Nat /\ Expected \in Nat
<1> SUFFICES ASSUME IsFiniteSet(Conns), TypeOK
             PROVE  Cardinality(waiting) \in Nat /\ Incoming(Int) \in Nat /\ Expected \in Nat
  OBVIOUS
<1>1. IsFiniteSet(waiting)
  BY FS_Subset DEF TypeOK
<1>2. Cardinality(waiting) \in Nat
  BY <1>1, FS_CardinalityType
<1>3. Incoming(Int) \in Nat
  BY IncomingType, Zenon DEF IncomingCounts
<1> QED
  BY <1>2, <1>3 DEF Expected

(* Clients connect one at a time, when the accept completes or overflows.  *)
LEMMA WaitingGoes ==
  ASSUME [Next]_vars
  PROVE  \/ waiting' = waiting
         \/ (KernelAccepts \/ KernelRefuses) /\ \E c \in waiting : waiting' = waiting \ {c}
<1>1. CASE KernelAccepts \/ KernelRefuses
  BY <1>1 DEF KernelAccepts, KernelRefuses, AcceptCompletes, AcceptOverflows
<1>2. CASE EnterIssues \/ KernelReads \/ KernelFails \/ \E c \in Conns : KernelEnds(c)
  BY <1>2 DEF EnterIssues, Issue, KernelReads, KernelFails, KernelEnds, ReadCompletes, ReadEnds,
     ReadFails, Completes
<1>3. CASE DispatchTcp \/ DispatchConn \/ DispatchMissing
  BY <1>3 DEF DispatchTcp, DispatchConn, DispatchMissing, Pop, kernelVars
<1>4. \A site : Crash(site) => waiting' = waiting
  BY DEF Crash, kernelVars
<1>5. IntentDone => waiting' = waiting
  BY DEF IntentDone, kernelVars
<1>6. \A r : EnqueueFor(r) => waiting' = waiting
  BY <1>4, <1>5 DEF EnqueueFor
<1>7. CASE \/ CompleteRetry \/ CompleteAccept \/ CompleteSpawn \/ CompleteRecv
           \/ CompleteClose \/ CompleteTerminate
  BY <1>4, <1>5, <1>6, <1>7, Zenon DEF CompleteRetry, CompleteAccept, CompleteSpawn, CompleteRecv,
     CompleteClose, CompleteTerminate
<1>8. CASE \/ DrainDone \/ IntentsDone \/ SubmitShortcut \/ SubmitEnter \/ EnterReturns
           \/ EnterError \/ Reap \/ ReapDone \/ UNCHANGED vars
  BY <1>4, <1>8 DEF DrainDone, IntentsDone, SubmitShortcut, SubmitEnter, EnterReturns,
     EnterError, Reap, ReapDone, vars, kernelVars
<1> QED
  BY <1>1, <1>2, <1>3, <1>7, <1>8 DEF Next, Thread

(* No step raises it, and making a machine lowers it.                      *)
LEMMA ExpectedFalls ==
  ASSUME IsFiniteSet(Conns), Before, After, [Next]_vars
  PROVE  /\ Expected' <= Expected
         /\ CompleteSpawn => Expected' + 1 <= Expected
<1>1. TypeOK /\ TypeOK' /\ QueueDrained /\ panic' = "no"
  BY DEF Before, After
<1>2. /\ Cardinality(waiting) \in Nat /\ Incoming(Int) \in Nat
      /\ Cardinality(waiting') \in Nat /\ Incoming(Int)' \in Nat
  <2>1. (IsFiniteSet(Conns) /\ TypeOK =>
           Cardinality(waiting) \in Nat /\ Incoming(Int) \in Nat /\ Expected \in Nat)'
    BY ExpectedType, PTL
  <2> QED
    BY <1>1, <2>1, ExpectedType
<1>3. IsFiniteSet(waiting)
  BY <1>1, FS_Subset DEF TypeOK
<1>4. \/ Incoming(Int)' <= Incoming(Int)
      \/ KernelStep /\ \E r \in Cqes :
           /\ PostsEvent(r) /\ r.user = TcpHandle
           /\ Incoming(Int)' <= Incoming(Int) + 1
  BY <1>1, NextIncoming
<1>5. PICK w, n, x, m \in Nat :
        /\ w = Cardinality(waiting) /\ n = Incoming(Int)
        /\ x = Cardinality(waiting') /\ m = Incoming(Int)'
  BY <1>2, Zenon
<1>6. Expected = w + n /\ Expected' = x + m
  BY <1>5 DEF Expected
<1>7. x <= w /\ (KernelAccepts \/ KernelRefuses => x + 1 <= w)
  <2>1. CASE waiting' = waiting /\ ~(KernelAccepts \/ KernelRefuses)
    BY <1>5, <2>1
  <2>2. ASSUME NEW c \in waiting, waiting' = waiting \ {c} PROVE x + 1 <= w
    <3>1. Cardinality(waiting \ {c}) =
            IF c \in waiting THEN Cardinality(waiting) - 1 ELSE Cardinality(waiting)
      BY <1>3, FS_RemoveElement, Zenon
    <3> QED
      BY <1>5, <2>2, <3>1
  <2>3. KernelAccepts \/ KernelRefuses => \E c \in waiting : waiting' = waiting \ {c}
    BY DEF KernelAccepts, KernelRefuses, AcceptCompletes, AcceptOverflows
  <2> QED
    BY <2>1, <2>2, <2>3, WaitingGoes
<1>8. Expected' <= Expected
  <2>1. CASE m <= n
    BY <1>6, <1>7, <2>1
  <2>2. ASSUME KernelStep, NEW r \in Cqes, PostsEvent(r), r.user = TcpHandle, m <= n + 1
        PROVE  x + m <= w + n
    <3>1. KernelAccepts \/ KernelRefuses
      BY <1>1, <2>2, KernelPosts DEF PostsEvent
    <3> QED
      BY <1>7, <2>2, <3>1
  <2> QED
    BY <1>4, <1>5, <1>6, <2>1, <2>2
<1>9. CompleteSpawn => Expected' + 1 <= Expected
  <2> SUFFICES ASSUME CompleteSpawn PROVE Expected' + 1 <= Expected
    OBVIOUS
  <2>1. PICK s \in Slots : Head(intents) = SpawnConnHandler(s)
    BY SpawnPlaces
  <2>2. s \in Int
    BY DEF Slots
  <2>3. n = m + 1
    BY <1>1, <1>5, <2>1, <2>2, SpawnIncoming
  <2> QED
    BY <1>6, <1>7, <2>3
<1> QED
  BY <1>8, <1>9

-----------------------------------------------------------------------------
(* The machines there are, and those that have not given their buffer back *)
(* (nor closed their connection).                                          *)
Occupied == {i \in 0 .. NHandlers - 1 : Live(i)}

Unclosed == {i \in 0 .. NHandlers - 1 : Fresh(i)}

(* Each client brings one machine into the pool at most, and each machine  *)
(* gives back one buffer at most: what has been given back so far, with    *)
(* what may still be, is no more than the clients there ever were.         *)
GenerationsBound ==
  /\ \A i \in 0 .. NHandlers - 1 :
       conn_alloc.generation[i] + Expected + Cardinality(Occupied) <= Cardinality(Conns)
  /\ \A b \in 0 .. NBufs - 1 :
       io_bufs.generation[b] + Expected + Cardinality(Unclosed) <= Cardinality(Conns)

(* Machines' places are finitely many: one more, one less.                 *)
LEMMA PlaceCounts ==
  \A S : S \subseteq 0 .. NHandlers - 1 =>
    /\ IsFiniteSet(S) /\ Cardinality(S) \in Nat
    /\ \A i \in 0 .. NHandlers - 1 :
         /\ i \notin S => Cardinality(S \cup {i}) = Cardinality(S) + 1
         /\ i \in S => Cardinality(S \ {i}) = Cardinality(S) - 1
<1> SUFFICES ASSUME NEW S, S \subseteq 0 .. NHandlers - 1
             PROVE  /\ IsFiniteSet(S) /\ Cardinality(S) \in Nat
                    /\ \A i \in 0 .. NHandlers - 1 :
                         /\ i \notin S => Cardinality(S \cup {i}) = Cardinality(S) + 1
                         /\ i \in S => Cardinality(S \ {i}) = Cardinality(S) - 1
  OBVIOUS
<1>1. IsFiniteSet(0 .. NHandlers - 1)
  BY FS_Interval
<1>2. IsFiniteSet(S)
  BY <1>1, FS_Subset
<1>3. Cardinality(S) \in Nat
  BY <1>2, FS_CardinalityType
<1>4. \A i \in 0 .. NHandlers - 1 :
        /\ i \notin S => Cardinality(S \cup {i}) = Cardinality(S) + 1
        /\ i \in S => Cardinality(S \ {i}) = Cardinality(S) - 1
  BY <1>2, FS_AddElement, FS_RemoveElement
<1> QED
  BY <1>2, <1>3, <1>4

(* Giving an index back raises its generation by one, and no other. *)
LEMMA FreeRaises ==
  ASSUME NEW n \in Nat, NEW a \in GenAllocs(n), NEW id, ~Overflows(a, id)
  PROVE  \A i \in 0 .. n - 1 :
           /\ AfterFree(a, id).generation[i] \in Nat /\ a.generation[i] \in Nat
           /\ AfterFree(a, id).generation[i] <= a.generation[i] + 1
<1> SUFFICES ASSUME NEW i \in 0 .. n - 1
             PROVE  /\ AfterFree(a, id).generation[i] \in Nat /\ a.generation[i] \in Nat
                    /\ AfterFree(a, id).generation[i] <= a.generation[i] + 1
  OBVIOUS
<1>1. a.generation \in [0 .. n - 1 -> 0 .. GenSpan - 1]
  BY DEF GenAllocs
<1>2. a.generation[i] \in 0 .. GenSpan - 1
  BY <1>1
<1>3. CASE ~IsValid(a, id)
  BY <1>2, <1>3 DEF AfterFree
<1>4. CASE IsValid(a, id)
  <2>1. AfterFree(a, id).generation = [a.generation EXCEPT ![id.index] = NextGeneration(@)]
    BY <1>4 DEF AfterFree
  <2>2. CASE i = id.index
    <3>1. AfterFree(a, id).generation[i] = NextGeneration(a.generation[i])
      BY <1>1, <2>1, <2>2
    <3>2. a.generation[i] # GenSpan - 1
      BY <1>4, <2>2 DEF Overflows
    <3> QED
      BY <1>2, <3>1, <3>2, NewerGeneration
  <2>3. CASE i # id.index
    BY <1>1, <1>2, <2>1, <2>3
  <2> QED
    BY <2>2, <2>3
<1> QED
  BY <1>3, <1>4

(* What a step may do to a set of places and the generations of a pool. *)
SamePlaces(S, T, f, g) == T = S /\ g = f

OneMore(S, T, f, g) ==
  g = f /\ \E i \in 0 .. NHandlers - 1 : i \notin S /\ T = S \cup {i}

OneLess(S, T, f, g, n) ==
  /\ \E i \in S : T = S \ {i}
  /\ \A j \in 0 .. n - 1 : g[j] <= f[j] + 1

(* A step leaves the machines there are as they were, or one is made, or   *)
(* one goes and its place is a generation older.                           *)
LEMMA ServedSteps ==
  ASSUME Before, After, [Next]_vars, OverflowChecks
  PROVE  \/ SamePlaces(Occupied, Occupied', conn_alloc.generation, conn_alloc'.generation)
         \/ CompleteSpawn /\ OneMore(Occupied, Occupied', conn_alloc.generation, conn_alloc'.generation)
         \/ OneLess(Occupied, Occupied', conn_alloc.generation, conn_alloc'.generation, NHandlers)
<1>1. CASE ~CompleteSpawn /\ ~CompleteTerminate
  <2>1. conn_alloc' = conn_alloc /\ \A i \in 0 .. NHandlers - 1 : Live(i)' <=> Live(i)
    BY <1>1, PlacesKept
  <2>2. Occupied' = Occupied
    BY <2>1 DEF Occupied
  <2> QED
    BY <2>1, <2>2 DEF SamePlaces
<1>2. CASE CompleteSpawn
  <2>1. PICK i \in 0 .. NHandlers - 1 :
          /\ ~Live(i) /\ conn_alloc' = AfterAlloc(conn_alloc) /\ Live(i)'
          /\ \A j \in (0 .. NHandlers - 1) \ {i} : conn_data'[j] = conn_data[j]
    BY <1>2, SpawnPlaces
  <2>2. \A j \in (0 .. NHandlers - 1) \ {i} : Live(j)' <=> Live(j)
    BY <2>1 DEF Live
  <2>3. i \notin Occupied /\ Occupied' = Occupied \cup {i}
    BY <2>1, <2>2 DEF Occupied
  <2>4. conn_alloc'.generation = conn_alloc.generation
    BY <2>1 DEF AfterAlloc, Before, TypeOK, GenAllocs
  <2> QED
    BY <1>2, <2>3, <2>4 DEF OneMore
<1>3. CASE CompleteTerminate
  <2>1. PICK i \in 0 .. NHandlers - 1 : i = current.index
    BY <1>3, TerminatePlaces
  <2>2. /\ Live(i) /\ ~FreePanics(conn_alloc, current) /\ conn_alloc' = AfterFree(conn_alloc, current)
        /\ conn_data'[i] = None
        /\ \A j \in (0 .. NHandlers - 1) \ {i} : conn_data'[j] = conn_data[j]
    BY <1>3, <2>1, TerminatePlaces
  <2>3. i \in Occupied /\ Occupied' = Occupied \ {i}
    BY <2>2 DEF Occupied, Live
  <2>4. conn_alloc \in GenAllocs(NHandlers) /\ ~Overflows(conn_alloc, current)
    BY <2>2 DEF Before, TypeOK, FreePanics
  <2>5. \A j \in 0 .. NHandlers - 1 : conn_alloc'.generation[j] <= conn_alloc.generation[j] + 1
    BY <2>2, <2>4, FreeRaises
  <2> QED
    BY <2>3, <2>5 DEF OneLess
<1> QED
  BY <1>1, <1>2, <1>3

(* What a machine's answer to an event does to the buffers: it keeps them  *)
(* all as old as they were, or it gives its own back, once.                *)
LEMMA AnswerBuffers ==
  ASSUME Before, OverflowChecks, NEW i \in 0 .. NHandlers - 1, conn_data[i] \in ConnHandlers,
         NEW g \in ConnHandlers, NEW event, Answers(conn_data[i], g, event)
  PROVE  \/ /\ io_bufs'.generation = io_bufs.generation
            /\ g.state \in {"Init", "Recv"} <=> conn_data[i].state \in {"Init", "Recv"}
         \/ /\ conn_data[i].state \in {"Init", "Recv"} /\ g.state \notin {"Init", "Recv"}
            /\ \A b \in 0 .. NBufs - 1 : io_bufs'.generation[b] <= io_bufs.generation[b] + 1
<1> DEFINE h == conn_data[i]
<1>1. /\ io_bufs \in GenAllocs(NBufs) /\ Live(i) /\ NBufs \in Nat
      /\ \A j \in Released :
           conn_data[j].buf_handle.generation < io_bufs.generation[conn_data[j].buf_handle.index]
  BY MachineAssumption DEF Before, TypeOK, Live, BuffersInv, HandlesOutdated
<1>2. CASE GetsBuffer(h, g, event)
  <2>1. h.state = "Init" /\ g.state = "Recv" /\ io_bufs' = AfterAlloc(io_bufs)
    BY <1>2 DEF GetsBuffer, ConnHandlers, Machines
  <2>2. io_bufs'.generation = io_bufs.generation
    BY <1>1, <2>1 DEF AfterAlloc, GenAllocs
  <2> QED
    BY <2>1, <2>2
<1>3. CASE TriesAgain(h, g, event) \/ ReadsAgain(h, g, event) \/ Ignores(h, g, event)
  BY <1>3 DEF TriesAgain, ReadsAgain, Ignores
<1>4. CASE HasReceived(h, g, event)
  <2>1. h.state = "Recv" /\ g = AfterData(h, event.res) /\ io_bufs' = io_bufs
    BY <1>4 DEF HasReceived
  <2>2. g.state = "Recv"
    BY <2>1 DEF AfterData, ConnHandlers, Machines
  <2> QED
    BY <2>1, <2>2
<1>5. CASE Finishes(h, g, event)
  <2>1. h.state = "Closing" /\ g.state = "Closed" /\ io_bufs' = io_bufs
    BY <1>5 DEF Finishes, ConnHandlers, Machines
  <2> QED
    BY <2>1
<1>6. CASE StartsClose(h, g, event)
  <2>1. /\ g = Closing(h) /\ ~ClosePanics(h) /\ io_bufs' = FreeBuf(h)
        /\ h.state \in {"Recv", "Closing"}
    BY <1>6 DEF StartsClose
  <2>2. g.state = "Closing"
    BY <2>1 DEF Closing, ConnHandlers, Machines
  <2>3. CASE h.state = "Recv"
    <3>1. CASE h.buf_handle = None
      <4>1. io_bufs' = io_bufs
        BY <2>1, <3>1 DEF FreeBuf
      <4>2. \A b \in 0 .. NBufs - 1 : io_bufs.generation[b] \in Nat
        BY <1>1 DEF GenAllocs
      <4> QED
        BY <2>2, <2>3, <4>1, <4>2
    <3>2. CASE h.buf_handle # None
      <4>1. io_bufs' = AfterFree(io_bufs, h.buf_handle) /\ ~Overflows(io_bufs, h.buf_handle)
        BY <2>1, <3>2 DEF FreeBuf, ClosePanics, FreePanics
      <4>2. \A b \in 0 .. NBufs - 1 : io_bufs'.generation[b] <= io_bufs.generation[b] + 1
        BY <1>1, <4>1, FreeRaises
      <4> QED
        BY <2>2, <2>3, <4>2
    <3> QED
      BY <3>1, <3>2
  <2>4. CASE h.state = "Closing"
    <3>1. i \in Released
      BY <1>1, <2>4 DEF Released
    <3>2. ~IsValid(io_bufs, h.buf_handle)
      <4>1. PICK n, m : n = h.buf_handle.generation /\ m = io_bufs.generation[h.buf_handle.index]
        OBVIOUS
      <4>2. n < m /\ n \in Int
        BY <1>1, <2>4, <3>1, <4>1 DEF ConnHandlers, Machines, GenId
      <4>3. h.buf_handle.index \in DOMAIN io_bufs.generation => m \in Int
        BY <1>1, <4>1 DEF GenAllocs
      <4> QED
        BY <4>1, <4>2, <4>3 DEF IsValid
    <3>3. io_bufs' = io_bufs
      BY <2>1, <3>2 DEF FreeBuf, AfterFree
    <3> QED
      BY <2>2, <2>4, <3>3
  <2> QED
    BY <2>1, <2>3, <2>4
<1> QED
  BY <1>2, <1>3, <1>4, <1>5, <1>6 DEF Answers

(* No step but a machine's touches the buffers.                            *)
LEMMA BuffersStay ==
  ASSUME [Next]_vars, ~DispatchConn, panic' = "no"
  PROVE  io_bufs' = io_bufs
<1>1. CASE DispatchTcp \/ DispatchMissing
  BY <1>1 DEF DispatchTcp, DispatchMissing, TcpProcessEvent, OnListen, OnAccepted, OnAcceptErr,
     OnTcpUnexpected
<1>2. \A site : Crash(site) => io_bufs' = io_bufs
  BY DEF Crash
<1>3. \A r : EnqueueFor(r) => io_bufs' = io_bufs
  BY <1>2 DEF EnqueueFor
<1>4. CASE \/ CompleteRetry \/ CompleteAccept \/ CompleteSpawn \/ CompleteRecv
           \/ CompleteClose \/ CompleteTerminate
  BY <1>2, <1>3, <1>4, Zenon DEF CompleteRetry, CompleteAccept, CompleteSpawn, CompleteRecv,
     CompleteClose, CompleteTerminate
<1>5. CASE \/ DrainDone \/ IntentsDone \/ SubmitShortcut \/ SubmitEnter \/ EnterReturns
           \/ EnterError \/ Reap \/ ReapDone \/ UNCHANGED vars
  BY <1>2, <1>5 DEF DrainDone, IntentsDone, SubmitShortcut, SubmitEnter, EnterReturns,
     EnterError, Reap, ReapDone, vars, contextVars
<1>6. CASE KernelStep
  BY <1>6 DEF KernelStep, EnterIssues, KernelAccepts, KernelRefuses, KernelReads, KernelFails,
     KernelEnds, ProgramUnchanged, contextVars
<1> QED
  BY <1>1, <1>4, <1>5, <1>6 DEF Next, Thread, KernelStep

(* No step but a machine's own, its spawn and its despawn touches a        *)
(* machine.                                                                *)
LEMMA MachinesStay ==
  ASSUME [Next]_vars, ~DispatchConn, ~CompleteSpawn, ~CompleteTerminate
  PROVE  conn_data' = conn_data
<1>1. CASE DispatchTcp \/ DispatchMissing
  BY <1>1 DEF DispatchTcp, DispatchMissing
<1>2. \A site : Crash(site) => conn_data' = conn_data
  BY DEF Crash, machineVars
<1>3. \A r : EnqueueFor(r) => conn_data' = conn_data
  BY <1>2 DEF EnqueueFor
<1>4. CASE CompleteRetry \/ CompleteAccept \/ CompleteRecv \/ CompleteClose
  BY <1>2, <1>3, <1>4, Zenon DEF CompleteRetry, CompleteAccept, CompleteRecv, CompleteClose
<1>5. CASE \/ DrainDone \/ IntentsDone \/ SubmitShortcut \/ SubmitEnter \/ EnterReturns
           \/ EnterError \/ Reap \/ ReapDone \/ UNCHANGED vars
  BY <1>2, <1>5 DEF DrainDone, IntentsDone, SubmitShortcut, SubmitEnter, EnterReturns,
     EnterError, Reap, ReapDone, vars, machineVars
<1>6. CASE KernelStep
  BY <1>6 DEF KernelStep, EnterIssues, KernelAccepts, KernelRefuses, KernelReads, KernelFails,
     KernelEnds, ProgramUnchanged, machineVars
<1> QED
  BY <1>1, <1>4, <1>5, <1>6 DEF Next, Thread, KernelStep

(* The same of the machines that hold, or will hold, a buffer.             *)
LEMMA UnclosedSteps ==
  ASSUME Before, After, [Next]_vars, OverflowChecks
  PROVE  \/ SamePlaces(Unclosed, Unclosed', io_bufs.generation, io_bufs'.generation)
         \/ CompleteSpawn /\ OneMore(Unclosed, Unclosed', io_bufs.generation, io_bufs'.generation)
         \/ OneLess(Unclosed, Unclosed', io_bufs.generation, io_bufs'.generation, NBufs)
<1>1. TypeOK /\ panic' = "no" /\ conn_data \in [0 .. NHandlers - 1 -> ConnHandlers \cup {None}]
  BY DEF Before, After, TypeOK
<1>2. CASE ~DispatchConn /\ ~CompleteSpawn /\ ~CompleteTerminate
  <2>1. io_bufs' = io_bufs /\ conn_data' = conn_data
    BY <1>1, <1>2, BuffersStay, MachinesStay
  <2>2. Unclosed' = Unclosed
    BY <2>1 DEF Unclosed, Fresh, Live
  <2> QED
    BY <2>1, <2>2 DEF SamePlaces
<1>3. CASE CompleteSpawn
  <2>1. PICK i \in 0 .. NHandlers - 1 :
          /\ ~Live(i) /\ conn_data'[i] # None /\ conn_data'[i].state = "Init"
          /\ \A j \in (0 .. NHandlers - 1) \ {i} : conn_data'[j] = conn_data[j]
    BY <1>1, <1>3, SpawnWays DEF After
  <2>2. i \notin Unclosed /\ Unclosed' = Unclosed \cup {i}
    BY <2>1 DEF Unclosed, Fresh, Live
  <2>3. io_bufs' = io_bufs
    <3>1. ~DispatchConn
      BY <1>3 DEF CompleteSpawn, AtIntent, DispatchConn, Pop
    <3> QED
      BY <1>1, <3>1, BuffersStay
  <2> QED
    BY <1>3, <2>2, <2>3 DEF OneMore
<1>4. CASE CompleteTerminate
  <2>1. io_bufs' = io_bufs
    <3>1. ~DispatchConn
      BY <1>4 DEF CompleteTerminate, AtIntent, DispatchConn, Pop
    <3> QED
      BY <1>1, <3>1, BuffersStay
  <2>2. PICK i \in 0 .. NHandlers - 1 : i = current.index
    BY <1>4, TerminatePlaces
  <2>3. /\ conn_data'[i] = None
        /\ \A j \in (0 .. NHandlers - 1) \ {i} : conn_data'[j] = conn_data[j]
    BY <1>4, <2>2, TerminatePlaces
  <2>4. ~Fresh(i)
    <3>1. intents # << >> /\ Head(intents) = Terminate /\ intents \in Seq(IntentsOf(current))
      BY <1>1, <1>4, TerminateStep DEF TypeOK
    <3>2. 1 \in DOMAIN intents /\ intents[1] = Terminate
      BY <3>1
    <3>3. conn_data[i].state = "Closed"
      BY <2>2, <3>2 DEF Before, BuffersInv, ClosedBeforeTerminate
    <3> QED
      BY <3>3 DEF Fresh
  <2>5. Unclosed' = Unclosed
    BY <2>3, <2>4 DEF Unclosed, Fresh, Live
  <2> QED
    BY <2>1, <2>5 DEF SamePlaces
<1>5. CASE DispatchConn
  <2> DEFINE h == NextEvent.handle
  <2>1. Finds(h) /\ ConnProcessEvent(h.index, NextEvent.reason) /\ Pop
    BY <1>5 DEF DispatchConn
  <2>2. h \in ConnHandles /\ NextEvent.reason \in Events(Int)
    BY <1>1, <1>5, <2>1, PopEventType, EventKinds DEF DispatchConn
  <2>3. PICK i \in 0 .. NHandlers - 1 : i = h.index
    BY <2>2 DEF ConnHandles
  <2>4. conn_data[i] \in ConnHandlers
    BY <1>1, <2>1, <2>3 DEF Finds
  <2>5. PICK e \in Events(Int) : e = NextEvent.reason
    BY <2>2
  <2> HIDE DEF h
  <2>6. PICK g \in ConnHandlers :
          conn_data' = [conn_data EXCEPT ![i] = g] /\ Answers(conn_data[i], g, e)
    BY <1>1, <2>1, <2>3, <2>4, <2>5, ArmAnswers
  <2>7. g # None /\ conn_data[i] # None
    BY <2>4, MachineAssumption
  <2>8. conn_data'[i] = g /\ \A j \in (0 .. NHandlers - 1) \ {i} : conn_data'[j] = conn_data[j]
    BY <1>1, <2>6
  <2>9. \/ /\ io_bufs'.generation = io_bufs.generation
           /\ g.state \in {"Init", "Recv"} <=> conn_data[i].state \in {"Init", "Recv"}
        \/ /\ conn_data[i].state \in {"Init", "Recv"} /\ g.state \notin {"Init", "Recv"}
           /\ \A b \in 0 .. NBufs - 1 : io_bufs'.generation[b] <= io_bufs.generation[b] + 1
    BY <2>4, <2>6, AnswerBuffers
  <2>10. CASE /\ io_bufs'.generation = io_bufs.generation
              /\ g.state \in {"Init", "Recv"} <=> conn_data[i].state \in {"Init", "Recv"}
    <3>1. Unclosed' = Unclosed
      BY <2>7, <2>8, <2>10 DEF Unclosed, Fresh, Live
    <3> QED
      BY <2>10, <3>1 DEF SamePlaces
  <2>11. CASE /\ conn_data[i].state \in {"Init", "Recv"} /\ g.state \notin {"Init", "Recv"}
              /\ \A b \in 0 .. NBufs - 1 : io_bufs'.generation[b] <= io_bufs.generation[b] + 1
    <3>1. i \in Unclosed /\ Unclosed' = Unclosed \ {i}
      BY <2>7, <2>8, <2>11 DEF Unclosed, Fresh, Live
    <3> QED
      BY <2>11, <3>1 DEF OneLess
  <2> QED
    BY <2>9, <2>10, <2>11
<1> QED
  BY <1>2, <1>3, <1>4, <1>5

(* Generations and places before and after a step, with the clients that   *)
(* may still come.                                                         *)
Within(n, f, S, x, c) == \A j \in 0 .. n - 1 : f[j] + x + Cardinality(S) <= c

StepOf(n, f, g, S, T, x, y, c) ==
  /\ n \in Nat /\ x \in Nat /\ y \in Nat /\ c \in Nat /\ y <= x
  /\ \A j \in 0 .. n - 1 : f[j] \in Nat /\ g[j] \in Nat
  /\ S \subseteq 0 .. NHandlers - 1 /\ T \subseteq 0 .. NHandlers - 1
  /\ \/ SamePlaces(S, T, f, g)
     \/ OneMore(S, T, f, g) /\ y + 1 <= x
     \/ OneLess(S, T, f, g, n)

(* Such a step keeps the bound.                                            *)
LEMMA BoundCarries ==
  \A n, f, g, S, T, x, y, c :
    StepOf(n, f, g, S, T, x, y, c) /\ Within(n, f, S, x, c) => Within(n, g, T, y, c)
<1> SUFFICES ASSUME NEW n, NEW f, NEW g, NEW S, NEW T, NEW x, NEW y, NEW c,
                    StepOf(n, f, g, S, T, x, y, c), Within(n, f, S, x, c)
             PROVE  Within(n, g, T, y, c)
  BY Zenon
<1>0. /\ n \in Nat /\ x \in Nat /\ y \in Nat /\ c \in Nat /\ y <= x
      /\ \A j \in 0 .. n - 1 : f[j] \in Nat /\ g[j] \in Nat
      /\ S \subseteq 0 .. NHandlers - 1 /\ T \subseteq 0 .. NHandlers - 1
  BY DEF StepOf
<1> SUFFICES ASSUME NEW j \in 0 .. n - 1
             PROVE  g[j] + y + Cardinality(T) <= c
  BY DEF Within
<1>1. PICK p, q, a, b \in Nat :
        p = f[j] /\ q = g[j] /\ a = Cardinality(S) /\ b = Cardinality(T)
  <2>1. Cardinality(S) \in Nat /\ Cardinality(T) \in Nat
    BY <1>0, PlaceCounts
  <2> QED
    BY <1>0, <2>1
<1>2. p + x + a <= c
  BY <1>1 DEF Within
<1>3. CASE SamePlaces(S, T, f, g)
  <2>1. q = p /\ b = a
    BY <1>1, <1>3 DEF SamePlaces
  <2> QED
    BY <1>0, <1>1, <1>2, <2>1
<1>4. CASE OneMore(S, T, f, g) /\ y + 1 <= x
  <2>1. q = p /\ b = a + 1
    BY <1>0, <1>1, <1>4, PlaceCounts DEF OneMore
  <2> QED
    BY <1>0, <1>1, <1>2, <1>4, <2>1
<1>5. CASE OneLess(S, T, f, g, n)
  <2>1. q <= p + 1
    BY <1>1, <1>5 DEF OneLess
  <2>2. b = a - 1
    BY <1>0, <1>1, <1>5, PlaceCounts DEF OneLess
  <2> QED
    BY <1>0, <1>1, <1>2, <2>1, <2>2
<1> QED
  BY <1>3, <1>4, <1>5, Zenon DEF StepOf

(* Generations are numbers.                                                *)
LEMMA GenerationTypes ==
  TypeOK =>
    /\ \A i \in 0 .. NHandlers - 1 : conn_alloc.generation[i] \in Nat
    /\ \A b \in 0 .. NBufs - 1 : io_bufs.generation[b] \in Nat
<1> SUFFICES ASSUME TypeOK
             PROVE  /\ \A i \in 0 .. NHandlers - 1 : conn_alloc.generation[i] \in Nat
                    /\ \A b \in 0 .. NBufs - 1 : io_bufs.generation[b] \in Nat
  OBVIOUS
<1>1. /\ conn_alloc.generation \in [0 .. NHandlers - 1 -> 0 .. GenSpan - 1]
      /\ io_bufs.generation \in [0 .. NBufs - 1 -> 0 .. GenSpan - 1]
  BY DEF TypeOK, GenAllocs
<1>2. 0 .. GenSpan - 1 \subseteq Nat
  OBVIOUS
<1> QED
  BY <1>1, <1>2

(* So every step keeps both bounds, ...                                    *)
LEMMA NextGenerationsBound ==
  ASSUME IsFiniteSet(Conns), Before, After, [Next]_vars, OverflowChecks, GenerationsBound
  PROVE  GenerationsBound'
<1>1. TypeOK /\ TypeOK'
  BY DEF Before, After
<1>2. /\ \A i \in 0 .. NHandlers - 1 :
           conn_alloc.generation[i] \in Nat /\ conn_alloc'.generation[i] \in Nat
      /\ \A b \in 0 .. NBufs - 1 : io_bufs.generation[b] \in Nat /\ io_bufs'.generation[b] \in Nat
  <2>1. (TypeOK =>
          /\ \A i \in 0 .. NHandlers - 1 : conn_alloc.generation[i] \in Nat
          /\ \A b \in 0 .. NBufs - 1 : io_bufs.generation[b] \in Nat)'
    BY GenerationTypes, PTL
  <2> QED
    BY <1>1, <2>1, GenerationTypes
<1>3. Expected \in Nat /\ Expected' \in Nat
  <2>1. (IsFiniteSet(Conns) /\ TypeOK =>
           Cardinality(waiting) \in Nat /\ Incoming(Int) \in Nat /\ Expected \in Nat)'
    BY ExpectedType, PTL
  <2> QED
    BY <1>1, <2>1, ExpectedType
<1>4. Expected' <= Expected /\ (CompleteSpawn => Expected' + 1 <= Expected)
  BY ExpectedFalls
<1>5. PICK x, y, c \in Nat : x = Expected /\ y = Expected' /\ c = Cardinality(Conns)
  <2>1. Cardinality(Conns) \in Nat
    BY FS_CardinalityType
  <2> QED
    BY <1>3, <2>1
<1>6. \A i \in 0 .. NHandlers - 1 : conn_alloc'.generation[i] + y + Cardinality(Occupied') <= c
  <2>1. PICK f, g, S, T : /\ f = conn_alloc.generation /\ g = conn_alloc'.generation
                          /\ S = Occupied /\ T = Occupied'
    OBVIOUS
  <2>2. S \subseteq 0 .. NHandlers - 1 /\ T \subseteq 0 .. NHandlers - 1
    BY <2>1 DEF Occupied
  <2>3. \A j \in 0 .. NHandlers - 1 : f[j] \in Nat /\ g[j] \in Nat
    BY <1>2, <2>1
  <2>4. Within(NHandlers, f, S, x, c)
    BY <1>5, <2>1 DEF GenerationsBound, Within
  <2>5. \/ SamePlaces(S, T, f, g)
        \/ OneMore(S, T, f, g) /\ y + 1 <= x
        \/ OneLess(S, T, f, g, NHandlers)
    BY <1>4, <1>5, <2>1, ServedSteps
  <2>6. NHandlers \in Nat /\ y <= x
    BY <1>4, <1>5
  <2>7. StepOf(NHandlers, f, g, S, T, x, y, c)
    BY <1>5, <2>2, <2>3, <2>5, <2>6, Zenon DEF StepOf
  <2>8. Within(NHandlers, g, T, y, c)
    BY <2>4, <2>7, BoundCarries, Zenon
  <2> QED
    BY <2>1, <2>8, Zenon DEF Within
<1>7. \A b \in 0 .. NBufs - 1 : io_bufs'.generation[b] + y + Cardinality(Unclosed') <= c
  <2>1. PICK f, g, S, T : /\ f = io_bufs.generation /\ g = io_bufs'.generation
                          /\ S = Unclosed /\ T = Unclosed'
    OBVIOUS
  <2>2. S \subseteq 0 .. NHandlers - 1 /\ T \subseteq 0 .. NHandlers - 1
    BY <2>1 DEF Unclosed
  <2>3. \A j \in 0 .. NBufs - 1 : f[j] \in Nat /\ g[j] \in Nat
    BY <1>2, <2>1
  <2>4. Within(NBufs, f, S, x, c)
    BY <1>5, <2>1 DEF GenerationsBound, Within
  <2>5. \/ SamePlaces(S, T, f, g)
        \/ OneMore(S, T, f, g) /\ y + 1 <= x
        \/ OneLess(S, T, f, g, NBufs)
    BY <1>4, <1>5, <2>1, UnclosedSteps
  <2>6. NBufs \in Nat /\ y <= x
    BY <1>4, <1>5
  <2>7. StepOf(NBufs, f, g, S, T, x, y, c)
    BY <1>5, <2>2, <2>3, <2>5, <2>6, Zenon DEF StepOf
  <2>8. Within(NBufs, g, T, y, c)
    BY <2>4, <2>7, BoundCarries, Zenon
  <2> QED
    BY <2>1, <2>8, Zenon DEF Within
<1> QED
  BY <1>5, <1>6, <1>7 DEF GenerationsBound

(* ... which hold before anyone has come.                                  *)
LEMMA InitGenerationsBound ==
  ASSUME Init, IsFiniteSet(Conns)
  PROVE  GenerationsBound
<1>1. /\ waiting = Conns /\ intents = << >> /\ cq = << >> /\ current_run_queue = 0
      /\ run_queues = [q \in {0, 1} |->
                         IF q = 0 THEN <<RunQueueEvent(Spawn, TcpHandle)>> ELSE << >>]
      /\ conn_alloc = NewAlloc(NHandlers) /\ io_bufs = NewAlloc(NBufs)
      /\ \A i \in 0 .. NHandlers - 1 : ~Live(i)
  BY DEF Init, UringInit, Live
<1>2. Occupied = {} /\ Unclosed = {}
  BY <1>1 DEF Occupied, Unclosed, Fresh
<1>3. Incoming(Int) = 0
  <2>1. ThisQueue = <<RunQueueEvent(Spawn, TcpHandle)>> /\ NextQueue = << >> /\ Posted = << >>
    BY <1>1 DEF ThisQueue, NextQueue, Posted, next_run_queue_idx
  <2>2. \A k \in DOMAIN ThisQueue : ThisQueue[k] \notin AcceptsOf(Int)
    BY <2>1, AcceptsAreAccepts DEF IsSpawn, RunQueueEvent, Spawn
  <2>3. Where(ThisQueue, AcceptsOf(Int)) = {}
    BY <2>2 DEF Where
  <2>4. Where(NextQueue, AcceptsOf(Int)) = {} /\ Where(Posted, AcceptsOf(Int)) = {}
        /\ Where(intents, SpawnsOf(Int)) = {}
    BY <1>1, <2>1 DEF Where
  <2>5. Cardinality({}) = 0
    BY FS_EmptySet
  <2>6. /\ Count(ThisQueue, AcceptsOf(Int)) = 0 /\ Count(NextQueue, AcceptsOf(Int)) = 0
        /\ Count(Posted, AcceptsOf(Int)) = 0 /\ Count(intents, SpawnsOf(Int)) = 0
    BY <2>3, <2>4, <2>5 DEF Count
  <2> QED
    BY <2>6 DEF Incoming, OnWay
<1>4. Expected = Cardinality(Conns) /\ Cardinality(Conns) \in Nat /\ Cardinality({}) = 0
  BY <1>1, <1>3, FS_EmptySet, FS_CardinalityType DEF Expected
<1>5. /\ \A i \in 0 .. NHandlers - 1 : conn_alloc.generation[i] = 0
      /\ \A b \in 0 .. NBufs - 1 : io_bufs.generation[b] = 0
  BY <1>1 DEF NewAlloc
<1> QED
  BY <1>2, <1>4, <1>5 DEF GenerationsBound

-----------------------------------------------------------------------------
(* How long the run queues get.  What is in a run queue, once the listener *)
(* has started, is a result of the accept or an event of a machine in the  *)
(* pool.                                                                   *)
LEMMA QueuedEvent ==
  ASSUME Before, ListenerStartsOnce, ~Seeded, NEW q \in {0, 1}, NEW k \in DOMAIN run_queues[q],
         NEW e, e = run_queues[q][k]
  PROVE  \/ e \in AcceptsOf(Int)
         \/ /\ e.handle \in ConnHandles /\ e.handle.index \in Occupied /\ Resolves(e.handle)
            /\ e \in EventsFor(e.handle)
<1>1. TypeOK /\ run_queues[q] \in Seq(RunQueueEvents)
  BY DEF Before, TypeOK
<1>2. e \in RunQueueEvents /\ e \in ToSet(run_queues[q]) /\ e \in QueuedEvents
  BY <1>1 DEF ToSet, QueuedEvents
<1>3. CASE e.handle \in ConnHandles
  <2>1. e \in WayEvents
    BY <1>2 DEF WayEvents
  <2>2. EventTask(e) \in Tasks /\ EventTask(e).user = e.handle
    BY <2>1, TasksThere DEF EventTask, Task
  <2>3. e.handle.index \in 0 .. NHandlers - 1 /\ Resolves(e.handle) /\ Live(e.handle.index)
    BY <1>3, <2>2, TaskMachine DEF Before
  <2> QED
    BY <1>2, <1>3, <2>3 DEF Occupied, EventsFor
<1>4. CASE e.handle \notin ConnHandles
  <2>1. e.handle = TcpHandle /\ e.reason \in Events(AcceptResults)
    BY <1>2, <1>4, EventKinds, HandleKinds DEF Handles
  <2>2. ~IsSpawn(e)
    BY <1>2, <2>1 DEF ListenerStartsOnce
  <2>3. e.reason.kind = "IoCompleted" /\ e.reason.res \in Int
    BY <2>1, <2>2 DEF Events, IsSpawn, AcceptResults, Spawn, IoCompleted
  <2> QED
    BY <1>2, <2>1, <2>3 DEF AcceptsOf, TcpCompletions
<1> QED
  BY <1>3, <1>4

(* So the machines' events go into one place each.                         *)
LEMMA QueueLength ==
  ASSUME Before, NEW q \in {0, 1}, NEW S, S \subseteq 0 .. NHandlers - 1,
         \A k \in DOMAIN run_queues[q] :
           LET e == run_queues[q][k]
           IN  \/ e \in AcceptsOf(Int)
               \/ /\ e.handle \in ConnHandles /\ e.handle.index \in S /\ Resolves(e.handle)
                  /\ e \in EventsFor(e.handle)
  PROVE  /\ Count(run_queues[q], AcceptsOf(Int)) \in Nat
         /\ Len(run_queues[q]) <= Count(run_queues[q], AcceptsOf(Int)) + Cardinality(S)
<1> DEFINE s == run_queues[q]
           A == Where(s, AcceptsOf(Int))
           W == DOMAIN s \ A
           f == [k \in W |-> s[k].handle.index]
<1>1. TypeOK /\ s \in Seq(RunQueueEvents) /\ ExactlyOne /\ panic = "no"
  BY DEF Before, TypeOK
<1>2. IsFiniteSet(DOMAIN s) /\ Cardinality(DOMAIN s) = Len(s) /\ Len(s) \in Nat
  BY <1>1, LengthCounts, Zenon
<1>3. IsFiniteSet(A) /\ Cardinality(A) \in Nat /\ Count(s, AcceptsOf(Int)) = Cardinality(A)
  BY <1>1, CountType DEF Count
<1>4. A \subseteq DOMAIN s /\ IsFiniteSet(W) /\ Cardinality(W) \in Nat
  BY <1>2, FS_Subset, FS_CardinalityType DEF Where
<1>5. \A k \in W : /\ s[k].handle \in ConnHandles /\ s[k].handle.index \in S
                   /\ Resolves(s[k].handle) /\ s[k] \in EventsFor(s[k].handle)
  BY DEF Where
<1>6. f \in [W -> S]
  BY <1>5
<1>7. ASSUME NEW j \in W, NEW k \in W, f[j] = f[k] PROVE j = k
  <2>1. s[j].handle = s[k].handle
    BY <1>1, <1>5, <1>7, SameIndexResolves
  <2>2. PICK h \in ConnHandles : h = s[j].handle
    BY <1>5
  <2>3. Count(s, EventsFor(h)) <= 1
    BY <1>1, OnePlace
  <2>4. j \in DOMAIN s /\ k \in DOMAIN s /\ s[j] \in EventsFor(h) /\ s[k] \in EventsFor(h)
    BY <1>5, <2>1, <2>2
  <2> QED
    BY <1>1, <2>3, <2>4, CountOnce, Zenon
<1>8. IsFiniteSet(S) /\ Cardinality(S) \in Nat
  BY PlaceCounts
<1> HIDE DEF f
<1>9. Cardinality(W) <= Cardinality(S)
  BY <1>4, <1>6, <1>7, <1>8, FitsInto
<1>10. Cardinality(W) = Cardinality(DOMAIN s) - Cardinality(A)
  <2>1. Cardinality(DOMAIN s \ A) = Cardinality(DOMAIN s) - Cardinality(DOMAIN s \cap A)
    BY <1>2, FS_Difference
  <2>2. DOMAIN s \cap A = A
    BY <1>4
  <2> QED
    BY <2>1, <2>2
<1> QED
  BY <1>2, <1>3, <1>4, <1>8, <1>9, <1>10

(* The machines there are and the clients still to come are no more than   *)
(* the clients there ever were.                                            *)
LEMMA PlacesRoom ==
  ASSUME IsFiniteSet(Conns), TypeOK, GenerationsBound
  PROVE  /\ Expected \in Nat /\ Cardinality(Occupied) \in Nat /\ Cardinality(Conns) \in Nat
         /\ Expected + Cardinality(Occupied) <= Cardinality(Conns)
         /\ Incoming(Int) \in Nat /\ Incoming(Int) <= Expected
<1>1. /\ Cardinality(waiting) \in Nat /\ Incoming(Int) \in Nat /\ Expected \in Nat
      /\ Expected = Cardinality(waiting) + Incoming(Int)
  BY ExpectedType DEF Expected
<1>2. Cardinality(Occupied) \in Nat
  <2>1. Occupied \subseteq 0 .. NHandlers - 1
    BY DEF Occupied
  <2> QED
    BY <2>1, PlaceCounts
<1>3. Cardinality(Conns) \in Nat
  BY FS_CardinalityType
<1>4. /\ 0 \in 0 .. NHandlers - 1 /\ conn_alloc.generation[0] \in Nat
      /\ conn_alloc.generation[0] + Expected + Cardinality(Occupied) <= Cardinality(Conns)
  BY GenerationTypes DEF GenerationsBound
<1> QED
  BY <1>1, <1>2, <1>3, <1>4

(* A machine that has no event in a queue leaves its place there.          *)
LEMMA OnePlaceLess ==
  ASSUME Before, ListenerStartsOnce, ~Seeded, NEW q \in {0, 1},
         NEW h \in ConnHandles, h.index \in Occupied, Resolves(h),
         Count(run_queues[q], EventsFor(h)) = 0
  PROVE  /\ Count(run_queues[q], AcceptsOf(Int)) \in Nat
         /\ Len(run_queues[q]) + 1 <= Count(run_queues[q], AcceptsOf(Int)) + Cardinality(Occupied)
<1>1. TypeOK /\ run_queues[q] \in Seq(RunQueueEvents) /\ Occupied \subseteq 0 .. NHandlers - 1
  BY DEF Before, TypeOK, Occupied
<1>2. \A k \in DOMAIN run_queues[q] : run_queues[q][k] \notin EventsFor(h)
  BY <1>1, CountType
<1>3. PICK i \in 0 .. NHandlers - 1 : i = h.index
  BY <1>1
<1>4. \A k \in DOMAIN run_queues[q] :
        LET e == run_queues[q][k]
        IN  \/ e \in AcceptsOf(Int)
            \/ /\ e.handle \in ConnHandles /\ e.handle.index \in Occupied \ {i} /\ Resolves(e.handle)
               /\ e \in EventsFor(e.handle)
  <2> SUFFICES ASSUME NEW k \in DOMAIN run_queues[q], NEW e, e = run_queues[q][k],
                      e \notin AcceptsOf(Int)
               PROVE  /\ e.handle \in ConnHandles /\ e.handle.index \in Occupied \ {i} /\ Resolves(e.handle)
                      /\ e \in EventsFor(e.handle)
    OBVIOUS
  <2>1. /\ e.handle \in ConnHandles /\ e.handle.index \in Occupied /\ Resolves(e.handle)
        /\ e \in EventsFor(e.handle)
    BY QueuedEvent
  <2>2. e.handle # h
    BY <1>2, <2>1
  <2>3. e.handle.index # i
    BY <1>1, <1>3, <2>1, <2>2, SameIndexResolves
  <2> QED
    BY <2>1, <2>3
<1>5. /\ Count(run_queues[q], AcceptsOf(Int)) \in Nat
      /\ Len(run_queues[q]) <= Count(run_queues[q], AcceptsOf(Int)) + Cardinality(Occupied \ {i})
  <2>1. Occupied \ {i} \subseteq 0 .. NHandlers - 1
    BY <1>1
  <2> QED
    BY <1>4, <2>1, QueueLength
<1>6. Cardinality(Occupied \ {i}) = Cardinality(Occupied) - 1 /\ Cardinality(Occupied) \in Nat
  BY <1>1, <1>3, PlaceCounts
<1>7. Len(run_queues[q]) \in Nat
  BY <1>1
<1> QED
  BY <1>5, <1>6, <1>7

(* The accepts on the way, by where they are.                              *)
LEMMA IncomingParts ==
  ASSUME TypeOK
  PROVE  /\ Count(ThisQueue, AcceptsOf(Int)) \in Nat /\ Count(NextQueue, AcceptsOf(Int)) \in Nat
         /\ Count(Posted, AcceptsOf(Int)) \in Nat /\ Count(intents, SpawnsOf(Int)) \in Nat
         /\ Incoming(Int) = Count(ThisQueue, AcceptsOf(Int)) + Count(NextQueue, AcceptsOf(Int))
                              + Count(Posted, AcceptsOf(Int)) + Count(intents, SpawnsOf(Int))
<1>1. /\ Count(ThisQueue, AcceptsOf(Int)) \in Nat /\ Count(NextQueue, AcceptsOf(Int)) \in Nat
      /\ Count(Posted, AcceptsOf(Int)) \in Nat /\ Count(intents, SpawnsOf(Int)) \in Nat
  BY OnWayType, IncomingType, Zenon DEF OnWayCounts, IncomingCounts
<1> QED
  BY <1>1 DEF Incoming, OnWay

(* There is room for one more event whenever the executor pushes one:      *)
(* what it pushes is of a machine that is in neither queue, or one more    *)
(* accept.  The first case is a machine that could get no buffer.          *)
LEMMA RetryFits ==
  ASSUME Before, ListenerStartsOnce, ~Seeded, IsFiniteSet(Conns), GenerationsBound,
         Cardinality(Conns) <= RunQueueSize, CompleteRetry
  PROVE  CanPush(next_run_queue_idx)
<1>1. /\ TypeOK /\ intents # << >> /\ ExactlyOne /\ panic = "no"
      /\ Head(intents).kind = "Retry"
  BY DEF Before, CompleteRetry, AtIntent
<1>2. current \in ConnHandles
  BY <1>1, IntentKinds
<1>3. current.index \in Occupied /\ Resolves(current)
  BY <1>1, <1>2, FirstIntent DEF Occupied
<1>4. PICK q \in {0, 1} : q = next_run_queue_idx
  BY <1>1 DEF TypeOK, next_run_queue_idx
<1>5. Count(run_queues[q], EventsFor(current)) = 0
  BY <1>1, <1>2, OnePlace
<1>6. NextQueue = run_queues[q] /\ Len(run_queues[q]) \in Nat
  BY <1>1, <1>4 DEF NextQueue, TypeOK
<1>7. Len(run_queues[q]) + 1 <= Count(run_queues[q], AcceptsOf(Int)) + Cardinality(Occupied)
  BY <1>2, <1>3, <1>5, OnePlaceLess
<1>8. Count(run_queues[q], AcceptsOf(Int)) \in Nat /\ Count(run_queues[q], AcceptsOf(Int)) <= Incoming(Int)
  BY <1>1, <1>6, IncomingParts
<1> QED
  BY <1>1, <1>4, <1>6, <1>7, <1>8, PlacesRoom DEF CanPush, RunQueueSize

(* The first event of a new machine takes the room of its accept.          *)
LEMMA SpawnFits ==
  ASSUME Before, ListenerStartsOnce, ~Seeded, IsFiniteSet(Conns), GenerationsBound,
         Cardinality(Conns) <= RunQueueSize, CompleteSpawn
  PROVE  CanPush(current_run_queue)
<1>1. /\ TypeOK /\ intents # << >> /\ intents \in Seq(IntentsOf(current))
      /\ Head(intents).kind = "SpawnConnHandler"
  BY DEF Before, CompleteSpawn, AtIntent, TypeOK
<1>2. PICK s \in Int : Head(intents) = SpawnConnHandler(s)
  <2>1. Head(intents) \in TcpIntents
    BY <1>1, IntentKinds
  <2>2. \E s \in Slots : Head(intents) = SpawnConnHandler(s)
    BY <1>1, <2>1 DEF TcpIntents, SubmitMultishotAccept, Intent
  <2> QED
    BY <2>2 DEF Slots
<1>3. Count(intents, SpawnsOf(Int)) # 0
  <2>1. 1 \in DOMAIN intents /\ intents[1] \in SpawnsOf(Int)
    BY <1>1, <1>2 DEF SpawnsOf
  <2> QED
    BY <1>1, <2>1, CountType
<1>4. PICK q \in {0, 1} : q = current_run_queue
  BY <1>1 DEF TypeOK
<1>5. ThisQueue = run_queues[q] /\ Len(run_queues[q]) \in Nat
  BY <1>1, <1>4 DEF ThisQueue, TypeOK
<1>6. Len(run_queues[q]) <= Count(run_queues[q], AcceptsOf(Int)) + Cardinality(Occupied)
  <2>1. Occupied \subseteq 0 .. NHandlers - 1
    BY DEF Occupied
  <2>2. \A k \in DOMAIN run_queues[q] :
          LET e == run_queues[q][k]
          IN  \/ e \in AcceptsOf(Int)
              \/ /\ e.handle \in ConnHandles /\ e.handle.index \in Occupied /\ Resolves(e.handle)
                 /\ e \in EventsFor(e.handle)
    BY QueuedEvent
  <2> QED
    BY <2>1, <2>2, QueueLength
<1>7. /\ Count(run_queues[q], AcceptsOf(Int)) \in Nat
      /\ Count(run_queues[q], AcceptsOf(Int)) + 1 <= Incoming(Int)
  BY <1>1, <1>3, <1>5, IncomingParts
<1> QED
  BY <1>1, <1>4, <1>5, <1>6, <1>7, PlacesRoom DEF CanPush, RunQueueSize

(* A completion that is reaped was in no queue before.                     *)
LEMMA ReapFits ==
  ASSUME Before, ListenerStartsOnce, ~Seeded, IsFiniteSet(Conns), GenerationsBound,
         Cardinality(Conns) <= RunQueueSize, Reap
  PROVE  CanPush(next_run_queue_idx)
<1>1. /\ TypeOK /\ cq # << >> /\ cq \in Seq(Cqes) /\ ExactlyOne /\ panic = "no"
  BY DEF Before, Reap, TypeOK
<1>2. PICK q \in {0, 1} : q = next_run_queue_idx
  BY <1>1 DEF TypeOK, next_run_queue_idx
<1>3. NextQueue = run_queues[q] /\ Len(run_queues[q]) \in Nat
  BY <1>1, <1>2 DEF NextQueue, TypeOK
<1>4. PICK r \in Cqes : r = Head(cq)
  BY <1>1, PopType
<1>5. 1 \in DOMAIN cq /\ cq[1] = r
  BY <1>1, <1>4
<1>6. CASE r.user \in ConnHandles
  <2>1. Count(cq, RequestsBy(r.user)) # 0
    <3>1. cq[1] \in RequestsBy(r.user)
      BY <1>5 DEF RequestsBy
    <3> QED
      BY <1>1, <1>5, <3>1, CountType
  <2>2. Count(run_queues[q], EventsFor(r.user)) = 0
    BY <1>1, <1>6, <2>1, OnePlace
  <2>3. r.user.index \in Occupied /\ Resolves(r.user)
    <3>1. EventOf(r) \in WayEvents /\ EventOf(r).handle = r.user
      BY <1>5, EventOfType DEF WayEvents, ToSet
    <3>2. EventTask(EventOf(r)) \in Tasks /\ EventTask(EventOf(r)).user = r.user
      BY <3>1, TasksThere DEF EventTask, Task
    <3> QED
      BY <1>6, <3>2, TaskMachine DEF Before, Occupied
  <2>4. Len(run_queues[q]) + 1 <= Count(run_queues[q], AcceptsOf(Int)) + Cardinality(Occupied)
    BY <1>6, <2>2, <2>3, OnePlaceLess
  <2>5. Count(run_queues[q], AcceptsOf(Int)) \in Nat /\ Count(run_queues[q], AcceptsOf(Int)) <= Incoming(Int)
    BY <1>1, <1>3, IncomingParts
  <2> QED
    BY <1>1, <1>2, <1>3, <2>4, <2>5, PlacesRoom DEF CanPush, RunQueueSize
<1>7. CASE r.user \notin ConnHandles
  <2>1. r.user = TcpHandle /\ r.res \in Int
    BY <1>7 DEF Cqes, AcceptResults
  <2>2. EventOf(r) \in AcceptsOf(Int)
    BY <2>1, AcceptsAreAccepts
  <2>3. Count(Posted, AcceptsOf(Int)) # 0
    <3>1. Posted \in Seq(RunQueueEvents) /\ 1 \in DOMAIN Posted /\ Posted[1] = EventOf(r)
      BY <1>1, <1>5, WayTypes DEF Posted
    <3> QED
      BY <2>2, <3>1, CountType
  <2>4. Len(run_queues[q]) <= Count(run_queues[q], AcceptsOf(Int)) + Cardinality(Occupied)
    <3>1. Occupied \subseteq 0 .. NHandlers - 1
      BY DEF Occupied
    <3>2. \A k \in DOMAIN run_queues[q] :
            LET e == run_queues[q][k]
            IN  \/ e \in AcceptsOf(Int)
                \/ /\ e.handle \in ConnHandles /\ e.handle.index \in Occupied /\ Resolves(e.handle)
                   /\ e \in EventsFor(e.handle)
      BY QueuedEvent
    <3> QED
      BY <3>1, <3>2, QueueLength
  <2>5. /\ Count(run_queues[q], AcceptsOf(Int)) \in Nat
        /\ Count(run_queues[q], AcceptsOf(Int)) + 1 <= Incoming(Int)
    BY <1>1, <1>3, <2>3, IncomingParts
  <2> QED
    BY <1>1, <1>2, <1>3, <2>4, <2>5, PlacesRoom DEF CanPush, RunQueueSize
<1> QED
  BY <1>6, <1>7

-----------------------------------------------------------------------------
(* No generation runs out: one that is at its end has been given back by   *)
(* every client, and the machine at hand is of one more.                   *)
LEMMA GenerationsLast ==
  ASSUME Before, GenerationsBound, IsFiniteSet(Conns), Cardinality(Conns) < GenSpan
  PROVE  /\ \A i \in Receiving : ~FreePanics(io_bufs, conn_data[i].buf_handle)
         /\ current \in ConnHandles /\ current.index \in Occupied => ~FreePanics(conn_alloc, current)
<1>1. TypeOK
  BY DEF Before
<1>2. /\ Expected \in Nat /\ Cardinality(Conns) \in Nat
      /\ \A i \in 0 .. NHandlers - 1 : conn_alloc.generation[i] \in Nat
      /\ \A b \in 0 .. NBufs - 1 : io_bufs.generation[b] \in Nat
  BY <1>1, PlacesRoom, GenerationTypes
<1>3. ASSUME NEW i \in Receiving PROVE ~FreePanics(io_bufs, conn_data[i].buf_handle)
  <2>1. i \in Unclosed /\ Unclosed \subseteq 0 .. NHandlers - 1
    BY DEF Receiving, Unclosed, Fresh
  <2>2. Cardinality(Unclosed) \in Nat /\ Cardinality(Unclosed) # 0
    BY <2>1, PlaceCounts, FS_EmptySet
  <2> SUFFICES ASSUME Overflows(io_bufs, conn_data[i].buf_handle) PROVE FALSE
    BY DEF FreePanics
  <2>3. PICK b : b = conn_data[i].buf_handle.index
    OBVIOUS
  <2>4. b \in DOMAIN io_bufs.generation /\ io_bufs.generation[b] = GenSpan - 1
    BY <2>3 DEF Overflows, IsValid
  <2>5. b \in 0 .. NBufs - 1
    BY <1>1, <2>4 DEF TypeOK, GenAllocs
  <2>6. io_bufs.generation[b] + Expected + Cardinality(Unclosed) <= Cardinality(Conns)
    BY <2>5 DEF GenerationsBound
  <2> QED
    BY <1>2, <2>2, <2>4, <2>6
<1>4. ASSUME current \in ConnHandles, current.index \in Occupied PROVE ~FreePanics(conn_alloc, current)
  <2>1. Occupied \subseteq 0 .. NHandlers - 1
    BY DEF Occupied
  <2>2. Cardinality(Occupied) \in Nat /\ Cardinality(Occupied) # 0
    BY <1>4, <2>1, PlaceCounts, FS_EmptySet
  <2> SUFFICES ASSUME Overflows(conn_alloc, current) PROVE FALSE
    BY DEF FreePanics
  <2>3. PICK i \in 0 .. NHandlers - 1 : i = current.index
    BY <1>4, <2>1
  <2>4. conn_alloc.generation[i] = GenSpan - 1
    BY <2>3 DEF Overflows
  <2>5. conn_alloc.generation[i] + Expected + Cardinality(Occupied) <= Cardinality(Conns)
    BY DEF GenerationsBound
  <2> QED
    BY <1>2, <2>2, <2>4, <2>5
<1> QED
  BY <1>3, <1>4

(* What the theorems on panics take for granted: a client that sends less  *)
(* than a buffer, a submission queue with an entry for every machine and   *)
(* one for the accept, reads that fail with no error that retries, closes  *)
(* or panics, system calls that work, and checked arithmetic.              *)
Moderate ==
  /\ MaxStream < BufSize /\ SqEntries > NHandlers
  /\ HarmlessErrnos /\ OverflowChecks /\ ~EnterFails

(* No more clients than a run queue has places, nor than a generation      *)
(* counts.                                                                 *)
FewClients ==
  IsFiniteSet(Conns) /\ Cardinality(Conns) <= RunQueueSize /\ Cardinality(Conns) < GenSpan

(* The invariant, whatever the number of clients.                          *)
Sane ==
  /\ PeersInv /\ FailuresEnd /\ ArmedOnce /\ EventsInv
  /\ panic = "no" => NoneFatal /\ PoolInv

(* Where a step that finds the executor running can stop it.               *)
StopsAt ==
  \/ /\ panic' = "run queue full"
     /\ \/ CompleteRetry /\ ~CanPush(next_run_queue_idx)
        \/ CompleteSpawn /\ ~CanPush(current_run_queue)
        \/ Reap /\ ~CanPush(next_run_queue_idx)
  \/ /\ panic' = "generation overflow"
     /\ \/ \E i \in Receiving : FreePanics(io_bufs, conn_data[i].buf_handle)
        \/ CompleteTerminate /\ FreePanics(conn_alloc, current)

(* No step stops the executor but at these places.                         *)
LEMMA StepPanics ==
  ASSUME Moderate, Sane, panic = "no", [Next]_vars, panic' # "unreachable"
  PROVE  panic' = "no" \/ StopsAt
<1>1. /\ Before /\ TypeOK /\ NoneFatal /\ ArmedOnce
      /\ ConnExact /\ SocketsDistinct /\ SpawnsFree
  BY DEF Sane, PeersInv, Before, PoolInv
<1>2. CASE DispatchTcp \/ DispatchMissing
  BY <1>1, <1>2, ListenerPanics
<1>3. CASE DispatchConn
  BY <1>1, <1>3, MachinePanics DEF StopsAt
<1>4. CASE CompleteRetry
  BY <1>4 DEF CompleteRetry, IntentDone, Crash, StopsAt
<1>5. CASE CompleteSpawn
  BY <1>1, <1>5, SpawnPanics DEF StopsAt
<1>6. CASE CompleteAccept \/ CompleteRecv \/ CompleteClose
  BY <1>1, <1>6, RequestPanics DEF Moderate
<1>7. CASE CompleteTerminate
  BY <1>7 DEF CompleteTerminate, IntentDone, Crash, StopsAt
<1>8. CASE Reap
  BY <1>8 DEF Reap, contextVars, Crash, StopsAt
<1>9. ~EnterError
  BY DEF EnterError, Moderate
<1>10. CASE \/ DrainDone \/ IntentsDone \/ SubmitShortcut \/ SubmitEnter \/ EnterReturns
            \/ ReapDone \/ UNCHANGED vars
  BY <1>10 DEF DrainDone, IntentsDone, SubmitShortcut, SubmitEnter, EnterReturns, ReapDone,
     vars, contextVars
<1>11. CASE KernelStep
  BY <1>11 DEF KernelStep, EnterIssues, KernelAccepts, KernelRefuses, KernelReads, KernelFails,
     KernelEnds, ProgramUnchanged, contextVars
<1> QED
  BY <1>2, <1>3, <1>4, <1>5, <1>6, <1>7, <1>8, <1>9, <1>10, <1>11 DEF Next, Thread, KernelStep

(* The invariant holds at the start.                                       *)
LEMMA InitSane ==
  ASSUME Init
  PROVE  Sane /\ panic = "no"
<1>1. NoneFatal
  <2>1. /\ run_queues = [q \in {0, 1} |->
                           IF q = 0 THEN <<RunQueueEvent(Spawn, TcpHandle)>> ELSE << >>]
        /\ cq = << >>
    BY DEF Init, UringInit
  <2>2. WayEvents \subseteq {RunQueueEvent(Spawn, TcpHandle)}
    BY <2>1 DEF WayEvents, ToSet
  <2> QED
    BY <2>2 DEF NoneFatal, FatalEvent, IsSpawn, RunQueueEvent, Spawn
<1> QED
  BY <1>1, InitPeers, InitArmed, InitFit, InitPool DEF Sane, Init

(* Every step keeps it, one that panics included.                          *)
LEMMA NextSane ==
  ASSUME Moderate, Sane, [Next]_vars
  PROVE  Sane' /\ panic' # "unreachable"
<1>1. CalmErrnos /\ OverflowChecks /\ HarmlessErrnos
  BY HarmlessCalm DEF Moderate
<1>2. PeersInv'
  BY <1>1, NextPeers DEF Sane
<1>3. TypeOK /\ TypeOK' /\ ExactlyOne'
  BY <1>2 DEF Sane, PeersInv
<1>4. FailuresEnd' /\ ArmedOnce'
  BY <1>3, NextArmed DEF Sane
<1>5. EventsInv'
  BY <1>1, <1>3, FirstStep, ReadyFit, StutterFit DEF Ready, Sane
<1>6. ASSUME panic' = "no" PROVE NoneFatal' /\ PoolInv'
  <2>1. panic = "no" /\ NoneFatal /\ PoolInv
    BY <1>6, StaysRunning DEF Sane
  <2>2. Before /\ After
    BY <1>3, <1>6, <2>1 DEF Sane, PeersInv, Before, After
  <2> QED
    BY <1>1, <1>3, <2>1, <2>2, NextNoneFatal, NextPool
<1> QED
  BY <1>2, <1>4, <1>5, <1>6 DEF Sane, EventsInv, NoUnreachable

(* After a panic nothing happens any more.                                 *)
LEMMA StoppedStays ==
  ASSUME [Next]_vars, panic # "no"
  PROVE  panic' = panic
<1>1. CASE DispatchTcp \/ DispatchConn \/ DispatchMissing
  BY <1>1 DEF DispatchTcp, DispatchConn, DispatchMissing, Pop, Running
<1>2. CASE \/ CompleteRetry \/ CompleteAccept \/ CompleteSpawn \/ CompleteRecv
           \/ CompleteClose \/ CompleteTerminate
  BY <1>2 DEF CompleteRetry, CompleteAccept, CompleteSpawn, CompleteRecv, CompleteClose,
     CompleteTerminate, AtIntent, Running
<1>3. CASE \/ DrainDone \/ IntentsDone \/ SubmitShortcut \/ SubmitEnter \/ EnterReturns
           \/ EnterError \/ Reap \/ ReapDone \/ UNCHANGED vars
  BY <1>3 DEF DrainDone, IntentsDone, SubmitShortcut, SubmitEnter, EnterReturns, EnterError,
     Reap, ReapDone, At, Running, vars, contextVars
<1>4. CASE KernelStep
  BY <1>4 DEF KernelStep, EnterIssues, KernelAccepts, KernelRefuses, KernelReads, KernelFails,
     KernelEnds, At, Running
<1> QED
  BY <1>1, <1>2, <1>3, <1>4 DEF Next, Thread, KernelStep

(* However many clients come, the executor stops for nothing but a run     *)
(* queue that is full or a generation that has run out.                    *)
PanicsOnlyWhenFull == panic \in {"no", "run queue full", "generation overflow"}

(* However many clients come, in whatever order the kernel completes their *)
(* requests: of all the unwraps, assertions and unreachable!()s of the     *)
(* executor's path only those of a full run queue (executor/mod.rs:115,    *)
(* 132, 151) and the arithmetic check of a generation that has run out     *)
(* (hoarder-collections/src/alloc.rs:106) can ever fire.  The handler pool *)
(* is never full and its place never taken, no buffer is stale, no offset  *)
(* is past a buffer, no submission finds the queue full.  Under the        *)
(* assumptions of Moderate: exec_full_buffer, exec_reset and               *)
(* exec_second_close show what happens where streams or errors are not as  *)
(* it says.                                                                *)
THEOREM ExecPanicsOnlyWhenFull ==
  ASSUME Moderate
  PROVE  Spec => []PanicsOnlyWhenFull
<1>1. Init => Sane /\ PanicsOnlyWhenFull
  BY InitSane DEF PanicsOnlyWhenFull
<1>2. Sane /\ PanicsOnlyWhenFull /\ [Next]_vars => (Sane /\ PanicsOnlyWhenFull)'
  <2> SUFFICES ASSUME Sane, PanicsOnlyWhenFull, [Next]_vars
               PROVE  Sane' /\ PanicsOnlyWhenFull'
    OBVIOUS
  <2>1. Sane' /\ panic' # "unreachable"
    BY NextSane
  <2>2. PanicsOnlyWhenFull'
    <3>1. CASE panic = "no"
      BY <2>1, <3>1, StepPanics DEF StopsAt, PanicsOnlyWhenFull
    <3>2. CASE panic # "no"
      BY <3>2, StoppedStays DEF PanicsOnlyWhenFull
    <3> QED
      BY <3>1, <3>2
  <2> QED
    BY <2>1, <2>2
<1> QED
  BY <1>1, <1>2, PTL DEF Spec

(* The invariant, for few clients.                                         *)
PanicFree == Sane /\ GenerationsBound /\ panic = "no"

(* With few clients no step panics.                                        *)
LEMMA StepRuns ==
  ASSUME Moderate, FewClients, PanicFree, [Next]_vars, panic' # "unreachable"
  PROVE  panic' = "no"
<1>1. /\ Before /\ TypeOK /\ ListenerStartsOnce /\ GenerationsBound /\ Sane /\ panic = "no"
      /\ IsFiniteSet(Conns) /\ Cardinality(Conns) <= RunQueueSize /\ Cardinality(Conns) < GenSpan
  BY DEF PanicFree, Sane, PeersInv, Before, EventsInv, FewClients
<1>2. CompleteRetry \/ CompleteSpawn \/ Reap => ~Seeded
  BY DEF CompleteRetry, CompleteSpawn, Reap, AtIntent, At, Seeded
<1>3. /\ CompleteRetry => CanPush(next_run_queue_idx)
      /\ CompleteSpawn => CanPush(current_run_queue)
      /\ Reap => CanPush(next_run_queue_idx)
  BY <1>1, <1>2, RetryFits, SpawnFits, ReapFits
<1>4. CompleteTerminate => current \in ConnHandles /\ current.index \in Occupied
  <2> SUFFICES ASSUME CompleteTerminate PROVE current \in ConnHandles /\ current.index \in Occupied
    OBVIOUS
  <2>1. current \in ConnHandles /\ intents # << >>
    BY <1>1, IntentKinds DEF CompleteTerminate, AtIntent
  <2> QED
    BY <1>1, <2>1, FirstIntent DEF Occupied
<1>5. ~StopsAt
  BY <1>1, <1>3, <1>4, GenerationsLast DEF StopsAt
<1> QED
  BY <1>1, <1>5, StepPanics

(* So every step keeps the executor running.                               *)
LEMMA NextPanicFree ==
  ASSUME Moderate, FewClients, PanicFree, [Next]_vars
  PROVE  PanicFree'
<1>1. Sane /\ Sane' /\ panic = "no" /\ panic' = "no" /\ GenerationsBound
  BY NextSane, StepRuns DEF PanicFree
<1>2. Before /\ After
  BY <1>1 DEF Sane, PeersInv, Before, After
<1>3. GenerationsBound'
  BY <1>1, <1>2, NextGenerationsBound DEF Moderate, FewClients
<1> QED
  BY <1>1, <1>3 DEF PanicFree

(* And with no more clients than a run queue has places, which are two for *)
(* each machine (executor/mod.rs:33), nor than a generation counts, none   *)
(* of these panics ever happens either (executor/mod.rs:105-182,           *)
(* conn_handler.rs:52-120, tcp_server.rs:40-58): whatever is pushed to a   *)
(* run queue is of a client that is in neither, and a generation is raised *)
(* once for each client at most.  One client more and a queue may be full  *)
(* (exec_run_queue).                                                       *)
THEOREM ExecNoPanic ==
  ASSUME Moderate, FewClients
  PROVE  Spec => []NoPanic
<1>1. Init => PanicFree
  BY InitSane, InitGenerationsBound DEF PanicFree, FewClients
<1>2. PanicFree /\ [Next]_vars => PanicFree'
  BY NextPanicFree
<1>3. PanicFree => NoPanic
  BY DEF PanicFree, NoPanic
<1> QED
  BY <1>1, <1>2, <1>3, PTL DEF Spec
=============================================================================
