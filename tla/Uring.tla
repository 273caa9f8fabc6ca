------------------------------- MODULE Uring --------------------------------
(***************************************************************************)
(* UringIO (hoarder-io/src/lib.rs) and the kernel behind it.  The queues   *)
(* are the program's side; the rest is the kernel as the program uses it:  *)
(* one listening socket with a multishot accept that takes direct          *)
(* descriptors from a sparse file table, fixed-buffer reads, and closes of *)
(* direct descriptors.                                                     *)
(*                                                                         *)
(* The kernel takes the entries of the submission queue one by one, in     *)
(* order, while the program is in io_uring_enter; a close of a direct      *)
(* descriptor completes there and then, a read holds on to the connection  *)
(* it found in its slot until data, end of stream or an error completes    *)
(* it.  Completions of pending requests come at any time and in any order. *)
(***************************************************************************)
EXTENDS ExecutorProtocol, SequencesExt

CONSTANTS
  SqEntries,   \* entries of the submission queue (4096)
  MaxStream,   \* bound: bytes a client sends
  RecvErrnos,  \* the errors a read may complete with
  MaxFaults,   \* bound: reads that complete with an error in one behaviour
  EnterFails   \* whether io_uring_enter may fail or be interrupted

ASSUME UringAssumption ==
  /\ SqEntries \in Nat \ {0}
  /\ MaxStream \in Nat
  /\ RecvErrnos \subseteq Errnos
  /\ MaxFaults \in Nat
  /\ EnterFails \in BOOLEAN

VARIABLES
  sq,        \* submission queue
  cq,        \* completion queue
  accepts,   \* number of multishot accepts the kernel has armed
  reads,     \* the reads the kernel has pending
  files,     \* the fixed-file table: which connection each slot holds
  waiting,   \* clients that have not been accepted
  sent,      \* bytes of each client's stream that a read has taken
  fin,       \* clients whose end of stream has been seen
  faults     \* reads that have completed with an error

ringVars == <<sq, cq>>
kernelVars == <<accepts, reads, files, waiting, sent, fin, faults>>

(* opcode::ReadFixed, Close and AcceptMulti with their user data; addr,    *)
(* len and buf are the target of a read and the iovec that it lies in.     *)
ReadFixed(user, fixed, addr, len, buf) ==
  [op |-> "recv", user |-> user, fixed |-> fixed, addr |-> addr, len |-> len, buf |-> buf]

CloseSqe(user, fixed) == [op |-> "close", user |-> user, fixed |-> fixed]

AcceptMulti(user) == [op |-> "accept", user |-> user]

Sqes ==
  {AcceptMulti(TcpHandle)}
    \cup [op : {"recv"}, user : ConnHandles, fixed : Slots, addr : Addresses,
          len : 1 .. BufSize, buf : 0 .. NBufs - 1]
    \cup [op : {"close"}, user : ConnHandles, fixed : Slots]

Cqe(user, res, more) == [user |-> user, res |-> res, more |-> more]

Cqes ==
  [user : {TcpHandle}, res : AcceptResults, more : BOOLEAN]
    \cup [user : ConnHandles, res : Int, more : BOOLEAN]

Reads == [user : ConnHandles, conn : Conns, addr : Addresses, len : 1 .. BufSize]

UringInit ==
  /\ sq = << >>
  /\ cq = << >>
  /\ accepts = 0
  /\ reads = << >>
  /\ files = [s \in Slots |-> None]
  /\ waiting = Conns
  /\ sent = [c \in Conns |-> 0]
  /\ fin = {}
  /\ faults = 0

(* enqueue(): the caller unwraps its error. *)
CanEnqueue == Len(sq) < SqEntries

Enqueue(sqe) == sq' = Append(sq, sqe)

Post(cqe) == cq' = Append(cq, cqe)

-----------------------------------------------------------------------------
(* The kernel takes one entry of the submission queue. *)
IssueAccept ==
  /\ Head(sq).op = "accept"
  /\ accepts' = accepts + 1
  /\ UNCHANGED <<cq, reads, files>>

IssueRecv ==
  /\ Head(sq).op = "recv"
  /\ LET e == Head(sq)
     IN  IF e.fixed \in Slots /\ files[e.fixed] # None
         THEN IF e.addr .. e.addr + e.len - 1 \subseteq Iovec(e.buf)
              THEN /\ reads' = Append(reads, [user |-> e.user, conn |-> files[e.fixed],
                                              addr |-> e.addr, len |-> e.len])
                   /\ UNCHANGED cq
              ELSE /\ Post(Cqe(e.user, -EFAULT, FALSE))
                   /\ UNCHANGED reads
         ELSE /\ Post(Cqe(e.user, -EBADF, FALSE))
              /\ UNCHANGED reads
  /\ UNCHANGED <<accepts, files>>

IssueClose ==
  /\ Head(sq).op = "close"
  /\ LET e == Head(sq)
     IN  IF e.fixed \in Slots /\ files[e.fixed] # None
         THEN /\ files' = [files EXCEPT ![e.fixed] = None]
              /\ Post(Cqe(e.user, 0, FALSE))
         ELSE /\ Post(Cqe(e.user, -EBADF, FALSE))
              /\ UNCHANGED files
  /\ UNCHANGED <<accepts, reads>>

Issue ==
  /\ sq # << >>
  /\ sq' = Tail(sq)
  /\ IssueAccept \/ IssueRecv \/ IssueClose
  /\ UNCHANGED <<waiting, sent, fin, faults>>

-----------------------------------------------------------------------------
(* A client connects and the accept puts it into a free slot. *)
AcceptCompletes(c) ==
  /\ accepts > 0
  /\ c \in waiting
  /\ waiting' = waiting \ {c}
  /\ \E s \in Slots, more \in BOOLEAN :
       /\ files[s] = None
       /\ files' = [files EXCEPT ![s] = c]
       /\ Post(Cqe(TcpHandle, s, more))
       /\ accepts' = IF more THEN accepts ELSE accepts - 1
  /\ UNCHANGED <<sq, reads, sent, fin, faults>>

(* A client connects when the file table is full: the connection is        *)
(* dropped and the multishot accept ends.                                  *)
AcceptOverflows(c) ==
  /\ accepts > 0
  /\ c \in waiting
  /\ \A s \in Slots : files[s] # None
  /\ waiting' = waiting \ {c}
  /\ accepts' = accepts - 1
  /\ Post(Cqe(TcpHandle, -ENFILE, FALSE))
  /\ UNCHANGED <<sq, reads, files, sent, fin, faults>>

(* Completion of the k-th pending read. *)
Completes(k, res) ==
  /\ reads' = RemoveAt(reads, k)
  /\ Post(Cqe(reads[k].user, res, FALSE))
  /\ UNCHANGED <<sq, accepts, files, waiting>>

(* Memory after n more bytes of connection c land at addr. *)
Filled(addr, c, n) ==
  [a \in Addresses |->
     IF a \in addr .. addr + n - 1 THEN <<c, sent[c] + (a - addr)>> ELSE mem[a]]

ReadCompletes(k, n) ==
  /\ reads[k].conn \notin fin
  /\ n <= reads[k].len
  /\ n <= MaxStream - sent[reads[k].conn]
  /\ Completes(k, n)
  /\ mem' = Filled(reads[k].addr, reads[k].conn, n)
  /\ sent' = [sent EXCEPT ![reads[k].conn] = @ + n]
  /\ UNCHANGED <<fin, faults>>

ReadEnds(k) ==
  /\ Completes(k, 0)
  /\ fin' = fin \cup {reads[k].conn}
  /\ UNCHANGED <<mem, sent, faults>>

ReadFails(k, errno) ==
  /\ faults < MaxFaults
  /\ faults' = faults + 1
  /\ Completes(k, -errno)
  /\ UNCHANGED <<mem, sent, fin>>
=============================================================================
