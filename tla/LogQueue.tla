------------------------------ MODULE LogQueue ------------------------------
(***************************************************************************)
(* What hoarder-log promises to the threads that use it: a FIFO of the     *)
(* log bytes.  A push hands over a whole line or nothing, the consumer     *)
(* writes what was handed over, in that order and once.                    *)
(***************************************************************************)
EXTENDS Naturals, Sequences

CONSTANT Lines   \* the log lines: non-empty sequences of bytes

VARIABLES
  queue,   \* bytes that have been pushed and not yet written
  out,     \* bytes that have been written
  crashed  \* whether a panic hook has written

vars == <<queue, out, crashed>>

Init == queue = << >> /\ out = << >> /\ crashed = FALSE

Push(line) ==
  /\ ~crashed
  /\ queue' = queue \o line
  /\ UNCHANGED <<out, crashed>>

(* The consumer writes a prefix of what is there. *)
Write ==
  \E n \in DOMAIN queue :
    /\ out' = out \o SubSeq(queue, 1, n)
    /\ queue' = SubSeq(queue, n + 1, Len(queue))
    /\ UNCHANGED crashed

Elements(s) == {s[k] : k \in DOMAIN s}

(* A panic hook writes bytes that were pushed, and may repeat some. *)
Dump ==
  /\ crashed' = TRUE
  /\ Len(out') >= Len(out) /\ SubSeq(out', 1, Len(out)) = out
  /\ Elements(out') \subseteq Elements(out) \cup Elements(queue)
  /\ UNCHANGED queue

Next == Write \/ Dump \/ \E line \in Lines : Push(line)

Spec == Init /\ [][Next]_vars

(* What has been pushed is written in the end, unless a panic intervenes. *)
Fairness == WF_vars(~crashed /\ Write)
=============================================================================
