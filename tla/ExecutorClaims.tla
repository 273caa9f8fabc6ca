--------------------------- MODULE ExecutorClaims ---------------------------
(***************************************************************************)
(* What a comment, an assertion or a test of the repository says of the    *)
(* executor, and the program does not do.  Each is checked by a run that   *)
(* TLC finds violated; README.md tells what happens in the counterexample. *)
(***************************************************************************)
EXTENDS ExecutorProperties

(* The unwrap at executor/mod.rs:158 takes the buffer of every SubmitRecv  *)
(* to be a valid one.                                                      *)
BufferIsValid == panic # "stale buffer"

(* The assertion at executor/mod.rs:157: a machine asks for a read only    *)
(* while there is room in its buffer.                                      *)
OffsetInBuffer == panic # "offset assertion"

(* The unwrap at executor/mod.rs:115, with the queue size of line 33: two  *)
(* entries for every connection handler are enough.                        *)
RunQueueSuffices == panic # "run queue full"

(* conn_handler.rs:102: "Try closing again" takes every error in Closing   *)
(* for the answer to a close that failed.  What is closed again is then    *)
(* never the connection that another machine serves.                       *)
ClosesOwnClient ==
  \A k \in DOMAIN sq, i \in 0 .. NHandlers - 1 :
    /\ sq[k].op = "close"
    /\ Live(i)
    /\ conn_data[i].socket = sq[k].fixed
    /\ files[sq[k].fixed] = conn_data[i].peer
    => sq[k].user = HandleOf(i)

(* tcp_server.rs:52: when the listener is not accepting anymore it is      *)
(* armed again.                                                            *)
RearmedWhenEnded ==
  [][DispatchTcp /\ tcp_listener = "Accepting" /\ Rearms(NextEvent)
       => \E k \in DOMAIN intents' : intents'[k] = SubmitMultishotAccept]_vars
=============================================================================
