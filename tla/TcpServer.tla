----------------------------- MODULE TcpServer ------------------------------
(***************************************************************************)
(* The listener state machine of                                           *)
(* hoarder-blob/src/state_machine/tcp_server.rs.                           *)
(***************************************************************************)
EXTENDS ExecutorProtocol

VARIABLE tcp_listener   \* TcpServer.state

TcpServerStates == {"Init", "Accepting", "Error"}

(* (Spawn, Init): listen() makes the listening socket, which the system    *)
(* may refuse, and then the multishot accept is asked for.                 *)
OnListen ==
  /\ tcp_listener = "Init"
  /\ \/ /\ tcp_listener' = "Accepting"
        /\ intents' = <<SubmitMultishotAccept>>
     \/ /\ tcp_listener' = "Error"
        /\ intents' = << >>
  /\ UNCHANGED <<io_bufs, mem, panic>>

(* Faulty arm, for the mutants: the accept is never armed again. *)
OnAcceptedOnce(res, more) ==
  /\ tcp_listener = "Accepting"
  /\ res >= 0
  /\ intents' = <<SpawnConnHandler(res)>>
  /\ UNCHANGED <<tcp_listener, io_bufs, mem, panic>>

(* (IoCompleted(fixed), Accepting): one more connection, and the accept is *)
(* armed again when the kernel says that it has ended.                     *)
OnAccepted(res, more) ==
  /\ tcp_listener = "Accepting"
  /\ res >= 0
  /\ intents' = <<SpawnConnHandler(res)>>
                   \o (IF more THEN << >> ELSE <<SubmitMultishotAccept>>)
  /\ UNCHANGED <<tcp_listener, io_bufs, mem, panic>>

(* (IoCompleted(-errno), Accepting): early return, nothing is armed. *)
OnAcceptErr(res) ==
  /\ tcp_listener = "Accepting"
  /\ res < 0
  /\ tcp_listener' = "Error"
  /\ intents' = << >>
  /\ UNCHANGED <<io_bufs, mem, panic>>

TcpExpects(event) ==
  \/ event.kind = "Spawn" /\ tcp_listener = "Init"
  \/ event.kind = "IoCompleted" /\ tcp_listener = "Accepting"

(* A completion in the Error state is ignored; any other pair is           *)
(* unreachable!().                                                         *)
OnTcpUnexpected(event) ==
  /\ panic' = IF event.kind = "IoCompleted" /\ tcp_listener = "Error"
              THEN panic ELSE "unreachable"
  /\ intents' = << >>
  /\ UNCHANGED <<tcp_listener, io_bufs, mem>>

(* TcpServer::process_event. *)
TcpProcessEvent(event) ==
  IF TcpExpects(event)
  THEN \/ OnListen
       \/ OnAccepted(event.res, event.more)
       \/ OnAcceptErr(event.res)
  ELSE OnTcpUnexpected(event)
=============================================================================
