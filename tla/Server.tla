------------------------------- MODULE Server -------------------------------
(***************************************************************************)
(* What the server promises its clients, without executor, machines or     *)
(* ring: who is let in, who is served, what of a stream is received, and   *)
(* when a connection is given up.                                          *)
(***************************************************************************)
EXTENDS Naturals, FiniteSets

CONSTANTS
  Clients,
  Places,      \* connections the server holds at a time
  Buffers,     \* connections it receives from at a time
  MaxStream    \* bound: bytes a client sends

VARIABLES
  phase,       \* how far each client has come
  sent,        \* bytes of each client's stream that are out of its hands
  received,    \* bytes of it that the server has taken in
  accepting    \* whether the server lets clients in at all

vars == <<phase, sent, received, accepting>>

Phases == {"waiting", "connected", "receiving", "ended", "closing", "gone"}

InPhases(phases) == {c \in Clients : phase[c] \in phases}

Init ==
  /\ phase = [c \in Clients |-> "waiting"]
  /\ sent = [c \in Clients |-> 0]
  /\ received = [c \in Clients |-> 0]
  /\ accepting = TRUE

Moves(c, from, to) ==
  /\ phase[c] = from
  /\ phase' = [phase EXCEPT ![c] = to]

(* The server may fail to listen before it has let anybody in. *)
ListenFails ==
  /\ InPhases({"waiting"}) = Clients
  /\ accepting' = FALSE
  /\ UNCHANGED <<phase, sent, received>>

(* A client gets a place that nobody holds. *)
Accept(c) ==
  /\ accepting
  /\ Cardinality(InPhases(Phases \ {"waiting", "gone"})) < Places
  /\ Moves(c, "waiting", "connected")
  /\ UNCHANGED <<sent, received, accepting>>

(* The first client that finds no place is turned away, the last to be     *)
(* answered at all.                                                        *)
Refuse(c) ==
  /\ accepting
  /\ Cardinality(InPhases(Phases \ {"waiting", "gone"})) = Places
  /\ Moves(c, "waiting", "gone")
  /\ accepting' = FALSE
  /\ UNCHANGED <<sent, received>>

(* A connected client gets a buffer that nobody holds. *)
Serve(c) ==
  /\ Cardinality(InPhases({"receiving", "ended"})) < Buffers
  /\ Moves(c, "connected", "receiving")
  /\ UNCHANGED <<sent, received, accepting>>

Send(c) ==
  /\ phase[c] = "receiving"
  /\ \E n \in sent[c] + 1 .. MaxStream : sent' = [sent EXCEPT ![c] = n]
  /\ UNCHANGED <<phase, received, accepting>>

Receive(c) ==
  /\ received[c] < sent[c]
  /\ received' = [received EXCEPT ![c] = sent[c]]
  /\ UNCHANGED <<phase, sent, accepting>>

(* The client shuts its stream down. *)
HangUp(c) ==
  /\ Moves(c, "receiving", "ended")
  /\ UNCHANGED <<sent, received, accepting>>

(* A connection is given up only when all of its stream has been received; *)
(* its buffer is free for another.                                         *)
Drop(c) ==
  /\ received[c] = sent[c]
  /\ Moves(c, "ended", "closing")
  /\ UNCHANGED <<sent, received, accepting>>

(* Its place is free for another. *)
Close(c) ==
  /\ Moves(c, "closing", "gone")
  /\ UNCHANGED <<sent, received, accepting>>

Next ==
  \/ ListenFails
  \/ \E c \in Clients :
       Accept(c) \/ Refuse(c) \/ Serve(c) \/ Send(c) \/ Receive(c)
         \/ HangUp(c) \/ Drop(c) \/ Close(c)

Spec == Init /\ [][Next]_vars

(* Clients come and send as they like; one that is served hangs up in the  *)
(* end, and the server does the rest.  A client waits for a buffer that    *)
(* comes and goes, hence the strong fairness.                              *)
Fairness ==
  \A c \in Clients :
    /\ SF_vars(Serve(c))
    /\ WF_vars(Receive(c))
    /\ WF_vars(HangUp(c))
    /\ WF_vars(Drop(c))
    /\ WF_vars(Close(c))
=============================================================================
