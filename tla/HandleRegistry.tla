--------------------------- MODULE HandleRegistry ---------------------------
(***************************************************************************)
(* What a pool of objects under handles promises: a handle means one       *)
(* object as long as that lives, and nothing from then on for as long as   *)
(* somebody may still hold it.                                             *)
(***************************************************************************)
EXTENDS FiniteSets, Sequences

CONSTANTS
  Handles,
  Objects,
  Limit     \* objects that can live at a time

VARIABLES
  live,     \* the object of every handle that has one
  stale,    \* handles that are still held and have none any more
  result,   \* what the last call returned
  stopped   \* whether the process has stopped

vars == <<live, stale, result, stopped>>

Init ==
  /\ live = << >>
  /\ stale = {}
  /\ result = <<"none">>
  /\ stopped = FALSE

(* A new object gets a handle that nobody holds. *)
Spawn(object) ==
  IF Cardinality(DOMAIN live) = Limit
  THEN /\ result' = <<"none">>
       /\ UNCHANGED <<live, stale>>
  ELSE \E handle \in Handles \ (DOMAIN live \cup stale) :
         /\ live' = [h \in DOMAIN live \cup {handle} |->
                       IF h = handle THEN object ELSE live[h]]
         /\ result' = <<"handle", handle>>
         /\ UNCHANGED stale

(* What a look at a handle returns. *)
Found(handle) == IF handle \in DOMAIN live THEN <<"object", live[handle]>> ELSE <<"none">>

Get(handle) ==
  /\ result' = Found(handle)
  /\ UNCHANGED <<live, stale>>

Replace(handle, object) ==
  /\ result' = Found(handle)
  /\ live' = [h \in DOMAIN live |-> IF h = handle THEN object ELSE live[h]]
  /\ UNCHANGED stale

(* From a despawn on, a handle is stale; some that have been for long may  *)
(* be out of everybody's hands.                                            *)
Despawn(handle) ==
  /\ result' = IF handle \in DOMAIN live THEN <<"true">> ELSE <<"false">>
  /\ live' = [h \in DOMAIN live \ {handle} |-> live[h]]
  /\ \E forgotten \in SUBSET (stale \ {handle}) :
       stale' = (stale \cup {handle}) \ forgotten

Next ==
  /\ ~stopped
  /\ \/ /\ \/ \E object \in Objects : Spawn(object)
           \/ \E handle \in DOMAIN live \cup stale :
                \/ Get(handle)
                \/ \E object \in Objects : Replace(handle, object)
                \/ Despawn(handle)
        /\ UNCHANGED stopped
     \/ /\ live # << >>
        /\ stopped' = TRUE
        /\ UNCHANGED <<live, stale, result>>

Spec == Init /\ [][Next]_vars
=============================================================================
