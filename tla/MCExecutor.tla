----------------------------- MODULE MCExecutor -----------------------------
(* Instances of the executor for TLC. *)
EXTENDS ExecutorClaims, TLC

(* Clients are interchangeable; for safety runs only. *)
ClientSymmetry == Permutations(Conns)
=============================================================================
