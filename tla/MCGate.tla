------------------------------- MODULE MCGate -------------------------------
(* A small instance of Gate for TLC. *)
EXTENDS Gate

CONSTANTS r1, r2, k

(* The calls are for the same connection, category and table set. *)
SameKey == [r \in Calls |-> k]
=============================================================================
