-------------------------------- MODULE MCMrtr --------------------------------
(* A small instance of Mrtr for TLC. *)
EXTENDS Mrtr, TLC

CONSTANTS c1, c2, c3

(* Two statements on the same connection. *)
TwoStatements == {[tool |-> "execute", conn |-> "a", target |-> "update of u", sql |-> "s"],
                  [tool |-> "execute", conn |-> "a", target |-> "update of u", sql |-> "t"]}

Symmetry == Permutations(Calls)
=============================================================================
