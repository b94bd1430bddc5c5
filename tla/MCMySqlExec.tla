------------------------------ MODULE MCMySqlExec ------------------------------
(* A small instance of MySqlExec for TLC. *)
EXTENDS MySqlExec

CONSTANTS c1, t1, t2

Statement(cat, spec, targets) ==
  [cat |-> cat, spec |-> spec, targets |-> targets, ifExists |-> FALSE,
   rewritable |-> TRUE, planned |-> FALSE, plan |-> {}]

(* A DROP whose plan found the first table only. *)
PlannedDrop == [Statement("ddl", "combined", {t1, t2})
                  EXCEPT !.ifExists = TRUE, !.planned = TRUE, !.plan = {t1}]

AllStatements ==
  {Statement("write", "rows", {t1, t2}), Statement("write", "hint", {t1}),
   Statement("write", "fails", {t1}), Statement("ddl", "combined", {t1, t2}),
   PlannedDrop, [PlannedDrop EXCEPT !.rewritable = FALSE],
   Statement("read", "unneeded", {}), Statement("tx_ctrl", "unneeded", {}),
   Statement("admin", "unneeded", {})}
=============================================================================
