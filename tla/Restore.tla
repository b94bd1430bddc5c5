-------------------------------- MODULE Restore --------------------------------
(***************************************************************************)
(* The restore_backup tool on a SQLite connection: call_restore,           *)
(* execute_restore_plan and resolve_restore_plan of src/src/mcp/tools.rs   *)
(* with the planner of src/src/backup/restore.rs, over the database and    *)
(* the backups of module SqliteExec.  The one-shot token of the modern     *)
(* exchange is module Mrtr's and the rows a replay leaves in the audit log *)
(* are module AuditLog's; a dry run changes nothing.                       *)
(***************************************************************************)
EXTENDS SqliteExec

CONSTANTS MaxRestores (* bound *)

VARIABLES rst,   (* the restore call under way                                *)
          last,  (* history: the last replay that committed                   *)
          restores

vars == <<execVars, rst, last, restores>>

Init == ExecInit /\ rst = Idle /\ last = Idle /\ restores = 0

(***************************************************************************)
(* plan_restore.                                                           *)
(***************************************************************************)
(* escape_value: backslashes are doubled in either dialect. *)
Escape(json) == IF json = "backslash" THEN "doubled" ELSE json

(* In the order the rows were captured, which is the engine's. *)
Upserts(b) ==
  LET keys == SetToSeq(DOMAIN b.rows) IN
    [i \in DOMAIN keys |-> [op |-> "upsert", table |-> b.table, keys |-> {keys[i]},
                            json |-> b.rows[keys[i]]]]

Create(b) == IF b.schema THEN <<[op |-> "create", table |-> b.table, keys |-> {}]>> ELSE <<>>

Delete(b) == [op |-> "delete", table |-> b.table, keys |-> b.deletes]

(* Mutant: the replay of a combined backup forgets the rows. *)
plan_restore_SchemaOnly(b) ==
  CASE b.kind \in {"schema", "combined"} -> Create(b)
    [] b.kind = "insert-hint" -> <<Delete(b)>>
    [] b.kind = "rows" -> Upserts(b)

plan_restore(b) ==
  CASE b.kind = "schema" -> Create(b)
    [] b.kind = "combined" -> Create(b) \o Upserts(b)
    [] b.kind = "insert-hint" -> <<Delete(b)>>
    [] b.kind = "rows" -> Upserts(b)

(* The statement of a plan as the classifier gets it.  The captured CREATE *)
(* TABLE names its table without a database.                               *)
Blank == [names |-> <<>>, from |-> <<>>, exprs |-> <<>>, source |-> <<>>]

StatementOf(p) ==
  LET t(db) == [database |-> db, table |-> p.table]
      ast   == CASE p.op = "create" -> [Blank EXCEPT !.names = <<t(Unset)>>]
                 [] p.op = "upsert" -> [Blank EXCEPT !.names = <<t(Main)>>]
                 [] p.op = "delete" -> [Blank EXCEPT !.from = <<[kind |-> "table", name |-> t(Main)]>>]
      kind  == CASE p.op = "create" -> "create" [] p.op = "upsert" -> "insert"
                 [] p.op = "delete" -> "delete"
  IN [text |-> IF p.op = "upsert" /\ p.json = "comment" THEN {} ELSE {"parses"},
      ast |-> [kind |-> kind, names |-> ast.names, from |-> ast.from, exprs |-> <<>>,
               source |-> <<>>, if_exists |-> FALSE]]

(* Mutant: the gate looks at the first statement of the plan only. *)
resolve_restore_plan_FirstOnly(conn, plan) ==
  LET c == C!classify_statement(StatementOf(plan[1])) IN
    c # C!Failed /\ R!resolve(conn, c, Main).action # "deny"

(* Every statement of the plan must pass the two-layer gate. *)
resolve_restore_plan(conn, plan) ==
  \A i \in DOMAIN plan :
    LET c == C!classify_statement(StatementOf(plan[i])) IN
      c # C!Failed /\ R!resolve(conn, c, Main).action # "deny"

(***************************************************************************)
(* call_restore.                                                           *)
(***************************************************************************)
(* The modern era answers with a token bound to backup and revision; the   *)
(* legacy era waits for the user inside the call.                          *)
Ask(id, era) ==
  /\ rst = Idle /\ restores < MaxRestores
  /\ plan_restore(backups[id]) # <<>>
  /\ rst' = [pc |-> era, id |-> id, revision |-> cfg.revision, conn |-> cfg.conn,
             asked |-> cfg.conn, plan |-> plan_restore(backups[id]), work |-> store, next |-> 1]
  /\ restores' = restores + 1
  /\ UNCHANGED <<execVars, last>>

(* mrtr::take. *)
Bound(revision) == rst.revision = revision

Approved(conn, plan) == rst' = [rst EXCEPT !.pc = "gate", !.conn = conn, !.plan = plan]

(* The retry loads configuration and backup again. *)
Retry ==
  /\ rst.pc = "modern"
  /\ \/ Bound(cfg.revision) /\ Approved(cfg.conn, plan_restore(backups[rst.id]))
     \/ rst' = Idle   (* declined, or a token that does not match *)
  /\ UNCHANGED <<execVars, last, restores>>

Answer ==
  /\ rst.pc = "legacy"
  /\ \/ Approved(rst.conn, rst.plan)
     \/ rst' = Idle
  /\ UNCHANGED <<execVars, last, restores>>

(***************************************************************************)
(* execute_restore_plan.                                                   *)
(***************************************************************************)
Gate ==
  /\ rst.pc = "gate"
  /\ rst' = IF resolve_restore_plan(rst.conn, rst.plan) THEN [rst EXCEPT !.pc = "begin"] ELSE Idle
  /\ UNCHANGED <<execVars, last, restores>>

BeginReplay ==
  /\ rst.pc = "begin"
  /\ \/ /\ lock = "free" /\ lock' = "restore"
        /\ rst' = [rst EXCEPT !.pc = "replay", !.work = store]
     \/ /\ lock # "free" /\ rst' = Idle /\ UNCHANGED lock
  /\ UNCHANGED <<cfg, store, backups, call, done, events, last, restores>>

Replays(p, st) == IF p.op = "create" THEN ~st[p.table].exists ELSE st[p.table].exists

Replayed(p, st) ==
  CASE p.op = "create" -> [st EXCEPT ![p.table].exists = TRUE]
    [] p.op = "upsert" -> WithRows(st, p.table, p.keys, Escape(p.json))
    [] p.op = "delete" -> WithRows(st, p.table, p.keys \cap Keys, NoRow)

EndReplay ==
  /\ rst' = Idle /\ lock' = "free"
  /\ UNCHANGED <<cfg, backups, call, done, events, restores>>

(* One statement after another; the first that fails rolls all back. *)
Replay ==
  /\ rst.pc = "replay" /\ rst.next <= Len(rst.plan)
  /\ LET p == rst.plan[rst.next] IN
       \/ /\ Replays(p, rst.work)
          /\ rst' = [rst EXCEPT !.work = Replayed(p, rst.work), !.next = @ + 1]
          /\ UNCHANGED <<execVars, last, restores>>
       \/ EndReplay /\ UNCHANGED <<store, last>>

CommitReplay ==
  /\ rst.pc = "replay" /\ rst.next > Len(rst.plan)
  /\ EndReplay
  /\ \/ /\ store' = rst.work
        /\ last' = [pc |-> "committed", id |-> rst.id, pre |-> store, post |-> rst.work,
                    plan |-> rst.plan, conn |-> rst.conn, asked |-> rst.asked]
     \/ UNCHANGED <<store, last>>

(* The server process dies: SQLite rolls the open transaction back, what   *)
(* the audit database has stays, the tokens are gone.                      *)
Crash ==
  /\ events < MaxEvents /\ events' = events + 1
  /\ call # Idle \/ rst # Idle
  /\ call' = Idle /\ rst' = Idle /\ lock' = "free"
  /\ UNCHANGED <<cfg, store, backups, done, last, restores>>

Next ==
  \/ ExecNext /\ UNCHANGED <<rst, last, restores>>
  \/ \E id \in DOMAIN backups, era \in {"modern", "legacy"} : Ask(id, era)
  \/ Retry \/ Answer \/ Gate \/ BeginReplay \/ Replay \/ CommitReplay
  \/ Crash

Spec == Init /\ [][Next]_vars

(***************************************************************************)
(* Properties.                                                             *)
(***************************************************************************)

(* The statement a backup was taken for, if it was committed. *)
Undone == {i \in DOMAIN done : done[i].backup = last.id}

(* What a restore gives back as it was: everything but blobs and texts     *)
(* with a backslash, a truncated backup, a statement that left no row      *)
(* backup, and an INSERT that drew more than one key.                      *)
Reversible(d) ==
  /\ \/ d.ast.kind \in {"update", "delete", "drop"}
     \/ d.ast.kind = "insert" /\ (d.ast.keys # {} \/ d.ast.auto = 1)
  /\ ~backups[d.backup].truncated
  /\ \A k \in Keys : d.pre[TargetOf(d.ast)].rows[k] \notin {"blob", "backslash"}

(* A restore is the inverse of the statement its backup was taken for: run *)
(* on the database that statement left, it gives back, table for table and *)
(* row for row, the database the statement found.                          *)
RestoreUndoes ==
  last # Idle =>
    \A i \in Undone : Reversible(done[i]) /\ last.pre = done[i].post => last.post = done[i].pre

(* A replay holds nothing the policy denies, by the configuration the user *)
(* was asked under, and that is the one it was checked against.            *)
RestoreAuthorised ==
  last # Idle =>
    /\ last.conn = last.asked
    /\ \A i \in DOMAIN last.plan :
         LET category == IF last.plan[i].op = "create" THEN "ddl" ELSE "write"
             id == [database |-> Main, table |-> last.plan[i].table]
         IN R!resolve_object(last.conn, [id |-> id, category |-> category]).action # "deny"

(* The restore of an INSERT deletes exactly the rows the INSERT created    *)
(* (src/src/backup/restore.rs:5).                                          *)
HintExact ==
  LET present(st) == {p \in Tables \X Keys : st[p[1]].rows[p[2]] # NoRow} IN
    last # Idle =>
      \A i \in Undone :
        done[i].ast.kind = "insert" =>
          present(last.pre) \ present(last.post) =
            (present(done[i].post) \ present(done[i].pre)) \cap present(last.pre)

=============================================================================
