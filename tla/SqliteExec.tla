------------------------------ MODULE SqliteExec ------------------------------
(***************************************************************************)
(* Statements on a SQLite database: execute_sqlite_statement of            *)
(* src/src/sql/sqlite.rs with the captures of src/src/backup/mod.rs, on    *)
(* what modules Classifier, Resolver and Extractor decide.  The model runs *)
(* one call at a time beside other writers of the file and beside the      *)
(* restores of module Restore; the gate around a call is module Gate.      *)
(*                                                                         *)
(* A row is its key and a value.  Values are told apart by what happens to *)
(* them between a capture and a restore: "blob" is stored as the text      *)
(* "base64", "backslash" comes back as "doubled", and a statement that     *)
(* spells out "comment" (a text with a comment marker) does not parse once *)
(* the classifier has stripped comments.  Any other value is plain text.   *)
(***************************************************************************)
EXTENDS Integers, Sequences, FiniteSets, SequencesExt

CONSTANTS Tables, MaxKey, PlainValues,
          Statements,   (* what a call may bring                             *)
          Connections,  (* the configurations an edit may save               *)
          Unset,
          QueryGraph(_), FromGraph(_), ExprsGraph(_), (* the walk: see ObjectGraph *)
          TouchedBy(_), (* what a statement touches, with what is done to it *)
          MaxCalls,     (* bound: calls that commit a transaction             *)
          MaxBackups,   (* bound: rows of the backup table                    *)
          MaxEvents     (* bound: edits, others' writes, deaths of the server *)

C == INSTANCE Classifier
R == INSTANCE Resolver
E == INSTANCE Extractor

Keys   == 1..MaxKey
NoRow  == "no row"
Values == PlainValues \cup {"blob", "backslash", "comment", "base64", "doubled"}
Main   == "main"

ASSUME ExecAssumption ==
  /\ MaxKey \in Nat /\ PlainValues # {}
  /\ Unset # Main /\ Unset \notin {"abort", "truncate"} /\ Unset \notin R!PolicyAction

(* A text that is caught by its keywords is never parsed.  What SQLite     *)
(* accepts changes one table, which an UPDATE and a DELETE name in their   *)
(* FROM clause and the others as their first name.                         *)
ASSUME StatementAssumption ==
  \A s \in Statements :
    /\ s.ast.kind # "none" => /\ "parses" \in s.text
                              /\ s.text \cap {"pragma", "tx_keyword", "admin_keyword"} = {}
    /\ s.ast.kind \in {"update", "delete"} =>
         /\ s.ast.from # <<>> /\ s.ast.from = <<Head(s.ast.from)>>
         /\ Head(s.ast.from).kind = "table" /\ Head(s.ast.from).name.table \in Tables
         /\ s.ast.names = <<>>
         /\ s.ast.set_tables \subseteq {Head(s.ast.from).name.table}
    /\ s.ast.kind \in {"insert", "replace", "truncate", "drop", "alter"} =>
         /\ s.ast.names # <<>> /\ s.ast.names \in Seq(ToSet(s.ast.names))
         /\ Head(s.ast.names).table \in Tables
    /\ s.ast.kind # "rename"
    /\ s.ast.value \in Values /\ s.ast.auto \in Nat /\ s.ast.keys \subseteq Nat

ASSUME ConnectionAssumption ==
  \A conn \in Connections :
    /\ \A c \in R!Category : conn.policy.action[c] \in R!PolicyAction
    /\ conn.policy.max_backup_rows \in Nat
    /\ conn.policy.overflow \in {"abort", "truncate"}
    /\ \A key \in DOMAIN conn.rules :
         LET rule == conn.rules[key] IN
           /\ \A c \in R!Category : rule.action[c] = Unset \/ rule.action[c] \in R!PolicyAction
           /\ rule.max_backup_rows = Unset \/ rule.max_backup_rows \in Nat
           /\ rule.overflow \in {Unset, "abort", "truncate"}

(* The walk of a single table finds that table, the walk of nothing finds  *)
(* nothing, and what a walk finds comes out as a list.                     *)
ASSUME WalkAssumption ==
  /\ ExprsGraph(<<>>).read = {}
  /\ \A t \in Tables :
       LET name == [database |-> Main, table |-> t] IN
         FromGraph(<<[kind |-> "table", name |-> name]>>).read = {name}
  /\ \A s \in Statements :
       LET c == C!classify_statement(s) IN
         c # C!Failed => /\ c.read_tables \in Seq(ToSet(c.read_tables))
                         /\ c.mutated_tables \in Seq(ToSet(c.mutated_tables))

VARIABLES cfg,     (* the configuration: a revision and the connection       *)
          store,   (* the database file                                      *)
          lock,    (* who is inside BEGIN IMMEDIATE                          *)
          backups, (* the rows of the backup table, their ids the indices    *)
          call,    (* the call under way                                     *)
          done,    (* history: the committed calls                           *)
          events

execVars == <<cfg, store, lock, backups, call, done, events>>

Idle == [pc |-> "idle"]

ExecInit ==
  /\ \E conn \in Connections : cfg = [revision |-> 0, conn |-> conn]
  /\ store = [t \in Tables |->
                [exists |-> TRUE,
                 rows |-> [k \in Keys |-> IF k <= 2 THEN CHOOSE v \in PlainValues : TRUE ELSE NoRow]]]
  /\ lock = "free" /\ backups = <<>> /\ call = Idle /\ done = <<>>
  /\ events = 0

(* The engine: what a statement that succeeds does (external). *)
TargetOf(ast) == IF ast.names # <<>> THEN Head(ast.names).table ELSE Head(ast.from).name.table

Present(table) == {k \in Keys : table.rows[k] # NoRow}

(* A new row's key is one more than the largest. *)
NewKeys(table, n) ==
  LET last == CHOOSE k \in 0..MaxKey : /\ k \in Present(table) \cup {0}
                                       /\ \A j \in Present(table) : j <= k
  IN last + 1 .. last + n

InsertedKeys(ast, st) ==
  IF ast.keys # {} THEN ast.keys ELSE NewKeys(st[TargetOf(ast)], ast.auto)

WithRows(st, t, keys, value) ==
  [st EXCEPT ![t].rows = [k \in Keys |-> IF k \in keys THEN value ELSE @[k]]]

CanRun(ast, st) ==
  CASE ast.kind \in {"insert", "replace"} ->
         /\ st[TargetOf(ast)].exists
         /\ InsertedKeys(ast, st) \subseteq Keys \ Present(st[TargetOf(ast)])
    [] ast.kind \in {"update", "delete", "drop", "alter"} -> st[TargetOf(ast)].exists
    [] OTHER -> TRUE

Effect(ast, st) ==
  CASE ast.kind \in {"insert", "replace"} ->
         WithRows(st, TargetOf(ast), InsertedKeys(ast, st), ast.value)
    [] ast.kind = "update" ->
         WithRows(st, TargetOf(ast), ast.where \cap Present(st[TargetOf(ast)]), ast.value)
    [] ast.kind = "delete" -> WithRows(st, TargetOf(ast), ast.where, NoRow)
    [] ast.kind = "drop" ->
         [st EXCEPT ![TargetOf(ast)] = [exists |-> FALSE, rows |-> [k \in Keys |-> NoRow]]]
    [] OTHER -> st

(* value_to_json of a capture. *)
JsonOf(v) == IF v = "blob" THEN "base64" ELSE v

(***************************************************************************)
(* The call.                                                               *)
(***************************************************************************)
InTransaction(c) == c.category \notin {"read", "tx_ctrl"}

(* run_sql has classified, resolved and, where needed, asked. *)
Submit(stmt) ==
  /\ call = Idle /\ Len(done) < MaxCalls /\ Len(backups) < MaxBackups
  /\ LET c == C!classify_statement(stmt) IN
       /\ c # C!Failed
       /\ LET r == R!resolve(cfg.conn, c, Unset) IN
            /\ r.action # "deny"
            /\ call' = [pc |-> "begin", ast |-> stmt.ast, c |-> c, conn |-> cfg.conn,
                        policy |-> r.effective, work |-> store, backup |-> 0,
                        hint |-> FALSE, affected |-> {}]
  /\ UNCHANGED <<cfg, store, lock, backups, done, events>>

(* A read gets a read-only handle and no transaction. *)
Begin ==
  /\ call.pc = "begin"
  /\ \/ /\ ~InTransaction(call.c)
        /\ call' = [call EXCEPT !.pc = "capture", !.work = store]
        /\ UNCHANGED lock
     \/ /\ InTransaction(call.c) /\ lock = "free"
        /\ lock' = "call"
        /\ call' = [call EXCEPT !.pc = "capture", !.work = store]
     \/ /\ InTransaction(call.c) /\ lock # "free"   (* the busy timeout *)
        /\ call' = Idle /\ UNCHANGED lock
  /\ UNCHANGED <<cfg, store, backups, done, events>>

Rollback ==
  /\ call' = Idle
  /\ lock' = IF InTransaction(call.c) THEN "free" ELSE lock
  /\ UNCHANGED <<cfg, store, backups, done, events>>

(* The first n of a set of keys, in key order. *)
FirstOf(keys, n) == {k \in keys : Cardinality({j \in keys : j < k}) < n}

(* capture_backup_sqlite and fetch_rows_sqlite: the rows the backup SELECT *)
(* returns inside the same transaction, up to the policy's cap.  What      *)
(* SQLite accepts has one target.  A capture may also exceed the byte cap, *)
(* or fail to be written.                                                  *)
Selected(bt, st) == bt.keys \cap Present(st[bt.table.table])

Overflows(bt, st, policy) == Cardinality(Selected(bt, st)) > policy.max_backup_rows

Refused(spec, st, policy) ==
  LET bt == Head(spec.tables) IN
    /\ spec.kind # "schema"
    /\ \/ E!with_limit_refuses(bt.tail, "sqlite")
       \/ ~st[bt.table.table].exists
       \/ Overflows(bt, st, policy) /\ policy.overflow = "abort"

BackupRow(spec, st, policy) ==
  LET bt   == Head(spec.tables)
      kept == IF spec.kind = "schema" THEN {} ELSE FirstOf(Selected(bt, st), policy.max_backup_rows)
  IN [table |-> bt.table.table, kind |-> spec.kind,
      rows |-> [k \in kept |-> JsonOf(st[bt.table.table].rows[k])],
      schema |-> spec.kind # "rows" /\ st[bt.table.table].exists,
      truncated |-> spec.kind # "schema" /\ Overflows(bt, st, policy), deletes |-> {}]

Capture ==
  /\ call.pc = "capture"
  /\ LET required == E!is_backup_required(call.c.ast_type)
         spec     == IF required THEN E!extract_backup_spec(call.ast, Keys) ELSE E!NoSpec
     IN \/ /\ spec.kind \in {"none", "insert-hint"}
           /\ call' = [call EXCEPT !.pc = "run", !.hint = spec.kind = "insert-hint"]
           /\ UNCHANGED <<cfg, store, lock, backups, done, events>>
        \/ /\ spec.kind \in {"rows", "combined", "schema"}
           /\ ~Refused(spec, call.work, call.policy)
           /\ backups' = Append(backups, BackupRow(spec, call.work, call.policy))
           /\ call' = [call EXCEPT !.pc = "run", !.backup = Len(backups) + 1]
           /\ UNCHANGED <<cfg, store, lock, done, events>>
        \/ spec.kind \in {"rows", "combined", "schema"} /\ Rollback  (* capture failed: denied *)

(* The statement itself; the timer may interrupt it. *)
Run ==
  /\ call.pc = "run"
  /\ \/ /\ CanRun(call.ast, call.work)
        /\ call' = [call EXCEPT !.pc = IF call.hint THEN "hint" ELSE "commit",
                      !.work = Effect(call.ast, call.work),
                      !.affected = IF call.hint THEN InsertedKeys(call.ast, call.work) ELSE {}]
        /\ UNCHANGED <<cfg, store, lock, backups, done, events>>
     \/ Rollback

(* capture_insert_hint: explicit keys, or the range that starts at the     *)
(* last inserted rowid.                                                    *)
HintKeys(ast, affected) ==
  IF ast.keys # {} THEN ast.keys
  ELSE LET start == CHOOSE k \in affected : \A j \in affected : j <= k
       IN start .. start + Cardinality(affected) - 1

HintRow(ast, affected) ==
  [table |-> TargetOf(ast), kind |-> "insert-hint", rows |-> <<>>, schema |-> FALSE,
   truncated |-> FALSE, deletes |-> HintKeys(ast, affected)]

(* A hint that cannot be written is not an error. *)
Hint ==
  /\ call.pc = "hint"
  /\ \/ /\ backups' = Append(backups, HintRow(call.ast, call.affected))
        /\ call' = [call EXCEPT !.pc = "commit", !.backup = Len(backups) + 1]
     \/ call' = [call EXCEPT !.pc = "commit"] /\ UNCHANGED backups
  /\ UNCHANGED <<cfg, store, lock, done, events>>

(* COMMIT, or the end of a statement without a transaction. *)
Commit ==
  /\ call.pc = "commit"
  /\ \/ /\ IF InTransaction(call.c)
           THEN /\ store' = call.work /\ lock' = "free"
                /\ done' = Append(done, [ast |-> call.ast, pre |-> store, post |-> call.work,
                                         policy |-> call.policy, backup |-> call.backup])
           ELSE UNCHANGED <<store, lock, done>>
        /\ call' = Idle
        /\ UNCHANGED <<cfg, backups, events>>
     \/ Rollback

(***************************************************************************)
(* Around it: an edit of the policy, and another writer of the file.       *)
(***************************************************************************)
Edit(conn) ==
  /\ events < MaxEvents /\ events' = events + 1
  /\ cfg' = [revision |-> cfg.revision + 1, conn |-> conn]
  /\ UNCHANGED <<store, lock, backups, call, done>>

OtherWrite(t, k, v) ==
  /\ events < MaxEvents /\ events' = events + 1
  /\ lock = "free" /\ store[t].exists
  /\ store' = WithRows(store, t, {k}, v)
  /\ store' # store
  /\ UNCHANGED <<cfg, lock, backups, call, done>>

ExecNext ==
  \/ \E stmt \in Statements : Submit(stmt)
  \/ Begin \/ Capture \/ Run \/ Hint \/ Commit
  \/ \E conn \in Connections : Edit(conn)
  \/ \E t \in Tables, k \in Keys, v \in PlainValues : OtherWrite(t, k, v)

(***************************************************************************)
(* Properties.                                                             *)
(***************************************************************************)

(* A statement that runs touches no table the policy denies it: whatever   *)
(* nesting a table is read in, by the scoping rules of SQL, the rule of    *)
(* that table and of what is done to it was among those that decided.      *)
NothingDeniedRuns ==
  call # Idle =>
    \A touch \in TouchedBy(call.ast) :
      LET id == [database |-> IF touch[1].database = Unset THEN call.conn.database
                              ELSE touch[1].database, table |-> touch[1].table]
          action == R!resolve_object(call.conn, [id |-> id, category |-> touch[2]]).action
      IN action # "deny"

(* What that takes of the classifier: it lists every table a statement     *)
(* touches, as what is done to it.  It does so as long as no such table    *)
(* has the name of a CTE of the statement.                                 *)
EverythingListed ==
  \A s \in Statements :
    LET c == C!classify_statement(s) IN
      c # C!Failed =>
        \A touch \in TouchedBy(s.ast) :
          \/ touch[2] = "read" /\ \E i \in DOMAIN c.read_tables : c.read_tables[i] = touch[1]
          \/ touch[2] = c.category /\ \E i \in DOMAIN c.mutated_tables : c.mutated_tables[i] = touch[1]

(* Every row a committed UPDATE, DELETE or DROP changed or removed is in   *)
(* the backup the call reported, with the value it had, unless the backup  *)
(* says it was truncated and the policy allows that.                       *)
PreImageKept ==
  \A i \in DOMAIN done :
    done[i].ast.kind \in {"update", "delete", "drop"} =>
      /\ done[i].backup # 0
      /\ LET b == backups[done[i].backup] IN
           \/ b.truncated /\ done[i].policy.overflow = "truncate"
           \/ ~b.truncated /\ \A t \in Tables, k \in Keys :
             done[i].pre[t].rows[k] \notin {NoRow, done[i].post[t].rows[k]} =>
               /\ t = b.table /\ k \in DOMAIN b.rows
               /\ b.rows[k] = JsonOf(done[i].pre[t].rows[k])

=============================================================================
