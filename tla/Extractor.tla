------------------------------- MODULE Extractor -------------------------------
(***************************************************************************)
(* What to capture before a mutation: src/src/backup/extractor.rs, over    *)
(* the trees of module Classifier.  A backup SELECT is its table, the keys *)
(* its WHERE clause selects and how its text ends, which is all with_limit *)
(* looks at here: "plain", "paren" for a closing parenthesis, "unsafe" for *)
(* what is refused in every dialect (LIMIT, UNION, a comment, ...).        *)
(***************************************************************************)
EXTENDS Naturals, Sequences, SequencesExt

is_backup_required(ast_type) ==
  ast_type \in {"update", "delete", "replace", "insert", "truncate", "drop", "alter", "rename"}

(* Every backup SELECT of MySQL ends in FOR UPDATE, none of SQLite does. *)
with_limit_refuses(tail, dialect) ==
  \/ tail = "unsafe"
  \/ tail = "paren" /\ dialect = "sqlite"

BackupTable(t, keys, tail) == [table |-> t, keys |-> keys, tail |-> tail]
NoSpec          == [kind |-> "none", tables |-> <<>>]
Spec(kind, bts) == [kind |-> kind, tables |-> bts]

(* Only plain tables of a FROM clause can be targets; they come in an     *)
(* order of no consequence here, as every one gets a backup of its own.    *)
collect_tables(from) == {i \in DOMAIN from : from[i].kind = "table"}

NamesAt(from, places) ==
  LET at == SetToSeq(places) IN [i \in DOMAIN at |-> from[at[i]].name]

RowsOf(ast, targets) ==
  Spec("rows", [i \in DOMAIN targets |-> BackupTable(targets[i], ast.where, ast.tail)])

(* The tables SET names, or else the first one. *)
update_spec(ast) ==
  LET all     == collect_tables(ast.from)
      targets == IF ast.set_tables = {} THEN {i \in all : \A j \in all : i <= j}
                 ELSE {i \in all : ast.from[i].name.table \in ast.set_tables}
  IN IF targets = {} THEN NoSpec ELSE RowsOf(ast, NamesAt(ast.from, targets))

(* The explicit targets, or else every source. *)
delete_spec(ast) ==
  IF ast.from = <<>> THEN NoSpec
  ELSE RowsOf(ast, IF ast.names # <<>> THEN ast.names
                   ELSE NamesAt(ast.from, collect_tables(ast.from)))

(* REPLACE is protected when it spells out a column that looks like a key. *)
replace_spec(ast) ==
  IF ast.keys = {} THEN NoSpec
  ELSE Spec("rows", <<BackupTable(Head(ast.names), ast.keys, "paren")>>)

insert_spec(ast) ==
  Spec("insert-hint", <<BackupTable(Head(ast.names), ast.keys, "plain")>>)

(* TRUNCATE and DROP: the first target only. *)
combined_spec(ast, universe) ==
  Spec("combined", <<BackupTable(Head(ast.names), universe, "plain")>>)

(* RENAME lists each pair's old name, then its new one. *)
schema_spec(ast) ==
  LET old == IF ast.kind = "alter" THEN ast.names
             ELSE [i \in 1..Len(ast.names) \div 2 |-> ast.names[2 * i - 1]]
  IN Spec("schema", [i \in DOMAIN old |-> BackupTable(old[i], {}, "plain")])

(* Mutant: nothing is captured for a DELETE. *)
extract_backup_spec_NoDelete(ast, universe) ==
  CASE ast.kind = "update" -> update_spec(ast)
    [] ast.kind = "insert" -> insert_spec(ast)
    [] ast.kind \in {"truncate", "drop"} -> combined_spec(ast, universe)
    [] OTHER -> NoSpec

extract_backup_spec(ast, universe) ==
  CASE ast.kind = "update" -> update_spec(ast)
    [] ast.kind = "delete" -> delete_spec(ast)
    [] ast.kind = "replace" -> replace_spec(ast)
    [] ast.kind = "insert" -> insert_spec(ast)
    [] ast.kind \in {"truncate", "drop"} -> combined_spec(ast, universe)
    [] ast.kind \in {"alter", "rename"} -> schema_spec(ast)
    [] OTHER -> NoSpec

=============================================================================
