------------------------------ MODULE Classifier ------------------------------
(***************************************************************************)
(* SQL classification: src/src/policy/classifier.rs.  A statement is the   *)
(* features of its text that the code tests before it parses, and its      *)
(* parse.  What the walk of a parse tree collects is module ObjectGraph's; *)
(* here its results are constants, so that what is said of the decisions   *)
(* holds for whatever the walk finds.  The tables of a statement other     *)
(* than a SELECT are names (targets of a DELETE, of an INSERT, of DDL) and *)
(* factors (UPDATE and the FROM of a DELETE).                              *)
(***************************************************************************)
EXTENDS Naturals, Sequences, SequencesExt, FiniteSets

CONSTANTS QueryGraph(_),  (* tables read, CTE names met, whether it locks: of a query *)
          FromGraph(_),   (* of the factors of a FROM clause                          *)
          ExprsGraph(_)   (* of the subqueries of some expressions                    *)

TextFeatures ==
  {"empty", "comments_only", "multiple", "pragma", "pragma_read", "tx_keyword", "admin_keyword",
   "file", "into_file", "lock_in_share_mode", "set", "parses"}

(* The BTreeSet of a graph comes out as a sequence. *)
InOrder(S) == SetToSeq(S)

(* The optional SELECT of an INSERT or of a CREATE TABLE. *)
SourceReads(qs) == IF qs = <<>> THEN {} ELSE QueryGraph(Head(qs)).read

(***************************************************************************)
(* classify_statement.                                                     *)
(***************************************************************************)
empty_result(category, ast_type) ==
  [category |-> category, ast_type |-> ast_type, read_tables |-> <<>>, mutated_tables |-> <<>>,
   locking_read |-> FALSE, file_io |-> FALSE, executes_wrapped |-> FALSE]

Failed == [category |-> "error", ast_type |-> "error"]

DdlKinds   == {"truncate", "create", "drop", "alter", "rename"}
ReadKinds  == {"show", "describe", "explain"}
AdminKinds == {"grant", "revoke", "set"}

classification(ast, text, category, read, mutated) ==
  [empty_result(category, ast.kind) EXCEPT !.read_tables = InOrder(read),
     !.mutated_tables = mutated, !.file_io = "into_file" \in text]

TruncateIfExists(ast) == ast.kind = "truncate" /\ ast.if_exists

(* Any statement that does not wrap another. *)
classify_unwrapped(ast, text) ==
  CASE ast.kind = "select" ->
         LET g == QueryGraph(Head(ast.source)) IN
           [classification(ast, text, "read", g.read, <<>>) EXCEPT !.locking_read = g.locking]
    [] ast.kind \in {"insert", "replace"} ->
         classification(ast, text, "write", SourceReads(ast.source), ast.names)
    [] ast.kind \in {"update", "delete"} ->
         LET sources == FromGraph(ast.from)
             named   == {t \in ToSet(ast.names) : t.table \notin sources.cte_names}
         IN classification(ast, text, "write", ExprsGraph(ast.exprs).read,
                           InOrder(sources.read \cup named))
    [] ast.kind \in DdlKinds /\ TruncateIfExists(ast) -> Failed
    [] ast.kind \in DdlKinds /\ ~TruncateIfExists(ast) ->
         classification(ast, text, "ddl", SourceReads(ast.source), ast.names)
    [] ast.kind \in ReadKinds -> classification(ast, text, "read", {}, <<>>)
    [] ast.kind \in AdminKinds -> classification(ast, text, "admin", {}, <<>>)
    [] OTHER -> Failed

(* EXPLAIN ANALYZE is what it wraps (the parser takes no EXPLAIN in an     *)
(* EXPLAIN, so one level is all there is).                                 *)
classify_ast(ast, text) ==
  IF ast.kind # "explain_analyze" THEN classify_unwrapped(ast, text)
  ELSE LET inner == classify_unwrapped(ast.wrapped, text) IN
         IF inner = Failed THEN Failed ELSE [inner EXCEPT !.executes_wrapped = TRUE]

(* What does not parse is still a read of no table when it says INTO       *)
(* OUTFILE or LOCK IN SHARE MODE, and an administration when it says SET.  *)
Unparsed(text) ==
  CASE "into_file" \in text -> [empty_result("read", "select") EXCEPT !.file_io = TRUE]
    [] "lock_in_share_mode" \in text /\ "into_file" \notin text ->
         [empty_result("read", "select") EXCEPT !.locking_read = TRUE]
    [] "set" \in text /\ text \cap {"into_file", "lock_in_share_mode"} = {} ->
         empty_result("admin", "set")
    [] OTHER -> Failed

classify_statement(stmt) ==
  LET has(feature) == feature \in stmt.text IN
    IF has("empty") \/ has("comments_only") \/ has("multiple") THEN Failed
    ELSE IF has("pragma") THEN empty_result(IF has("pragma_read") THEN "read" ELSE "admin", "pragma")
    ELSE IF has("tx_keyword") THEN empty_result("tx_ctrl", "transaction")
    ELSE IF has("admin_keyword")
         THEN [empty_result("admin", "admin-keyword") EXCEPT !.file_io = has("file")]
    ELSE IF has("parses") THEN classify_ast(stmt.ast, stmt.text)
    ELSE Unparsed(stmt.text)

=============================================================================
