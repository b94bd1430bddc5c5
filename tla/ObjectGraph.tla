------------------------------ MODULE ObjectGraph ------------------------------
(***************************************************************************)
(* The walk of a parse tree for the tables in it: ObjectGraph and          *)
(* walk_query of src/src/policy/classifier.rs, and the scoping rules of    *)
(* SQL it is compared with.  An expression is cut down to the subqueries   *)
(* in it, in the order they are walked; a FROM clause to its table         *)
(* factors, relation first.  Subqueries of a join condition, of LIMIT and  *)
(* of ON DUPLICATE KEY UPDATE are never walked and have no place in these  *)
(* trees.  The walk is recursive: module Classifier takes its results as   *)
(* operator constants, which a model instance binds to the ones here.      *)
(***************************************************************************)
EXTENDS Naturals, Sequences, SequencesExt, FiniteSets

CONSTANTS Unset

(* A select names its factors and the subqueries of its clauses. *)
Table(t)          == [kind |-> "table", name |-> t]
Derived(q)        == [kind |-> "derived", query |-> q]
NestedJoin(fs)    == [kind |-> "nested_join", factors |-> fs]
Select(from, subs) == [op |-> "select", from |-> from, subs |-> subs]
Union(left, right) == [op |-> "union", left |-> left, right |-> right]
Query(body)       == [locks |-> FALSE, with |-> <<>>, order |-> <<>>, body |-> body]

(***************************************************************************)
(* ObjectGraph: the tables read so far, the CTE names met so far (they are *)
(* never left again), whether a lock clause was met.                       *)
(***************************************************************************)
EmptyGraph == [read |-> {}, cte_names |-> {}, locking |-> FALSE]

add_table(g, t) ==
  IF t.table \in g.cte_names THEN g ELSE [g EXCEPT !.read = @ \cup {t}]

RECURSIVE walk_query(_, _), walk_set_expr(_, _), add_table_factor(_, _)

walk_exprs(g, subs) == FoldLeft(walk_query, g, subs)

(* A nested join visits the joined relations before the first one. *)
add_table_factor(g, f) ==
  CASE f.kind = "table" -> add_table(g, f.name)
    [] f.kind = "derived" -> walk_query(g, f.query)
    [] f.kind = "nested_join" ->
         add_table_factor(FoldLeft(add_table_factor, g, Tail(f.factors)), Head(f.factors))

walk_query(g, q) ==
  LET locked     == [g EXCEPT !.locking = @ \/ q.locks]
      cte(h, c)  == walk_query([h EXCEPT !.cte_names = @ \cup {c.name}], c.query)
  IN walk_set_expr(walk_exprs(FoldLeft(cte, locked, q.with), q.order), q.body)

walk_set_expr(g, body) ==
  CASE body.op = "select" -> walk_exprs(FoldLeft(add_table_factor, g, body.from), body.subs)
    [] body.op = "union" -> walk_set_expr(walk_set_expr(g, body.left), body.right)
    [] OTHER -> g

GraphOfQuery(q)   == walk_query(EmptyGraph, q)
GraphOfFrom(fs)   == FoldLeft(add_table_factor, EmptyGraph, fs)
GraphOfExprs(qs)  == walk_exprs(EmptyGraph, qs)

(***************************************************************************)
(* Reference: what a statement reads and changes by the scoping rules of   *)
(* SQL.  An unqualified name is a CTE where one of that name is in scope,  *)
(* which its own WITH and the enclosing ones decide.                       *)
(***************************************************************************)
RECURSIVE QueryReads(_, _), BodyReads(_, _), FactorReads(_, _)

AllRead(Reads(_, _), trees, scope) == UNION {Reads(trees[i], scope) : i \in DOMAIN trees}

FactorReads(f, scope) ==
  CASE f.kind = "table" ->
         IF f.name.database = Unset /\ f.name.table \in scope THEN {} ELSE {f.name}
    [] f.kind = "derived" -> QueryReads(f.query, scope)
    [] f.kind = "nested_join" -> AllRead(FactorReads, f.factors, scope)

BodyReads(body, scope) ==
  CASE body.op = "select" ->
         AllRead(FactorReads, body.from, scope) \cup AllRead(QueryReads, body.subs, scope)
    [] body.op = "union" -> BodyReads(body.left, scope) \cup BodyReads(body.right, scope)
    [] OTHER -> {}

QueryReads(q, scope) ==
  LET named(n) == scope \cup {q.with[i].name : i \in 1..n}
      all      == named(Len(q.with))
  IN BodyReads(q.body, all) \cup AllRead(QueryReads, q.order, all)
       \cup UNION {QueryReads(q.with[i].query, named(i)) : i \in 1..Len(q.with)}

(* <<table, category>> for all a statement touches. *)
Touched(stmt) ==
  LET ast     == IF stmt.kind = "explain_analyze" THEN stmt.wrapped ELSE stmt
      ddl     == ast.kind \in {"truncate", "create", "drop", "alter", "rename"}
      changed == {ast.names[i] : i \in DOMAIN ast.names} \cup AllRead(FactorReads, ast.from, {})
      read    == AllRead(QueryReads, ast.source, {}) \cup AllRead(QueryReads, ast.exprs, {})
  IN {<<t, "read">> : t \in read}
       \cup {<<t, IF ddl THEN "ddl" ELSE "write">> : t \in changed}

=============================================================================
