------------------------------ MODULE MCRestore ------------------------------
(* Small instances of Restore for TLC. *)
EXTENDS Restore

G == INSTANCE ObjectGraph

MCQueryGraph(q)  == G!GraphOfQuery(q)
MCFromGraph(fs)  == G!GraphOfFrom(fs)
MCExprsGraph(qs) == G!GraphOfExprs(qs)
MCTouchedBy(ast) == G!Touched(ast)

Ref(db, t) == [database |-> db, table |-> t]
t1 == Ref(Unset, "t1")
t2 == Ref(Main, "t2")

Tree(kind) ==
  [kind |-> kind, names |-> <<>>, from |-> <<>>, source |-> <<>>, exprs |-> <<>>,
   if_exists |-> FALSE, set_tables |-> {}, where |-> {}, tail |-> "plain", keys |-> {},
   auto |-> 0, value |-> "blob", wrapped |-> [kind |-> "none"]]

Parses(ast) == [text |-> {"parses"}, ast |-> ast]
Reads(t)    == G!Query(G!Select(<<G!Table(t)>>, <<>>))

Insert(ks, n) == [Tree("insert") EXCEPT !.names = <<t1>>, !.keys = ks, !.auto = n, !.value = "a"]
Update(v, where) ==
  [Tree("update") EXCEPT !.from = <<G!Table(t1)>>, !.where = where, !.value = v]
DeleteRows(where) == [Tree("delete") EXCEPT !.from = <<G!Table(t1)>>, !.where = where]

(* A SELECT whose tables sit in a nested join, a CTE, the projection and   *)
(* the ORDER BY of the branches of a UNION. *)
Nested ==
  LET cte == [name |-> "recent", query |-> Reads(t1)]
      left == G!Select(<<G!NestedJoin(<<G!Table(Ref(Unset, "recent")), G!Derived(Reads(t1))>>)>>, <<>>)
      right == G!Select(<<>>, <<Reads(t2)>>)
  IN [Tree("select") EXCEPT !.source =
        <<[G!Query(G!Union(left, right)) EXCEPT !.with = <<cte>>, !.order = <<Reads(t1)>>]>>]

Locking == [Tree("select") EXCEPT !.source = <<[Reads(t2) EXCEPT !.locks = TRUE]>>]

Replace(ks) == [Tree("replace") EXCEPT !.names = <<t1>>, !.keys = ks, !.auto = 1, !.value = "a"]

Mutations ==
  {Parses(ast) : ast \in
    {Insert({3}, 0), Insert({}, 1), Insert({}, 2), Update("b", {1, 3}), Update("comment", {2}),
     Update("backslash", Keys), DeleteRows({1, 2}),
     [Tree("drop") EXCEPT !.names = <<t1>>],
     [Tree("alter") EXCEPT !.names = <<t1>>]}}

Others ==
  {Parses(ast) : ast \in
    {Nested, Locking, Replace({1}), Replace({}),
     [Insert({}, 1) EXCEPT !.source = <<Reads(t2)>>],
     [Update("b", {1}) EXCEPT !.exprs = <<Reads(t2)>>],
     [Tree("explain_analyze") EXCEPT !.wrapped = Locking],
     [Tree("truncate") EXCEPT !.names = <<t1>>, !.if_exists = TRUE],
     Tree("show"), Tree("grant")}}
  \cup {[text |-> f, ast |-> Tree("none")] :
          f \in {{"pragma"}, {"tx_keyword"}, {"admin_keyword", "file"}, {"multiple"},
                 {"into_file"}, {"lock_in_share_mode"}, {"set"}}}

MCStatements == Mutations \cup Others

(* Connections: an open one, one whose table rules say the opposite of its *)
(* baseline, one that may write but not change schemas, and the reverse.   *)
Baseline(write, ddl, overflow) ==
  [action |-> [c \in R!Category |-> CASE c = "write" -> write [] c = "ddl" -> ddl [] OTHER -> "allow"],
   touch |-> FALSE, max_backup_rows |-> 1, overflow |-> overflow]

Partial(category, action) ==
  [action |-> [c \in R!Category |-> IF c = category THEN action ELSE Unset],
   touch |-> Unset, max_backup_rows |-> 3, overflow |-> Unset]

Conn(policy, rules) == [database |-> Main, policy |-> policy, rules |-> rules]

Open   == Conn(Baseline("confirm", "allow", "abort"),
               R!Wildcard(Main) :> Partial("ddl", "confirm"))
Ruled  == Conn(Baseline("deny", "deny", "truncate"),
               R!Wildcard(Main) :> Partial("write", "allow")
                 @@ R!Exact(t2) :> Partial("read", "deny"))
Mixed  == Conn(Baseline("allow", "deny", "truncate"),
               R!Exact(t2) :> Partial("read", "deny"))

Schemas == Conn(Baseline("deny", "allow", "abort"), <<>>)

MCConnections == {Open, Ruled, Mixed, Schemas}

(* What module RestoreProofs asks of the walk holds of these statements. *)
ASSUME StatementsListed == EverythingListed
=============================================================================
