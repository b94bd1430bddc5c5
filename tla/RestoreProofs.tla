----------------------------- MODULE RestoreProofs -----------------------------
(***************************************************************************)
(* Proofs about module Restore and, through it, about the statements and   *)
(* backups of module SqliteExec, for every set of statements, connections  *)
(* and tables, every walk of the parse trees and every bound.  They rest   *)
(* on one inductive invariant, IInv.  Its core is that a call works on the *)
(* database as it was at BEGIN for as long as it holds the lock, so that   *)
(* what it captured is what it is about to change; that a committed call   *)
(* keeps naming the row it wrote, because backups are only ever appended;  *)
(* and that a replay has at each step made exactly the difference its      *)
(* statements so far make (Written).                                       *)
(***************************************************************************)
EXTENDS Restore, FiniteSetTheorems, SequenceTheorems, WellFoundedInduction, TLAPS

(***************************************************************************)
(* The inductive invariant.                                                *)
(***************************************************************************)
Cells     == Values \cup {NoRow}
StoreType == [Tables -> [exists : BOOLEAN, rows : [Keys -> Cells]]]

(* Nothing is said of what a list holds, only that it is one. *)
IsList(list) == list \in Seq({list[i] : i \in DOMAIN list})

IsBackup(b) ==
  /\ b.table \in Tables
  /\ b.kind \in {"rows", "combined", "schema", "insert-hint"}
  /\ b.schema \in BOOLEAN /\ b.truncated \in BOOLEAN
  /\ \E S \in SUBSET Keys : b.rows \in [S -> Cells]

BaseInv ==
  /\ cfg \in [revision : Nat, conn : Connections]
  /\ store \in StoreType
  /\ IsList(backups) /\ \A i \in DOMAIN backups : IsBackup(backups[i])
  /\ IsList(done)

(* The backup row of a statement that ran on the database pre. *)
RowFor(ast, pre, policy) ==
  IF ast.kind = "insert" THEN HintRow(ast, InsertedKeys(ast, pre))
  ELSE BackupRow(E!extract_backup_spec(ast, Keys), pre, policy)

Captured == {"update", "delete", "drop"}

BackedUp(list, ast, pre, policy, backup) ==
  /\ ast.kind \in Captured => backup # 0
  /\ ast.kind \in Captured \cup {"insert"} /\ backup # 0 =>
       /\ backup \in DOMAIN list
       /\ list[backup] = RowFor(ast, pre, policy)
       /\ ast.kind \in Captured /\ policy.overflow = "abort" => ~list[backup].truncated

Limited(policy) == policy.max_backup_rows \in Nat /\ policy.overflow \in {"abort", "truncate"}

(* What run_sql decided before it called the executor. *)
Authorised(ast, c, conn, policy) ==
  \E s \in Statements :
    /\ ast = s.ast /\ c = C!classify_statement(s) /\ c # C!Failed
    /\ R!resolve(conn, c, Unset).action # "deny"
    /\ policy = R!resolve(conn, c, Unset).effective

CallFields == {"pc", "ast", "c", "conn", "policy", "work", "backup", "hint", "affected"}

(* A call in its transaction works on the database as it was at BEGIN,     *)
(* which is the database still.                                            *)
CallInv ==
  call # Idle =>
    /\ DOMAIN call = CallFields
    /\ call.pc \in {"begin", "capture", "run", "hint", "commit"}
    /\ call.conn \in Connections /\ call.work \in StoreType /\ call.hint \in BOOLEAN
    /\ Authorised(call.ast, call.c, call.conn, call.policy)
    /\ call.pc \in {"begin", "capture"} => call.backup = 0 /\ call.hint = FALSE
    /\ call.pc = "run" /\ call.ast.kind = "insert" => call.hint = TRUE /\ call.backup = 0
    /\ call.pc = "hint" => /\ call.ast.kind = "insert" /\ call.backup = 0
                           /\ call.affected = InsertedKeys(call.ast, store)
    /\ call.hint = TRUE => call.ast.kind = "insert"
    /\ call.pc # "begin" /\ InTransaction(call.c) => lock = "call"
    /\ call.pc \in {"capture", "run"} /\ InTransaction(call.c) => call.work = store
    /\ call.pc \in {"hint", "commit"} /\ InTransaction(call.c) =>
         CanRun(call.ast, store) /\ call.work = Effect(call.ast, store)
    /\ call.pc \in {"run", "hint", "commit"} =>
         BackedUp(backups, call.ast, store, call.policy, call.backup)

(* The transaction is the call's, the replay's or nobody's here. *)
LockInv ==
  /\ lock = "call" => call # Idle /\ call.pc # "begin" /\ InTransaction(call.c)
  /\ lock = "restore" <=> (rst # Idle /\ rst.pc = "replay")

DoneInv ==
  \A i \in DOMAIN done :
    LET d == done[i] IN
      /\ \E s \in Statements : d.ast = s.ast
      /\ d.pre \in StoreType /\ Limited(d.policy)
      /\ CanRun(d.ast, d.pre) /\ d.post = Effect(d.ast, d.pre)
      /\ BackedUp(backups, d.ast, d.pre, d.policy, d.backup)

(* What the first n statements of the plan of backup b make of a database. *)
Written(pre, post, b, plan, n) ==
  /\ \A t \in Tables \ {b.table} : post[t] = pre[t]
  /\ \A k \in Keys : post[b.table].rows[k] =
       IF \E i \in 1..n : k \in plan[i].keys
       THEN IF b.kind = "insert-hint" THEN NoRow ELSE Escape(b.rows[k])
       ELSE pre[b.table].rows[k]
  /\ post[b.table].exists <=> (pre[b.table].exists \/ \E i \in 1..n : plan[i].op = "create")

RstFields == {"pc", "id", "revision", "conn", "asked", "plan", "work", "next"}

(* What a restore was asked for is what it replays. *)
RstInv ==
  rst # Idle =>
    /\ DOMAIN rst = RstFields
    /\ rst.pc \in {"modern", "legacy", "gate", "begin", "replay"}
    /\ rst.id \in DOMAIN backups /\ rst.plan = plan_restore(backups[rst.id])
    /\ rst.conn \in Connections /\ rst.asked = rst.conn
    /\ rst.revision \in Nat /\ rst.revision <= cfg.revision
    /\ rst.revision = cfg.revision => rst.conn = cfg.conn
    /\ rst.pc \in {"begin", "replay"} => resolve_restore_plan(rst.conn, rst.plan)
    /\ rst.pc # "replay" => rst.next = 1
    /\ rst.pc = "replay" =>
         /\ rst.next \in 1..Len(rst.plan) + 1 /\ rst.work \in StoreType
         /\ Written(store, rst.work, backups[rst.id], rst.plan, rst.next - 1)

LastInv ==
  last # Idle =>
    /\ last.id \in DOMAIN backups /\ last.plan = plan_restore(backups[last.id])
    /\ last.pre \in StoreType /\ last.post \in StoreType
    /\ Written(last.pre, last.post, backups[last.id], last.plan, Len(last.plan))
    /\ last.conn = last.asked /\ last.conn \in Connections
    /\ resolve_restore_plan(last.conn, last.plan)

IInv == BaseInv /\ CallInv /\ LockInv /\ DoneInv /\ RstInv /\ LastInv

-----------------------------------------------------------------------------
(***************************************************************************)
(* Sequences and sets.                                                     *)
(***************************************************************************)
LEMMA ConcatFacts ==
  ASSUME NEW S, NEW a \in Seq(S), NEW b \in Seq(S)
  PROVE  /\ Len(a \o b) = Len(a) + Len(b)
         /\ DOMAIN (a \o b) = 1..Len(a) + Len(b)
         /\ \A i \in 1..Len(a) + Len(b) :
              (a \o b)[i] = IF i <= Len(a) THEN a[i] ELSE b[i - Len(a)]
<1>1. Len(a) \in Nat /\ Len(b) \in Nat
  BY LenProperties
<1>2. /\ a \o b \in Seq(S) /\ Len(a \o b) = Len(a) + Len(b)
      /\ \A i \in 1..Len(a) + Len(b) : (a \o b)[i] = IF i <= Len(a) THEN a[i] ELSE b[i - Len(a)]
  BY ConcatProperties
<1>3. DOMAIN (a \o b) = 1..Len(a \o b)
  BY <1>2, LenProperties
<1> QED
  BY <1>2, <1>3

LEMMA SetToSeqFacts ==
  ASSUME NEW S, IsFiniteSet(S)
  PROVE  /\ Cardinality(S) \in Nat
         /\ SetToSeq(S) \in [1..Cardinality(S) -> S]
         /\ \A x \in S : \E i \in 1..Cardinality(S) : SetToSeq(S)[i] = x
         /\ SetToSeq(S) \in Seq(S)
<1> DEFINE n == Cardinality(S)
<1>1. n \in Nat /\ ExistsBijection(1..n, S)
  BY FS_CardinalityType
<1>2. \E f \in [1..n -> S] : IsInjective(f)
  BY <1>1 DEF ExistsBijection, Bijection, Injection
<1>3. SetToSeq(S) \in [1..n -> S] /\ IsInjective(SetToSeq(S))
  BY <1>2 DEF SetToSeq
<1>4. SetToSeq(S) \in Injection(1..n, S)
  BY <1>3 DEF Injection
<1>5. Cardinality(1..n) = n
  BY <1>1, FS_Interval
<1>6. SetToSeq(S) \in Surjection(1..n, S)
  BY <1>4, <1>5, FS_Injection
<1> QED
  BY <1>1, <1>3, <1>6 DEF Surjection

LEMMA SetToSeqSmall ==
  /\ SetToSeq({}) = <<>>
  /\ \A x : SetToSeq({x}) = <<x>>
<1>1. SetToSeq({}) = <<>>
  <2>1. SetToSeq({}) \in [1..0 -> {}]
    BY SetToSeqFacts, FS_EmptySet
  <2> QED
    BY <2>1
<1>2. ASSUME NEW x PROVE SetToSeq({x}) = <<x>>
  <2>1. SetToSeq({x}) \in [1..1 -> {x}]
    BY SetToSeqFacts, FS_Singleton
  <2> QED
    BY <2>1
<1> QED
  BY <1>1, <1>2

(***************************************************************************)
(* What the classifier makes of the statements.                            *)
(***************************************************************************)
Changing == {"insert", "replace", "update", "delete", "drop", "alter", "truncate"}

(* The columns of a result that the executor looks at. *)
HasShape(r, kind) ==
  /\ r.category \in {"read", "write", "ddl", "admin"} /\ r.ast_type = kind
  /\ {"executes_wrapped", "category", "ast_type"} \subseteq DOMAIN r

LEMMA ResultShape ==
  ASSUME NEW ast, NEW text, NEW read, NEW mutated,
         NEW category, category \in {"read", "write", "ddl", "admin"}
  PROVE  HasShape(C!classification(ast, text, category, read, mutated), ast.kind)
BY DEF HasShape, C!classification, C!empty_result

LEMMA ResultCategory ==
  ASSUME NEW ast, NEW text, NEW read, NEW mutated, NEW category
  PROVE  C!classification(ast, text, category, read, mutated).category = category
BY DEF C!classification, C!empty_result

LEMMA ResultTables ==
  ASSUME NEW ast, NEW text, NEW read, NEW mutated, NEW category
  PROVE  /\ C!classification(ast, text, category, read, mutated).mutated_tables = mutated
         /\ C!classification(ast, text, category, read, mutated).read_tables = C!InOrder(read)
BY DEF C!classification, C!empty_result

(* What each kind of statement gets. *)
LEMMA UnwrappedSelect ==
  ASSUME NEW ast, NEW text, ast.kind = "select"
  PROVE  C!classify_unwrapped(ast, text) =
           [C!classification(ast, text, "read", QueryGraph(Head(ast.source)).read, <<>>)
              EXCEPT !.locking_read = QueryGraph(Head(ast.source)).locking]
BY DEF C!classify_unwrapped, C!DdlKinds, C!ReadKinds, C!AdminKinds

LEMMA UnwrappedInsert ==
  ASSUME NEW ast, NEW text, ast.kind \in {"insert", "replace"}
  PROVE  C!classify_unwrapped(ast, text) =
           C!classification(ast, text, "write", C!SourceReads(ast.source), ast.names)
BY DEF C!classify_unwrapped, C!DdlKinds, C!ReadKinds, C!AdminKinds

LEMMA UnwrappedUpdate ==
  ASSUME NEW ast, NEW text, ast.kind \in {"update", "delete"}
  PROVE  C!classify_unwrapped(ast, text) =
           C!classification(ast, text, "write", ExprsGraph(ast.exprs).read,
                    C!InOrder(FromGraph(ast.from).read \cup
                      {t \in ToSet(ast.names) : t.table \notin FromGraph(ast.from).cte_names}))
BY DEF ToSet, C!ToSet, C!classify_unwrapped, C!DdlKinds, C!ReadKinds, C!AdminKinds

LEMMA UnwrappedDdl ==
  ASSUME NEW ast, NEW text, ast.kind \in C!DdlKinds, C!classify_unwrapped(ast, text) # C!Failed
  PROVE  C!classify_unwrapped(ast, text) =
           C!classification(ast, text, "ddl", C!SourceReads(ast.source), ast.names)
BY DEF C!classify_unwrapped, C!DdlKinds, C!ReadKinds, C!AdminKinds

LEMMA UnwrappedType ==
  ASSUME NEW ast, NEW text, C!classify_unwrapped(ast, text) # C!Failed
  PROVE  HasShape(C!classify_unwrapped(ast, text), ast.kind)
<1> DEFINE g       == QueryGraph(Head(ast.source))
           targets == C!InOrder(FromGraph(ast.from).read \cup
                        {t \in ToSet(ast.names) : t.table \notin FromGraph(ast.from).cte_names})
<1>1. CASE ast.kind = "select"
  <2>1. C!classify_unwrapped(ast, text) =
          [C!classification(ast, text, "read", g.read, <<>>) EXCEPT !.locking_read = g.locking]
    BY <1>1, UnwrappedSelect
  <2>2. HasShape(C!classification(ast, text, "read", g.read, <<>>), ast.kind)
    BY ResultShape
  <2> QED
    BY <2>1, <2>2 DEF HasShape
<1>2. CASE ast.kind \in {"insert", "replace"}
  <2>1. C!classify_unwrapped(ast, text) =
          C!classification(ast, text, "write", C!SourceReads(ast.source), ast.names)
    BY <1>2, UnwrappedInsert
  <2>2. HasShape(C!classification(ast, text, "write", C!SourceReads(ast.source), ast.names), ast.kind)
    BY ResultShape
  <2> QED
    BY <2>1, <2>2
<1>3. CASE ast.kind \in {"update", "delete"}
  <2>1. C!classify_unwrapped(ast, text) =
          C!classification(ast, text, "write", ExprsGraph(ast.exprs).read, targets)
    BY <1>3, UnwrappedUpdate
  <2>2. HasShape(C!classification(ast, text, "write", ExprsGraph(ast.exprs).read, targets), ast.kind)
    BY ResultShape
  <2> QED
    BY <2>1, <2>2
<1>4. CASE ast.kind \in C!DdlKinds
  <2>1. C!classify_unwrapped(ast, text) =
          C!classification(ast, text, "ddl", C!SourceReads(ast.source), ast.names)
    BY <1>4, UnwrappedDdl
  <2>2. HasShape(C!classification(ast, text, "ddl", C!SourceReads(ast.source), ast.names), ast.kind)
    BY ResultShape
  <2> QED
    BY <2>1, <2>2
<1>5. CASE ast.kind \in C!ReadKinds \cup C!AdminKinds
  BY <1>5, ResultShape DEF C!classify_unwrapped, C!ReadKinds, C!AdminKinds, C!DdlKinds
<1> QED
  BY <1>1, <1>2, <1>3, <1>4, <1>5
  DEF C!classify_unwrapped, C!DdlKinds, C!ReadKinds, C!AdminKinds

LEMMA ClassType ==
  ASSUME NEW s \in Statements, C!classify_statement(s) # C!Failed
  PROVE  C!classify_statement(s).category \in R!Category
<1> DEFINE c == C!classify_statement(s)
<1>1. CASE c = C!classify_ast(s.ast, s.text)
  BY <1>1, UnwrappedType DEF HasShape, C!classify_ast, R!Category
<1>2. CASE c = C!Unparsed(s.text)
  BY <1>2 DEF C!Unparsed, C!empty_result, C!Failed, R!Category
<1> QED
  BY <1>1, <1>2 DEF C!classify_statement, C!empty_result, R!Category

LEMMA ClassOfChange ==
  ASSUME NEW s \in Statements, s.ast.kind \in Changing, C!classify_statement(s) # C!Failed
  PROVE  /\ C!classify_statement(s).ast_type = s.ast.kind
         /\ C!classify_statement(s).category \in {"write", "ddl"}
<1>1. C!classify_statement(s) = C!classify_unwrapped(s.ast, s.text)
  BY StatementAssumption DEF Changing, C!classify_statement, C!classify_ast
<1>2. C!classify_statement(s).ast_type = s.ast.kind
  BY <1>1, UnwrappedType DEF HasShape
<1>3. \E category \in {"write", "ddl"} : \E read : \E mutated :
        C!classify_statement(s) = C!classification(s.ast, s.text, category, read, mutated)
  <2>1. CASE s.ast.kind \in {"insert", "replace"}
    BY <1>1, <2>1, UnwrappedInsert
  <2>2. CASE s.ast.kind \in {"update", "delete"}
    <3> DEFINE mutated == C!InOrder(FromGraph(s.ast.from).read \cup
                 {t \in ToSet(s.ast.names) : t.table \notin FromGraph(s.ast.from).cte_names})
    <3>1. C!classify_statement(s) =
            C!classification(s.ast, s.text, "write", ExprsGraph(s.ast.exprs).read, mutated)
      BY <1>1, <2>2, UnwrappedUpdate
    <3> HIDE DEF mutated
    <3> QED
      BY <3>1
  <2>3. CASE s.ast.kind \in C!DdlKinds
    BY <1>1, <2>3, UnwrappedDdl
  <2> QED
    BY <2>1, <2>2, <2>3 DEF Changing, C!DdlKinds
<1>4. PICK category \in {"write", "ddl"} : \E read : \E mutated :
        C!classify_statement(s) = C!classification(s.ast, s.text, category, read, mutated)
  BY <1>3
<1>5. PICK read, mutated :
        C!classify_statement(s) = C!classification(s.ast, s.text, category, read, mutated)
  BY <1>4
<1>6. C!classification(s.ast, s.text, category, read, mutated).category = category
  BY ResultCategory
<1> QED
  BY <1>2, <1>5, <1>6

LEMMA SameSetToSeq ==
  ASSUME NEW S
  PROVE  E!SetToSeq(S) = SetToSeq(S) /\ C!SetToSeq(S) = SetToSeq(S)
BY DEF E!SetToSeq, C!SetToSeq, SetToSeq, E!IsInjective, C!IsInjective, IsInjective,
       E!Cardinality, C!Cardinality, Cardinality

(***************************************************************************)
(* Policy resolution.                                                      *)
(***************************************************************************)
(* The first of the strictest contributions exists, and is the strictest. *)
LEMMA StrictestFacts ==
  ASSUME NEW n \in Nat \ {0}, NEW cs, DOMAIN cs = 1..n,
         \A i \in 1..n : cs[i].action \in R!PolicyAction
  PROVE  /\ R!Strictest(cs) \in 1..n
         /\ \A j \in 1..n : R!rank(cs[j].action) <= R!rank(cs[R!Strictest(cs)].action)
<1> DEFINE r(i) == R!rank(cs[i].action)
           Top  == {i \in 1..n : \A j \in 1..n : r(j) <= r(i)}
<1>1. \A i \in 1..n : r(i) \in 0..2
  BY DEF R!rank, R!PolicyAction
<1> HIDE DEF r
<1>2. Top # {}
  <2>1. CASE \E i \in 1..n : r(i) = 2
    BY <1>1, <2>1
  <2>2. CASE ~(\E i \in 1..n : r(i) = 2) /\ \E i \in 1..n : r(i) = 1
    <3>1. PICK i \in 1..n : r(i) = 1
      BY <2>2
    <3>2. \A j \in 1..n : r(j) <= 1
      BY <1>1, <2>2
    <3> QED
      BY <3>1, <3>2
  <2>3. CASE ~(\E i \in 1..n : r(i) \in {1, 2})
    <3>1. \A j \in 1..n : r(j) = 0
      BY <1>1, <2>3
    <3> QED
      BY <3>1
  <2> QED
    BY <2>1, <2>2, <2>3
<1>3. PICK i \in Top : \A j \in Top : <<j, i>> \notin OpToRel(<, Nat)
  <2>1. Top \subseteq Nat
    OBVIOUS
  <2> HIDE DEF Top
  <2> QED
    BY <1>2, <2>1, NatLessThanWellFounded, WFMin
<1>4. \A j \in Top : i <= j
  <2>1. Top \subseteq Nat
    OBVIOUS
  <2> HIDE DEF Top
  <2>2. \A j \in Top : ~(j < i)
    BY <1>3, <2>1 DEF OpToRel
  <2> QED
    BY <2>1, <2>2
<1>5. \A j \in 1..n : r(j) <= r(i) /\ (j < i => r(j) < r(i))
  <2> TAKE j \in 1..n
  <2>1. CASE j < i /\ r(j) = r(i)
    BY <1>4, <2>1
  <2> QED
    BY <1>1, <2>1
<1>6. \E k \in DOMAIN cs : \A j \in DOMAIN cs :
         R!rank(cs[j].action) <= R!rank(cs[k].action)
           /\ (j < k => R!rank(cs[j].action) < R!rank(cs[k].action))
  BY <1>5 DEF r
<1> QED
  BY <1>6 DEF R!Strictest

(* The objects of a statement: each table it reads, each table it changes. *)
Named(t, fallback) ==
  [database |-> IF t.database = Unset THEN fallback ELSE t.database, table |-> t.table]

Object(t, fallback, category) == [id |-> Named(t, fallback), category |-> category]

LEMMA ObjectsFacts ==
  ASSUME NEW c, NEW fallback, IsList(c.read_tables), IsList(c.mutated_tables)
  PROVE  /\ \E n \in Nat : DOMAIN R!Objects(c, fallback) = 1..n
         /\ \A j \in DOMAIN R!Objects(c, fallback) :
              R!Objects(c, fallback)[j].category \in {"read", "write", c.category}
         /\ \A i \in DOMAIN c.read_tables : \E j \in DOMAIN R!Objects(c, fallback) :
              R!Objects(c, fallback)[j] = Object(c.read_tables[i], fallback, "read")
         /\ \A i \in DOMAIN c.mutated_tables : \E j \in DOMAIN R!Objects(c, fallback) :
              R!Objects(c, fallback)[j] = Object(c.mutated_tables[i], fallback, c.category)
         /\ R!Objects(c, fallback) = <<>> <=> (c.read_tables = <<>> /\ c.mutated_tables = <<>>)
<1> DEFINE object(t, category) == Object(t, fallback, category)
           n == Len(c.read_tables)
           m == Len(c.mutated_tables)
           reads == IF c.locking_read
                    THEN [i \in 1..2 * n |-> object(c.read_tables[(i + 1) \div 2],
                                                    IF i % 2 = 1 THEN "read" ELSE "write")]
                    ELSE [i \in 1..n |-> object(c.read_tables[i], "read")]
           changes == [i \in 1..m |-> object(c.mutated_tables[i], c.category)]
           l == IF c.locking_read THEN 2 * n ELSE n
           Set == {reads[i] : i \in 1..l} \cup {changes[i] : i \in 1..m}
<1>1. n \in Nat /\ m \in Nat /\ DOMAIN c.read_tables = 1..n /\ DOMAIN c.mutated_tables = 1..m
  BY DEF IsList
<1>2. R!Objects(c, fallback) = reads \o changes
  BY DEF R!Objects, Named, Object
<1>3. l \in Nat /\ reads \in [1..l -> Set] /\ changes \in [1..m -> Set]
  <2>1. l \in Nat
    BY <1>1
  <2>2. DOMAIN reads = 1..l /\ DOMAIN changes = 1..m
    BY <1>1
  <2>3. reads = [i \in DOMAIN reads |-> reads[i]] /\ changes = [i \in DOMAIN changes |-> changes[i]]
    BY Zenon
  <2> HIDE DEF reads, changes, l
  <2> QED
    BY <2>1, <2>2, <2>3
<1>4. /\ \A i \in 1..l : reads[i].category \in {"read", "write"}
      /\ \A i \in 1..m : changes[i] = object(c.mutated_tables[i], c.category)
  <2>1. CASE c.locking_read
    BY <1>1, <2>1 DEF Object
  <2>2. CASE ~c.locking_read
    BY <1>1, <2>2 DEF Object
  <2> QED
    BY <2>1, <2>2
<1>5. \A i \in 1..n : \E j \in 1..l : reads[j] = object(c.read_tables[i], "read")
  <2> TAKE i \in 1..n
  <2>1. CASE c.locking_read
    <3>1. 2 * i - 1 \in 1..2 * n /\ (2 * i - 1 + 1) \div 2 = i /\ (2 * i - 1) % 2 = 1
      BY <1>1
    <3> QED
      BY <2>1, <3>1
  <2> QED
    BY <1>1, <2>1
<1> HIDE DEF reads, changes, l, Set
<1>6. reads \in Seq(Set) /\ changes \in Seq(Set) /\ Len(reads) = l /\ Len(changes) = m
  BY <1>1, <1>3
<1>7. /\ Len(reads \o changes) = l + m /\ DOMAIN (reads \o changes) = 1..l + m
      /\ \A i \in 1..l + m : (reads \o changes)[i] = IF i <= l THEN reads[i] ELSE changes[i - l]
  <2>1. /\ Len(reads \o changes) = Len(reads) + Len(changes)
        /\ DOMAIN (reads \o changes) = 1..Len(reads) + Len(changes)
        /\ \A i \in 1..Len(reads) + Len(changes) :
             (reads \o changes)[i] = IF i <= Len(reads) THEN reads[i] ELSE changes[i - Len(reads)]
    BY <1>6, ConcatFacts, Zenon
  <2> QED
    BY <1>6, <2>1, Zenon
<1> DEFINE objects == reads \o changes
<1>8. \A j \in DOMAIN objects : objects[j].category \in {"read", "write", c.category}
  <2>1. \A i \in 1..m : changes[i].category = c.category
    <3> TAKE i \in 1..m
    <3>1. object(c.mutated_tables[i], c.category).category = c.category
      BY DEF Object
    <3> QED
      BY <1>4, <3>1
  <2>2. ASSUME NEW j \in 1..l + m, j > l PROVE j - l \in 1..m
    BY <1>1, <1>3, <2>2
  <2> QED
    BY <1>1, <1>3, <1>4, <1>7, <2>1, <2>2
<1>9. \A i \in 1..n : \E j \in DOMAIN objects : objects[j] = object(c.read_tables[i], "read")
  <2>1. \A j \in 1..l : j \in 1..l + m /\ objects[j] = reads[j]
    BY <1>1, <1>3, <1>7
  <2> QED
    BY <1>5, <1>7, <2>1
<1>10. \A i \in 1..m : \E j \in DOMAIN objects : objects[j] = object(c.mutated_tables[i], c.category)
  <2>1. \A i \in 1..m : l + i \in 1..l + m /\ objects[l + i] = changes[i]
    BY <1>1, <1>3, <1>7
  <2> QED
    BY <1>4, <1>7, <2>1
<1>11. objects = <<>> <=> n = 0 /\ m = 0
  <2>1. objects = <<>> <=> l + m = 0
    BY <1>1, <1>3, <1>6, <1>7
  <2>2. l + m = 0 <=> l = 0 /\ m = 0
    BY <1>1, <1>3
  <2>3. l = 0 <=> n = 0
    BY <1>1 DEF l
  <2> QED
    BY <2>1, <2>2, <2>3
<1>12. (c.read_tables = <<>> <=> n = 0) /\ (c.mutated_tables = <<>> <=> m = 0)
  BY <1>1 DEF IsList
<1>13. \E k \in Nat : DOMAIN objects = 1..k
  BY <1>1, <1>3, <1>7
<1> HIDE DEF objects
<1> QED
  BY <1>1, <1>2, <1>8, <1>9, <1>10, <1>11, <1>12, <1>13 DEF objects

LEMMA ObjectDecided ==
  ASSUME NEW conn \in Connections, NEW object, object.category \in R!Category
  PROVE  /\ R!resolve_object(conn, object).action \in R!PolicyAction
         /\ Limited(R!resolve_object(conn, object).effective)
<1> DEFINE governing == R!governing_rules(conn.rules, object.id)
           rule      == CHOOSE p \in governing : TRUE
<1>1. governing # {} => \E key \in DOMAIN conn.rules : rule = conn.rules[key]
  <2>1. \A p \in governing : \E key \in DOMAIN conn.rules : p = conn.rules[key]
    BY DEF R!governing_rules
  <2> HIDE DEF governing
  <2> QED
    BY <2>1
<1>2. /\ conn.policy.action[object.category] \in R!PolicyAction
      /\ Limited(conn.policy)
  BY ConnectionAssumption DEF Limited
<1>3. governing # {} =>
        /\ rule.action[object.category] = Unset \/ rule.action[object.category] \in R!PolicyAction
        /\ rule.max_backup_rows = Unset \/ rule.max_backup_rows \in Nat
        /\ rule.overflow \in {Unset, "abort", "truncate"}
  <2> HIDE DEF rule, governing
  <2> QED
    BY <1>1, ConnectionAssumption
<1>4. governing # {} => Limited(R!merged_with(conn.policy, rule))
  <2> HIDE DEF rule, governing
  <2> QED
    BY <1>2, <1>3 DEF R!merged_with, Limited
<1>5. R!resolve_object(conn, object).effective =
        IF governing = {} THEN conn.policy ELSE R!merged_with(conn.policy, rule)
  BY DEF R!resolve_object
<1>6. R!resolve_object(conn, object).action =
        R!resolve_table_action(conn.policy.action[object.category],
           IF governing = {} THEN Unset ELSE rule.action[object.category]).action
  BY DEF R!resolve_object
<1> HIDE DEF rule, governing
<1>7. Limited(R!resolve_object(conn, object).effective)
  BY <1>2, <1>4, <1>5
<1>8. ASSUME NEW baseline \in R!PolicyAction, NEW own, own = Unset \/ own \in R!PolicyAction
      PROVE  R!resolve_table_action(baseline, own).action \in R!PolicyAction
  BY <1>8 DEF R!resolve_table_action, R!PolicyAction
<1>9. R!resolve_object(conn, object).action \in R!PolicyAction
  BY <1>2, <1>3, <1>6, <1>8
<1> QED
  BY <1>7, <1>9

(* A classification the resolver can work on. *)
Resolvable(c) ==
  c.category \in R!Category /\ IsList(c.read_tables) /\ IsList(c.mutated_tables)

(***************************************************************************)
(* What is not denied has no part that is, and whatever is decided comes   *)
(* with limits that are set.                                               *)
(***************************************************************************)
LEMMA ResolveFacts ==
  ASSUME NEW conn \in Connections, NEW c, Resolvable(c), NEW fallback_database
  PROVE  LET r == R!resolve(conn, c, fallback_database)
             fallback == IF fallback_database = Unset THEN conn.database ELSE fallback_database
             objects == R!Objects(c, fallback)
         IN /\ Limited(r.effective)
            /\ r.action # "deny" =>
                 \A j \in DOMAIN objects : R!resolve_object(conn, objects[j]).action # "deny"
<1> DEFINE r == R!resolve(conn, c, fallback_database)
           fallback == IF fallback_database = Unset THEN conn.database ELSE fallback_database
           objects == R!Objects(c, fallback)
           contributions == [i \in DOMAIN objects |-> R!resolve_object(conn, objects[i])]
           s == contributions[R!Strictest(contributions)]
<1> HIDE DEF fallback
<1>1. /\ \E n \in Nat : DOMAIN objects = 1..n
      /\ \A j \in DOMAIN objects : objects[j].category \in R!Category
  BY ObjectsFacts DEF Resolvable, R!Category
<1>2. Limited(conn.policy)
  BY ConnectionAssumption DEF Limited
<1>3. \/ r.action = "deny" /\ r.effective = conn.policy
      \/ objects = <<>> /\ r.effective = conn.policy
      \/ objects # <<>> /\ r.action = s.action /\ r.effective = s.effective
  BY DEF R!resolve, fallback
<1> HIDE DEF r
<1>4. ASSUME objects # <<>>
      PROVE  Limited(s.effective) /\ (s.action # "deny" =>
               \A j \in DOMAIN objects : R!resolve_object(conn, objects[j]).action # "deny")
  <2>1. PICK n \in Nat \ {0} : DOMAIN objects = 1..n
    <3> PICK n \in Nat : DOMAIN objects = 1..n
      BY <1>1
    <3>1. CASE n = 0
      <4>1. R!Objects(c, fallback) = <<>>
        BY <3>1, ObjectsFacts DEF Resolvable
      <4> QED
        BY <1>4, <4>1
    <3> QED
      BY <3>1
  <2> HIDE DEF objects
  <2>2. DOMAIN contributions = 1..n
    BY <2>1
  <2>3. \A i \in 1..n : /\ contributions[i] = R!resolve_object(conn, objects[i])
                        /\ contributions[i].action \in R!PolicyAction
                        /\ Limited(contributions[i].effective)
    BY <1>1, <2>1, ObjectDecided
  <2> HIDE DEF contributions
  <2>4. /\ R!Strictest(contributions) \in 1..n
        /\ \A j \in 1..n : R!rank(contributions[j].action) <= R!rank(s.action)
    BY <2>2, <2>3, StrictestFacts
  <2>5. ASSUME NEW a \in R!PolicyAction, a # "deny" PROVE R!rank(a) < 2
    BY <2>5 DEF R!PolicyAction, R!rank
  <2>6. R!rank("deny") = 2
    BY DEF R!rank
  <2>7. s.action # "deny" => \A j \in 1..n : contributions[j].action # "deny"
    <3> SUFFICES ASSUME s.action # "deny", NEW j \in 1..n, contributions[j].action = "deny"
                 PROVE  FALSE
      OBVIOUS
    <3>1. R!rank(s.action) \in {0, 1}
      BY <2>3, <2>4 DEF R!PolicyAction, R!rank
    <3>2. R!rank(contributions[j].action) = 2
      BY <2>6
    <3>3. R!rank(contributions[j].action) <= R!rank(s.action)
      BY <2>4
    <3> QED
      BY <3>1, <3>2, <3>3
  <2> QED
    BY <2>1, <2>3, <2>4, <2>7
<1> HIDE DEF s
<1>5. objects = <<>> => DOMAIN objects = {}
  OBVIOUS
<1> QED
  BY <1>2, <1>3, <1>4, <1>5 DEF r, fallback

LEMMA ClassResolvable ==
  ASSUME NEW s \in Statements, C!classify_statement(s) # C!Failed
  PROVE  Resolvable(C!classify_statement(s))
BY ClassType, WalkAssumption DEF Resolvable, IsList, ToSet

LEMMA AuthorisedFacts ==
  ASSUME NEW ast, NEW c, NEW conn \in Connections, NEW policy, Authorised(ast, c, conn, policy)
  PROVE  /\ Limited(policy)
         /\ \E s \in Statements : ast = s.ast
         /\ ast.kind \in Changing => c.ast_type = ast.kind /\ InTransaction(c)
<1>1. PICK s \in Statements :
        /\ ast = s.ast /\ c = C!classify_statement(s) /\ c # C!Failed
        /\ policy = R!resolve(conn, c, Unset).effective
  BY DEF Authorised
<1>2. Limited(policy)
  BY <1>1, ClassResolvable, ResolveFacts
<1>3. ast.kind \in Changing => c.ast_type = ast.kind /\ c.category \in {"write", "ddl"}
  BY <1>1, ClassOfChange
<1> QED
  BY <1>1, <1>2, <1>3 DEF InTransaction

(***************************************************************************)
(* The extractor: one target, and the keys of the statement.               *)
(***************************************************************************)
IsTarget(spec, kind, table, keys) ==
  /\ spec.kind = kind /\ Head(spec.tables).table.table = table /\ Head(spec.tables).keys = keys

LEMMA OneSource ==
  ASSUME NEW from, from # <<>>, from = <<Head(from)>>, Head(from).kind = "table"
  PROVE  E!collect_tables(from) = {1} /\ E!NamesAt(from, {1}) = <<Head(from).name>>
<1>1. DOMAIN from = {1} /\ from[1] = Head(from)
  OBVIOUS
<1>2. E!SetToSeq({1}) = <<1>>
  BY SameSetToSeq, SetToSeqSmall
<1> QED
  BY <1>1, <1>2 DEF E!collect_tables, E!NamesAt

LEMMA ExtractFacts ==
  ASSUME NEW s \in Statements
  PROVE  LET spec == E!extract_backup_spec(s.ast, Keys) IN
         /\ s.ast.kind \in {"update", "delete"} =>
              IsTarget(spec, "rows", TargetOf(s.ast), s.ast.where) /\ TargetOf(s.ast) \in Tables
         /\ s.ast.kind = "drop" =>
              IsTarget(spec, "combined", TargetOf(s.ast), Keys) /\ TargetOf(s.ast) \in Tables
         /\ s.ast.kind = "insert" => spec.kind = "insert-hint" /\ TargetOf(s.ast) \in Tables
         /\ s.ast.kind # "insert" => spec.kind \in {"none", "rows", "combined", "schema"}
         /\ spec.kind \in {"rows", "combined", "schema"} =>
              Head(spec.tables).table.table \in Tables
<1> DEFINE ast  == s.ast
           spec == E!extract_backup_spec(ast, Keys)
<1>1. CASE ast.kind \in {"update", "delete"}
  <2>1. /\ ast.from # <<>> /\ ast.from = <<Head(ast.from)>> /\ ast.names = <<>>
        /\ Head(ast.from).kind = "table" /\ Head(ast.from).name.table \in Tables
        /\ ast.set_tables \subseteq {Head(ast.from).name.table}
    BY <1>1, StatementAssumption
  <2>2. E!collect_tables(ast.from) = {1} /\ E!NamesAt(ast.from, {1}) = <<Head(ast.from).name>>
    BY <2>1, OneSource
  <2>3. ast.from[1] = Head(ast.from)
    BY <2>1
  <2>4. spec = E!RowsOf(ast, <<Head(ast.from).name>>)
    <3>1. CASE ast.kind = "delete"
      BY <2>1, <2>2, <3>1 DEF E!extract_backup_spec, E!delete_spec
    <3>2. CASE ast.kind = "update" /\ ast.set_tables = {}
      <4>1. {i \in {1} : \A j \in {1} : i <= j} = {1}
        OBVIOUS
      <4> QED
        BY <2>2, <3>2, <4>1 DEF E!extract_backup_spec, E!update_spec
    <3>3. CASE ast.kind = "update" /\ ast.set_tables # {}
      <4>1. {i \in {1} : ast.from[i].name.table \in ast.set_tables} = {1}
        BY <2>1, <2>3, <3>3
      <4> QED
        BY <2>2, <3>3, <4>1 DEF E!extract_backup_spec, E!update_spec
    <3> QED
      BY <1>1, <3>1, <3>2, <3>3
  <2>5. spec.kind = "rows" /\ Head(spec.tables) = E!BackupTable(Head(ast.from).name, ast.where, ast.tail)
    BY <2>4 DEF E!RowsOf, E!Spec
  <2>6. TargetOf(ast) = Head(ast.from).name.table
    BY <2>1 DEF TargetOf
  <2> QED
    BY <1>1, <2>1, <2>5, <2>6 DEF IsTarget, E!BackupTable
<1>2. CASE ast.kind = "drop"
  <2>1. ast.names # <<>> /\ Head(ast.names).table \in Tables
    BY <1>2, StatementAssumption
  <2>2. spec.kind = "combined" /\ Head(spec.tables) = E!BackupTable(Head(ast.names), Keys, "plain")
    BY <1>2 DEF E!extract_backup_spec, E!combined_spec, E!Spec
  <2> QED
    BY <1>2, <2>1, <2>2 DEF IsTarget, E!BackupTable, TargetOf
<1>3. CASE ast.kind = "truncate"
  BY <1>3, StatementAssumption
  DEF E!extract_backup_spec, E!combined_spec, E!Spec, E!BackupTable
<1>4. CASE ast.kind = "insert"
  BY <1>4, StatementAssumption DEF E!extract_backup_spec, E!insert_spec, E!Spec, TargetOf
<1>5. CASE ast.kind = "replace"
  BY <1>5, StatementAssumption
  DEF E!extract_backup_spec, E!replace_spec, E!Spec, E!NoSpec, E!BackupTable
<1>6. CASE ast.kind = "alter"
  <2>1. ast.names # <<>> /\ Head(ast.names).table \in Tables /\ IsList(ast.names)
    BY <1>6, StatementAssumption DEF IsList, ToSet
  <2>2. spec.kind = "schema" /\
          spec.tables = [i \in DOMAIN ast.names |-> E!BackupTable(ast.names[i], {}, "plain")]
    BY <1>6 DEF E!extract_backup_spec, E!schema_spec, E!Spec
  <2>3. 1 \in DOMAIN ast.names /\ Head(ast.names) = ast.names[1] /\ DOMAIN ast.names = 1..Len(ast.names)
    BY <2>1 DEF IsList
  <2>4. Head(spec.tables) = E!BackupTable(Head(ast.names), {}, "plain")
    BY <2>2, <2>3
  <2> QED
    BY <1>6, <2>1, <2>2, <2>4 DEF E!BackupTable
<1>7. CASE ast.kind \notin Changing
  BY <1>7, StatementAssumption DEF Changing, E!extract_backup_spec, E!NoSpec
<1> QED
  BY <1>1, <1>2, <1>3, <1>4, <1>5, <1>6, <1>7 DEF Changing

(***************************************************************************)
(* The engine.                                                             *)
(***************************************************************************)
LEMMA KeysFinite == IsFiniteSet(Keys) /\ \A S \in SUBSET Keys : IsFiniteSet(S)
<1>1. IsFiniteSet(Keys)
  BY ExecAssumption, FS_Interval DEF Keys
<1>2. ASSUME NEW S \in SUBSET Keys PROVE IsFiniteSet(S)
  BY <1>1, FS_Subset
<1> QED
  BY <1>1, <1>2

LEMMA WithRowsFacts ==
  ASSUME NEW st \in StoreType, NEW t \in Tables, NEW keys, NEW v \in Cells
  PROVE  LET post == WithRows(st, t, keys, v) IN
         /\ post \in StoreType
         /\ \A u \in Tables \ {t} : post[u] = st[u]
         /\ post[t].exists = st[t].exists
         /\ \A k \in Keys : post[t].rows[k] = IF k \in keys THEN v ELSE st[t].rows[k]
BY DEF WithRows, StoreType

LEMMA TargetInTables ==
  ASSUME NEW s \in Statements, s.ast.kind \in Changing
  PROVE  TargetOf(s.ast) \in Tables
<1>1. CASE s.ast.kind \in {"update", "delete"}
  BY <1>1, ExtractFacts
<1>2. CASE s.ast.kind \in {"insert", "replace", "truncate", "drop", "alter"}
  BY <1>2, StatementAssumption DEF TargetOf
<1> QED
  BY <1>1, <1>2 DEF Changing

LEMMA EffectType ==
  ASSUME NEW s \in Statements, NEW st \in StoreType
  PROVE  Effect(s.ast, st) \in StoreType
<1> DEFINE t == TargetOf(s.ast)
<1>1. s.ast.value \in Cells /\ NoRow \in Cells
  BY StatementAssumption DEF Cells
<1>2. CASE s.ast.kind \in {"insert", "replace", "update", "delete"}
  <2>1. t \in Tables
    BY <1>2, TargetInTables DEF Changing
  <2> HIDE DEF t
  <2>2. CASE s.ast.kind \in {"insert", "replace"}
    BY <1>1, <2>1, <2>2, WithRowsFacts DEF Effect, t
  <2>3. CASE s.ast.kind = "update"
    BY <1>1, <2>1, <2>3, WithRowsFacts DEF Effect, t
  <2>4. CASE s.ast.kind = "delete"
    BY <1>1, <2>1, <2>4, WithRowsFacts DEF Effect, t
  <2> QED
    BY <1>2, <2>2, <2>3, <2>4
<1>3. CASE s.ast.kind = "drop"
  <2>1. t \in Tables
    BY <1>3, TargetInTables DEF Changing
  <2>2. Effect(s.ast, st) = [st EXCEPT ![t] = [exists |-> FALSE, rows |-> [k \in Keys |-> NoRow]]]
    BY <1>3 DEF Effect
  <2> QED
    BY <1>1, <2>1, <2>2 DEF StoreType
<1>4. CASE s.ast.kind \notin {"insert", "replace", "update", "delete", "drop"}
  BY <1>4 DEF Effect
<1> QED
  BY <1>2, <1>3, <1>4

(***************************************************************************)
(* Captures.                                                               *)
(***************************************************************************)
LEMMA FirstOfAll ==
  ASSUME NEW keys \in SUBSET Keys, NEW n \in Nat, Cardinality(keys) <= n
  PROVE  FirstOf(keys, n) = keys
<1>1. SUFFICES ASSUME NEW k \in keys PROVE Cardinality({j \in keys : j < k}) < n
  BY DEF FirstOf
<1> DEFINE below == {j \in keys : j < k}
<1>2. IsFiniteSet(keys)
  BY KeysFinite
<1>3. below \in SUBSET keys /\ k \notin below
  BY DEF Keys
<1> HIDE DEF below
<1>4. IsFiniteSet(below) /\ Cardinality(below) <= Cardinality(keys)
        /\ (Cardinality(keys) = Cardinality(below) => keys = below)
  BY <1>2, <1>3, FS_Subset
<1>5. Cardinality(below) \in Nat /\ Cardinality(keys) \in Nat
  BY <1>2, <1>4, FS_CardinalityType
<1>6. Cardinality(below) < n
  BY <1>1, <1>3, <1>4, <1>5
<1> QED
  BY <1>6 DEF below

LEMMA JsonType == \A v \in Cells : JsonOf(v) \in Cells /\ Escape(v) \in Cells
BY DEF Cells, Values, JsonOf, Escape

LEMMA BackupRowFacts ==
  ASSUME NEW s \in Statements, NEW st \in StoreType, NEW policy, Limited(policy),
         E!extract_backup_spec(s.ast, Keys).kind \in {"rows", "combined", "schema"}
  PROVE  LET spec == E!extract_backup_spec(s.ast, Keys)
             bt   == Head(spec.tables)
             b    == BackupRow(spec, st, policy)
         IN /\ IsBackup(b)
            /\ ~Refused(spec, st, policy) /\ policy.overflow = "abort" => ~b.truncated
            /\ b.table = bt.table.table /\ b.kind = spec.kind
            /\ b.schema <=> (spec.kind # "rows" /\ st[bt.table.table].exists)
            /\ ~b.truncated /\ spec.kind # "schema" =>
                 b.rows = [k \in Selected(bt, st) |-> JsonOf(st[bt.table.table].rows[k])]
<1> DEFINE spec == E!extract_backup_spec(s.ast, Keys)
           bt   == Head(spec.tables)
           t    == bt.table.table
           kept == IF spec.kind = "schema" THEN {} ELSE FirstOf(Selected(bt, st), policy.max_backup_rows)
           b    == BackupRow(spec, st, policy)
<1>1. t \in Tables
  BY ExtractFacts
<1> HIDE DEF spec
<1>2. spec.kind \in {"rows", "combined", "schema"}
  BY DEF spec
<1>3. Selected(bt, st) \in SUBSET Keys
  BY <1>1 DEF Selected, Present
<1>4. kept \in SUBSET Keys
  BY <1>3 DEF FirstOf
<1>5. \A k \in Keys : st[t].rows[k] \in Cells
  BY <1>1 DEF StoreType
<1>6. /\ b.table = t /\ b.kind = spec.kind /\ b.rows = [k \in kept |-> JsonOf(st[t].rows[k])]
      /\ b.schema = (spec.kind # "rows" /\ st[t].exists)
      /\ b.truncated = (spec.kind # "schema" /\ Overflows(bt, st, policy))
  BY DEF BackupRow
<1>7. b.rows \in [kept -> Cells]
  BY <1>4, <1>5, <1>6, JsonType
<1>8. IsBackup(b)
  <2> HIDE DEF kept, b, t
  <2>1. b.schema \in BOOLEAN /\ b.truncated \in BOOLEAN
    BY <1>6
  <2> QED
    BY <1>1, <1>2, <1>4, <1>6, <1>7, <2>1 DEF IsBackup
<1>9. ~Refused(spec, st, policy) /\ policy.overflow = "abort" => ~b.truncated
  BY <1>6 DEF Refused
<1>10. ~b.truncated /\ spec.kind # "schema" => kept = Selected(bt, st)
  <2> SUFFICES ASSUME ~b.truncated, spec.kind # "schema" PROVE kept = Selected(bt, st)
    OBVIOUS
  <2>1. ~(Cardinality(Selected(bt, st)) > policy.max_backup_rows)
    BY <1>6 DEF Overflows
  <2>2. Cardinality(Selected(bt, st)) \in Nat
    BY <1>3, KeysFinite, FS_CardinalityType
  <2>3. policy.max_backup_rows \in Nat
    BY DEF Limited
  <2> QED
    BY <1>3, <2>1, <2>2, <2>3, FirstOfAll
<1> HIDE DEF kept, b, t, bt
<1>11. ~b.truncated /\ spec.kind # "schema" => b.rows = [k \in Selected(bt, st) |-> JsonOf(st[t].rows[k])]
  BY <1>6, <1>10
<1> QED
  BY <1>6, <1>8, <1>9, <1>11 DEF spec, bt, t, b

LEMMA HintRowFacts ==
  ASSUME NEW s \in Statements, s.ast.kind = "insert", NEW affected
  PROVE  LET b == HintRow(s.ast, affected) IN
         /\ IsBackup(b) /\ b.table = TargetOf(s.ast) /\ b.kind = "insert-hint"
         /\ b.truncated = FALSE /\ b.deletes = HintKeys(s.ast, affected)
<1>1. TargetOf(s.ast) \in Tables
  BY ExtractFacts
<1>2. <<>> \in [{} -> Cells]
  OBVIOUS
<1>3. HintRow(s.ast, affected).rows = <<>>
  BY DEF HintRow
<1> QED
  BY <1>1, <1>2, <1>3 DEF HintRow, IsBackup

(***************************************************************************)
(* Plans.                                                                  *)
(***************************************************************************)
LEMMA UpsertFacts ==
  ASSUME NEW b, IsBackup(b)
  PROVE  /\ IsList(Upserts(b))
         /\ \A i \in DOMAIN Upserts(b) : \E k \in DOMAIN b.rows :
              Upserts(b)[i] = [op |-> "upsert", table |-> b.table, keys |-> {k}, json |-> b.rows[k]]
         /\ \A k \in DOMAIN b.rows : \E i \in DOMAIN Upserts(b) : k \in Upserts(b)[i].keys
<1> DEFINE keys == SetToSeq(DOMAIN b.rows)
           n    == Cardinality(DOMAIN b.rows)
<1>1. DOMAIN b.rows \in SUBSET Keys
  BY DEF IsBackup
<1>2. /\ n \in Nat /\ keys \in [1..n -> DOMAIN b.rows]
      /\ \A k \in DOMAIN b.rows : \E i \in 1..n : keys[i] = k
  BY <1>1, KeysFinite, SetToSeqFacts
<1>3. Upserts(b) = [i \in DOMAIN keys |-> [op |-> "upsert", table |-> b.table, keys |-> {keys[i]},
                                          json |-> b.rows[keys[i]]]]
  BY DEF Upserts
<1> HIDE DEF keys, n
<1>4. DOMAIN Upserts(b) = 1..n /\ \A i \in 1..n :
        Upserts(b)[i] = [op |-> "upsert", table |-> b.table, keys |-> {keys[i]}, json |-> b.rows[keys[i]]]
  BY <1>2, <1>3
<1>5. IsList(Upserts(b))
  <2>1. Upserts(b) = [i \in DOMAIN Upserts(b) |-> Upserts(b)[i]]
    BY <1>3, Zenon
  <2> QED
    BY <1>2, <1>4, <2>1 DEF IsList
<1>6. \A i \in DOMAIN Upserts(b) : \E k \in DOMAIN b.rows :
        Upserts(b)[i] = [op |-> "upsert", table |-> b.table, keys |-> {k}, json |-> b.rows[k]]
  <2> TAKE i \in DOMAIN Upserts(b)
  <2>1. keys[i] \in DOMAIN b.rows
    BY <1>2, <1>4
  <2> WITNESS keys[i] \in DOMAIN b.rows
  <2> QED
    BY <1>4
<1>7. \A i \in 1..n : Upserts(b)[i].keys = {keys[i]}
  BY <1>4
<1>8. \A k \in DOMAIN b.rows : \E i \in DOMAIN Upserts(b) : k \in Upserts(b)[i].keys
  BY <1>2, <1>4, <1>7
<1> QED
  BY <1>5, <1>6, <1>8

(* What a plan is made of. *)
LEMMA PlanFacts ==
  ASSUME NEW b, IsBackup(b)
  PROVE  LET plan == plan_restore(b) IN
         /\ Len(plan) \in Nat /\ DOMAIN plan = 1..Len(plan)
         /\ \A i \in DOMAIN plan :
              \/ /\ b.kind \in {"schema", "combined"} /\ b.schema
                 /\ plan[i] = [op |-> "create", table |-> b.table, keys |-> {}]
              \/ /\ b.kind \in {"rows", "combined"}
                 /\ \E k \in DOMAIN b.rows : plan[i] =
                      [op |-> "upsert", table |-> b.table, keys |-> {k}, json |-> b.rows[k]]
              \/ b.kind = "insert-hint" /\ plan[i] = Delete(b)
         /\ b.kind \in {"rows", "combined"} =>
              \A k \in DOMAIN b.rows : \E i \in DOMAIN plan : k \in plan[i].keys
         /\ b.kind \in {"schema", "combined"} /\ b.schema => \E i \in DOMAIN plan : plan[i].op = "create"
         /\ b.kind = "insert-hint" => plan = <<Delete(b)>>
<1> DEFINE create == [op |-> "create", table |-> b.table, keys |-> {}]
           plan   == plan_restore(b)
<1>1. /\ b.schema => Create(b) = <<create>>
      /\ ~b.schema => Create(b) = <<>>
  BY DEF Create
<1>2. CASE b.kind = "schema"
  <2>1. plan = Create(b)
    BY <1>2 DEF plan_restore
  <2> QED
    BY <1>1, <1>2, <2>1
<1>3. CASE b.kind = "insert-hint"
  <2>1. plan = <<Delete(b)>>
    BY <1>3 DEF plan_restore
  <2> QED
    BY <1>3, <2>1
<1>4. CASE b.kind = "rows"
  <2>1. plan = Upserts(b)
    BY <1>4 DEF plan_restore
  <2>2. Len(plan) \in Nat /\ DOMAIN plan = 1..Len(plan)
    BY <2>1, UpsertFacts DEF IsList
  <2>3. /\ \A i \in DOMAIN plan : \E k \in DOMAIN b.rows : plan[i] =
              [op |-> "upsert", table |-> b.table, keys |-> {k}, json |-> b.rows[k]]
        /\ \A k \in DOMAIN b.rows : \E i \in DOMAIN plan : k \in plan[i].keys
    BY <2>1, UpsertFacts
  <2> HIDE DEF plan
  <2> QED
    BY <1>4, <2>2, <2>3 DEF plan
<1>5. CASE b.kind = "combined"
  <2>1. plan = Create(b) \o Upserts(b)
    BY <1>5 DEF plan_restore
  <2> DEFINE ups == Upserts(b)
             S   == {create} \cup {ups[i] : i \in DOMAIN ups}
             l   == IF b.schema THEN 1 ELSE 0
  <2>2. ups \in Seq(S) /\ DOMAIN ups = 1..Len(ups) /\ Len(ups) \in Nat
    <3>1. ups \in Seq({ups[i] : i \in DOMAIN ups})
      BY UpsertFacts DEF IsList
    <3> HIDE DEF ups
    <3>2. {ups[i] : i \in DOMAIN ups} \subseteq S
      OBVIOUS
    <3> QED
      BY <3>1, <3>2, SeqMonotonic, LenProperties
  <2>3. Create(b) \in Seq(S) /\ Len(Create(b)) = l /\ l \in {0, 1}
        /\ (b.schema => Create(b)[1] = create)
    <3>1. create \in S
      OBVIOUS
    <3> HIDE DEF ups, S, create
    <3>2. <<create>> \in Seq(S) /\ <<>> \in Seq(S) /\ Len(<<create>>) = 1 /\ <<create>>[1] = create
      BY <3>1
    <3>3. Len(<<>>) = 0
      OBVIOUS
    <3>4. CASE b.schema
      BY <1>1, <3>2, <3>4
    <3>5. CASE ~b.schema
      <4>1. Create(b) = <<>> /\ l = 0
        BY <1>1, <3>5
      <4> QED
        BY <3>2, <3>3, <3>5, <4>1
    <3> QED
      BY <3>4, <3>5
  <2> HIDE DEF S, l, ups
  <2>4. /\ plan \in Seq(S) /\ Len(plan) = l + Len(ups)
        /\ \A i \in 1..l + Len(ups) : plan[i] = IF i <= l THEN Create(b)[i] ELSE ups[i - l]
    BY <2>1, <2>2, <2>3, ConcatProperties DEF ups
  <2> HIDE DEF plan
  <2>5. Len(plan) \in Nat /\ DOMAIN plan = 1..Len(plan)
    BY <2>4, LenProperties
  <2>6. \A i \in DOMAIN plan : \/ b.schema /\ plan[i] = create
                              \/ \E j \in DOMAIN ups : plan[i] = ups[j]
    <3> TAKE i \in DOMAIN plan
    <3>1. CASE i <= l
      <4>1. i = 1 /\ l = 1
        BY <2>2, <2>3, <2>4, <2>5, <3>1
      <4> QED
        BY <2>3, <2>4, <2>5, <4>1 DEF l
    <3>2. CASE ~(i <= l)
      <4>1. i \in 1..l + Len(ups)
        BY <2>4, <2>5
      <4>2. i - l \in 1..Len(ups)
        BY <2>2, <2>3, <3>2, <4>1
      <4>3. plan[i] = ups[i - l]
        BY <2>4, <3>2, <4>1
      <4> QED
        BY <2>2, <4>2, <4>3
    <3> QED
      BY <3>1, <3>2
  <2>7. \A j \in DOMAIN ups : \E i \in DOMAIN plan : plan[i] = ups[j]
    <3> TAKE j \in DOMAIN ups
    <3>1. l + j \in 1..l + Len(ups) /\ ~(l + j <= l) /\ (l + j) - l = j
      BY <2>2, <2>3
    <3> QED
      BY <2>4, <2>5, <3>1
  <2>8. b.schema => \E i \in DOMAIN plan : plan[i] = create
    <3> SUFFICES ASSUME b.schema PROVE plan[1] = create /\ 1 \in DOMAIN plan
      OBVIOUS
    <3>1. l = 1
      BY DEF l
    <3>2. 1 \in 1..l + Len(ups) /\ 1 <= l
      BY <2>2, <3>1
    <3> QED
      BY <2>3, <2>4, <2>5, <3>2
  <2>9. \A k \in DOMAIN b.rows : \E i \in DOMAIN plan : k \in plan[i].keys
    BY <2>7, UpsertFacts DEF ups
  <2>10. \A j \in DOMAIN ups : \E k \in DOMAIN b.rows : ups[j] =
           [op |-> "upsert", table |-> b.table, keys |-> {k}, json |-> b.rows[k]]
    BY UpsertFacts DEF ups
  <2>11. \A i \in DOMAIN plan : \/ b.schema /\ plan[i] = create
           \/ \E k \in DOMAIN b.rows : plan[i] =
                [op |-> "upsert", table |-> b.table, keys |-> {k}, json |-> b.rows[k]]
    BY <2>6, <2>10
  <2>12. b.schema => \E i \in DOMAIN plan : plan[i].op = "create"
    <3>1. create.op = "create"
      OBVIOUS
    <3> HIDE DEF create
    <3> QED
      BY <2>8, <3>1
  <2> QED
    BY <1>5, <2>5, <2>9, <2>11, <2>12 DEF plan
<1> QED
  BY <1>2, <1>3, <1>4, <1>5 DEF IsBackup

(* One statement of a plan more. *)
LEMMA ReplayedFacts ==
  ASSUME NEW b, IsBackup(b), NEW i \in DOMAIN plan_restore(b), NEW pre, NEW st \in StoreType,
         Written(pre, st, b, plan_restore(b), i - 1)
  PROVE  /\ Replayed(plan_restore(b)[i], st) \in StoreType
         /\ Written(pre, Replayed(plan_restore(b)[i], st), b, plan_restore(b), i)
<1> DEFINE plan == plan_restore(b)
           p    == plan[i]
           post == Replayed(p, st)
           t    == b.table
<1>1. /\ i \in Nat \ {0} /\ i - 1 \in Nat /\ DOMAIN plan = 1..Len(plan) /\ Len(plan) \in Nat
      /\ t \in Tables
  BY PlanFacts DEF IsBackup
<1>2. \/ /\ b.kind \in {"schema", "combined"}
         /\ p = [op |-> "create", table |-> t, keys |-> {}]
      \/ /\ b.kind \in {"rows", "combined"}
         /\ \E k \in DOMAIN b.rows : p = [op |-> "upsert", table |-> t, keys |-> {k}, json |-> b.rows[k]]
      \/ b.kind = "insert-hint" /\ p = Delete(b)
  BY PlanFacts
<1> HIDE DEF plan
<1>3. \A k : (\E j \in 1..i : k \in plan[j].keys) <=> ((\E j \in 1..i - 1 : k \in plan[j].keys) \/ k \in p.keys)
  BY <1>1
<1>4. (\E j \in 1..i : plan[j].op = "create") <=> ((\E j \in 1..i - 1 : plan[j].op = "create") \/ p.op = "create")
  BY <1>1
<1>5. /\ \A u \in Tables \ {t} : st[u] = pre[u]
      /\ \A k \in Keys : st[t].rows[k] =
           IF \E j \in 1..i - 1 : k \in plan[j].keys
           THEN IF b.kind = "insert-hint" THEN NoRow ELSE Escape(b.rows[k])
           ELSE pre[t].rows[k]
      /\ st[t].exists <=> (pre[t].exists \/ \E j \in 1..i - 1 : plan[j].op = "create")
  BY DEF Written, plan
<1>6. NoRow \in Cells
  BY DEF Cells
<1> SUFFICES /\ post \in StoreType
             /\ \A u \in Tables \ {t} : post[u] = st[u]
             /\ \A k \in Keys : post[t].rows[k] =
                  IF k \in p.keys THEN IF b.kind = "insert-hint" THEN NoRow ELSE Escape(b.rows[k])
                  ELSE st[t].rows[k]
             /\ post[t].exists <=> (st[t].exists \/ p.op = "create")
  <2> HIDE DEF p, post
  <2>1. SUFFICES ASSUME /\ \A u \in Tables \ {t} : post[u] = st[u]
                        /\ \A k \in Keys : post[t].rows[k] =
                             IF k \in p.keys THEN IF b.kind = "insert-hint" THEN NoRow ELSE Escape(b.rows[k])
                             ELSE st[t].rows[k]
                        /\ post[t].exists <=> (st[t].exists \/ p.op = "create")
                 PROVE  Written(pre, post, b, plan, i)
    BY DEF post, p, plan
  <2>2. \A u \in Tables \ {t} : post[u] = pre[u]
    BY <1>5, <2>1
  <2>3. \A k \in Keys : post[t].rows[k] =
          IF \E j \in 1..i : k \in plan[j].keys
          THEN IF b.kind = "insert-hint" THEN NoRow ELSE Escape(b.rows[k])
          ELSE pre[t].rows[k]
    <3> TAKE k \in Keys
    <3>1. (\E j \in 1..i : k \in plan[j].keys) <=> ((\E j \in 1..i - 1 : k \in plan[j].keys) \/ k \in p.keys)
      BY <1>3
    <3> QED
      BY <1>5, <2>1, <3>1
  <2>4. post[t].exists <=> (pre[t].exists \/ \E j \in 1..i : plan[j].op = "create")
    BY <1>4, <1>5, <2>1
  <2> QED
    BY <2>2, <2>3, <2>4 DEF Written
<1>7. CASE p = [op |-> "create", table |-> t, keys |-> {}]
  <2>1. post = [st EXCEPT ![t].exists = TRUE]
    BY <1>7 DEF Replayed
  <2> HIDE DEF post, p
  <2> QED
    BY <1>1, <1>7, <2>1 DEF StoreType
<1>8. CASE /\ b.kind \in {"rows", "combined"}
           /\ \E k \in DOMAIN b.rows : p = [op |-> "upsert", table |-> t, keys |-> {k}, json |-> b.rows[k]]
  <2>1. PICK k \in DOMAIN b.rows : p = [op |-> "upsert", table |-> t, keys |-> {k}, json |-> b.rows[k]]
    BY <1>8
  <2>2. post = WithRows(st, t, {k}, Escape(b.rows[k]))
    BY <2>1 DEF Replayed
  <2>3. Escape(b.rows[k]) \in Cells
    BY JsonType DEF IsBackup
  <2>4. p.keys = {k} /\ p.op = "upsert"
    BY <2>1
  <2> HIDE DEF post, p
  <2> QED
    BY <1>1, <1>8, <2>2, <2>3, <2>4, WithRowsFacts
<1>9. CASE b.kind = "insert-hint" /\ p = Delete(b)
  <2>1. p.op = "delete" /\ p.keys = b.deletes /\ p.table = t
    BY <1>9 DEF Delete
  <2>2. post = WithRows(st, t, p.keys \cap Keys, NoRow)
    BY <2>1 DEF Replayed
  <2> HIDE DEF post, p
  <2> QED
    BY <1>1, <1>6, <1>9, <2>1, <2>2, WithRowsFacts
<1> QED
  BY <1>2, <1>7, <1>8, <1>9

(***************************************************************************)
(* A plan that passed the gate holds nothing the policy denies.            *)
(***************************************************************************)
LEMMA StatementOfFacts ==
  ASSUME NEW b, IsBackup(b), NEW i \in DOMAIN plan_restore(b)
  PROVE  LET p == plan_restore(b)[i]
             c == C!classify_statement(StatementOf(p))
         IN c # C!Failed =>
              /\ c.category = IF p.op = "create" THEN "ddl" ELSE "write"
              /\ c.read_tables = <<>>
              /\ \E db \in {Unset, Main} :
                   c.mutated_tables = <<[database |-> db, table |-> p.table]>>
<1> DEFINE p    == plan_restore(b)[i]
           stmt == StatementOf(p)
           c    == C!classify_statement(stmt)
           t    == [database |-> Main, table |-> p.table]
<1>1. p.op \in {"create", "upsert", "delete"} /\ p.table \in Tables
  BY PlanFacts DEF IsBackup, Delete
<1> HIDE DEF p
<1>2. C!InOrder({}) = <<>> /\ C!InOrder({t}) = <<t>> /\ C!SourceReads(<<>>) = {}
  BY SameSetToSeq, SetToSeqSmall DEF C!InOrder, C!SourceReads
<1> DEFINE Said(category, db) ==
             c = C!classification(stmt.ast, stmt.text, category, {}, <<[database |-> db, table |-> p.table]>>)
<1>3. ASSUME NEW category, NEW db, Said(category, db)
      PROVE  /\ c.category = category /\ c.read_tables = <<>>
             /\ c.mutated_tables = <<[database |-> db, table |-> p.table]>>
  <2> DEFINE names == <<[database |-> db, table |-> p.table]>>
             said  == C!classification(stmt.ast, stmt.text, category, {}, names)
  <2> HIDE DEF names, stmt
  <2>1. said.category = category
    BY ResultCategory
  <2>2. said.mutated_tables = names
    BY ResultTables
  <2>3. said.read_tables = C!InOrder({})
    BY ResultTables
  <2>4. c = said
    BY <1>3 DEF names
  <2> HIDE DEF said, c
  <2> QED
    BY <1>2, <2>1, <2>2, <2>3, <2>4 DEF names
<1>4. ASSUME p.op = "create", c # C!Failed
      PROVE  /\ c.category = "ddl" /\ c.read_tables = <<>>
             /\ c.mutated_tables = <<[database |-> Unset, table |-> p.table]>>
  <2>1. /\ stmt.text = {"parses"} /\ stmt.ast.kind = "create" /\ stmt.ast.source = <<>>
        /\ stmt.ast.names = <<[database |-> Unset, table |-> p.table]>>
    BY <1>4 DEF StatementOf, Blank
  <2> HIDE DEF stmt
  <2>2. c = C!classify_unwrapped(stmt.ast, stmt.text)
    BY <2>1 DEF C!classify_statement, C!classify_ast
  <2>3. C!classify_unwrapped(stmt.ast, stmt.text) =
          C!classification(stmt.ast, stmt.text, "ddl", C!SourceReads(stmt.ast.source), stmt.ast.names)
    <3>1. stmt.ast.kind \in C!DdlKinds
      BY <2>1 DEF C!DdlKinds
    <3>2. C!classify_unwrapped(stmt.ast, stmt.text) # C!Failed
      BY <1>4, <2>2
    <3> HIDE DEF c
    <3> QED
      BY <3>1, <3>2, UnwrappedDdl
  <2>4. C!SourceReads(stmt.ast.source) = {}
    BY <1>2, <2>1
  <2>5. Said("ddl", Unset)
    BY <2>1, <2>2, <2>3, <2>4
  <2> HIDE DEF Said, c
  <2> QED
    BY <1>3, <2>5
<1>5. ASSUME p.op = "upsert", c # C!Failed
      PROVE  /\ c.category = "write" /\ c.read_tables = <<>>
             /\ c.mutated_tables = <<[database |-> Main, table |-> p.table]>>
  <2>1. /\ stmt.text \in {{}, {"parses"}} /\ stmt.ast.kind = "insert" /\ stmt.ast.source = <<>>
        /\ stmt.ast.names = <<[database |-> Main, table |-> p.table]>>
    BY <1>5 DEF StatementOf, Blank
  <2> HIDE DEF stmt
  <2>2. c = C!classify_unwrapped(stmt.ast, stmt.text)
    <3>1. C!Unparsed({}) = C!Failed
      BY DEF C!Unparsed
    <3> QED
      BY <1>5, <2>1, <3>1 DEF C!classify_statement, C!classify_ast
  <2>3. C!classify_unwrapped(stmt.ast, stmt.text) =
          C!classification(stmt.ast, stmt.text, "write", C!SourceReads(stmt.ast.source), stmt.ast.names)
    BY <2>1, UnwrappedInsert
  <2>4. C!SourceReads(stmt.ast.source) = {}
    BY <1>2, <2>1
  <2>5. Said("write", Main)
    BY <2>1, <2>2, <2>3, <2>4
  <2> HIDE DEF Said, c
  <2> QED
    BY <1>3, <2>5
<1>6. ASSUME p.op = "delete", c # C!Failed
      PROVE  /\ c.category = "write" /\ c.read_tables = <<>>
             /\ c.mutated_tables = <<[database |-> Main, table |-> p.table]>>
  <2>1. /\ stmt.text = {"parses"} /\ stmt.ast.kind = "delete" /\ stmt.ast.exprs = <<>>
        /\ stmt.ast.names = <<>> /\ stmt.ast.from = <<[kind |-> "table", name |-> t]>>
    BY <1>6 DEF StatementOf, Blank
  <2> HIDE DEF stmt
  <2>2. c = C!classify_unwrapped(stmt.ast, stmt.text)
    BY <2>1 DEF C!classify_statement, C!classify_ast
  <2>3. FromGraph(stmt.ast.from).read = {t} /\ ExprsGraph(stmt.ast.exprs).read = {}
    BY <1>1, <2>1, WalkAssumption
  <2> DEFINE named == {u \in ToSet(stmt.ast.names) : u.table \notin FromGraph(stmt.ast.from).cte_names}
  <2>4. FromGraph(stmt.ast.from).read \cup named = {t}
    <3>1. ToSet(stmt.ast.names) = {}
      BY <2>1 DEF ToSet
    <3> QED
      BY <2>3, <3>1
  <2>5. C!classify_unwrapped(stmt.ast, stmt.text) =
          C!classification(stmt.ast, stmt.text, "write", ExprsGraph(stmt.ast.exprs).read,
                           C!InOrder(FromGraph(stmt.ast.from).read \cup named))
    BY <2>1, UnwrappedUpdate
  <2> HIDE DEF named
  <2>6. C!InOrder(FromGraph(stmt.ast.from).read \cup named) = <<t>>
    BY <1>2, <2>4
  <2>7. Said("write", Main)
    BY <2>2, <2>3, <2>5, <2>6
  <2> HIDE DEF Said, c
  <2> QED
    BY <1>3, <2>7
<1> HIDE DEF c
<1> SUFFICES ASSUME c # C!Failed
             PROVE  /\ c.category = IF p.op = "create" THEN "ddl" ELSE "write"
                    /\ c.read_tables = <<>>
                    /\ \E db \in {Unset, Main} :
                         c.mutated_tables = <<[database |-> db, table |-> p.table]>>
  BY DEF c, stmt, p
<1> QED
  BY <1>1, <1>4, <1>5, <1>6

LEMMA PlanAuthorised ==
  ASSUME NEW b, IsBackup(b), NEW conn \in Connections,
         resolve_restore_plan(conn, plan_restore(b)), NEW i \in DOMAIN plan_restore(b)
  PROVE  LET p  == plan_restore(b)[i]
             id == [database |-> Main, table |-> p.table]
         IN R!resolve_object(conn, [id |-> id, category |-> IF p.op = "create" THEN "ddl"
                                                          ELSE "write"]).action # "deny"
<1> DEFINE p  == plan_restore(b)[i]
           c  == C!classify_statement(StatementOf(p))
           id == [database |-> Main, table |-> p.table]
<1>1. c # C!Failed /\ R!resolve(conn, c, Main).action # "deny"
  BY DEF resolve_restore_plan
<1>2. PICK db \in {Unset, Main} :
        /\ c.category = IF p.op = "create" THEN "ddl" ELSE "write"
        /\ c.read_tables = <<>> /\ c.mutated_tables = <<[database |-> db, table |-> p.table]>>
  BY <1>1, StatementOfFacts
<1> HIDE DEF c, p
<1>3. Resolvable(c)
  BY <1>2 DEF Resolvable, IsList, R!Category
<1>4. Named(c.mutated_tables[1], Main) = id /\ 1 \in DOMAIN c.mutated_tables
  BY <1>2 DEF Named
<1>5. PICK j \in DOMAIN R!Objects(c, Main) :
        R!Objects(c, Main)[j] = [id |-> id, category |-> c.category]
  <2>1. IsList(c.read_tables) /\ IsList(c.mutated_tables)
    BY <1>3 DEF Resolvable
  <2>2. \A place \in DOMAIN c.mutated_tables : \E j \in DOMAIN R!Objects(c, Main) :
          R!Objects(c, Main)[j] = Object(c.mutated_tables[place], Main, c.category)
    BY <2>1, ObjectsFacts
  <2> HIDE DEF id
  <2> QED
    BY <1>4, <2>2 DEF Object
<1>6. R!resolve_object(conn, R!Objects(c, Main)[j]).action # "deny"
  BY <1>1, <1>3, ExecAssumption, ResolveFacts
<1> QED
  BY <1>2, <1>5, <1>6 DEF p

(***************************************************************************)
(* What a step leaves alone.                                               *)
(***************************************************************************)
LEMMA AppendFacts ==
  ASSUME NEW list, IsList(list), NEW x
  PROVE  /\ Len(list) \in Nat /\ DOMAIN list = 1..Len(list)
         /\ IsList(Append(list, x)) /\ DOMAIN Append(list, x) = 1..Len(list) + 1
         /\ \A i \in 1..Len(list) : Append(list, x)[i] = list[i]
         /\ Append(list, x)[Len(list) + 1] = x
<1> DEFINE S == {list[i] : i \in DOMAIN list} \cup {x}
           T == {Append(list, x)[i] : i \in DOMAIN Append(list, x)}
<1>1. list \in Seq({list[i] : i \in DOMAIN list})
  BY DEF IsList
<1>2. {list[i] : i \in DOMAIN list} \subseteq S /\ x \in S
  OBVIOUS
<1> HIDE DEF S
<1>3. list \in Seq(S) /\ Len(list) \in Nat /\ DOMAIN list = 1..Len(list)
  BY <1>1, <1>2, SeqMonotonic, LenProperties
<1>4. /\ Append(list, x) \in Seq(S) /\ DOMAIN Append(list, x) = 1..Len(list) + 1
      /\ \A i \in 1..Len(list) : Append(list, x)[i] = list[i]
      /\ Append(list, x)[Len(list) + 1] = x
  BY <1>2, <1>3, AppendProperties, LenProperties
<1>5. Append(list, x) \in Seq(T)
  <2>1. Append(list, x) = [i \in 1..Len(list) + 1 |-> Append(list, x)[i]]
    <3>1. Append(list, x) \in [1..Len(Append(list, x)) -> S]
      BY <1>4, LenProperties
    <3>2. Len(Append(list, x)) = Len(list) + 1
      BY <1>2, <1>3, AppendProperties
    <3> QED
      BY <3>1, <3>2
  <2>2. \A i \in 1..Len(list) + 1 : Append(list, x)[i] \in T
    BY <1>4
  <2> HIDE DEF T
  <2>3. Len(list) + 1 \in Nat
    BY <1>3
  <2> QED
    BY <2>1, <2>2, <2>3
<1> QED
  BY <1>3, <1>4, <1>5 DEF IsList

(* Backups are added, never changed or removed. *)
Kept ==
  /\ DOMAIN backups \subseteq DOMAIN backups'
  /\ \A i \in DOMAIN backups : backups'[i] = backups[i]

Added == backups' = backups \/ \E b : IsBackup(b) /\ backups' = Append(backups, b)

LEMMA BackupsKept ==
  ASSUME BaseInv, Added
  PROVE  /\ Kept
         /\ IsList(backups') /\ \A i \in DOMAIN backups' : IsBackup(backups'[i])
<1>1. CASE backups' = backups
  BY <1>1 DEF BaseInv, Kept
<1>2. ASSUME NEW b, IsBackup(b), backups' = Append(backups, b)
      PROVE  /\ Kept
             /\ IsList(backups') /\ \A i \in DOMAIN backups' : IsBackup(backups'[i])
  <2>1. IsList(backups) /\ \A i \in DOMAIN backups : IsBackup(backups[i])
    BY DEF BaseInv
  <2>2. /\ Len(backups) \in Nat /\ DOMAIN backups = 1..Len(backups)
        /\ IsList(backups') /\ DOMAIN backups' = 1..Len(backups) + 1
        /\ \A i \in 1..Len(backups) : backups'[i] = backups[i]
        /\ backups'[Len(backups) + 1] = b
    BY <1>2, <2>1, AppendFacts
  <2> QED
    BY <1>2, <2>1, <2>2 DEF Kept
<1> QED
  BY <1>1, <1>2 DEF Added

LEMMA BackedUpKept ==
  ASSUME Kept, NEW ast, NEW pre, NEW policy, NEW backup, BackedUp(backups, ast, pre, policy, backup)
  PROVE  BackedUp(backups', ast, pre, policy, backup)
BY DEF Kept, BackedUp

LEMMA DoneFrame ==
  ASSUME Kept, DoneInv, done' = done
  PROVE  DoneInv'
<1> SUFFICES ASSUME NEW i \in DOMAIN done
             PROVE  BackedUp(backups', done[i].ast, done[i].pre, done[i].policy, done[i].backup)
  BY DEF DoneInv
<1> QED
  BY BackedUpKept DEF DoneInv

LEMMA LastFrame ==
  ASSUME Kept, LastInv, last' = last
  PROVE  LastInv'
BY DEF Kept, LastInv

LEMMA RstFrame ==
  ASSUME Kept, RstInv, rst' = rst, cfg.revision \in Nat,
         cfg' = cfg \/ cfg'.revision = cfg.revision + 1,
         rst # Idle /\ rst.pc = "replay" => store' = store
  PROVE  RstInv'
<1> SUFFICES ASSUME rst # Idle PROVE RstInv'
  BY DEF RstInv
<1>1. /\ DOMAIN rst = RstFields
      /\ rst.pc \in {"modern", "legacy", "gate", "begin", "replay"}
      /\ rst.id \in DOMAIN backups /\ rst.plan = plan_restore(backups[rst.id])
      /\ rst.conn \in Connections /\ rst.asked = rst.conn
      /\ rst.revision \in Nat /\ rst.revision <= cfg.revision
      /\ rst.revision = cfg.revision => rst.conn = cfg.conn
      /\ rst.pc \in {"begin", "replay"} => resolve_restore_plan(rst.conn, rst.plan)
      /\ rst.pc # "replay" => rst.next = 1
      /\ rst.pc = "replay" =>
           /\ rst.next \in 1..Len(rst.plan) + 1 /\ rst.work \in StoreType
           /\ Written(store, rst.work, backups[rst.id], rst.plan, rst.next - 1)
  BY DEF RstInv
<1>2. rst.id \in DOMAIN backups' /\ backups'[rst.id] = backups[rst.id]
  BY <1>1 DEF Kept
<1>3. rst.revision <= cfg'.revision /\ (rst.revision = cfg'.revision => rst.conn = cfg'.conn)
  BY <1>1
<1>4. rst.pc = "replay" => Written(store', rst.work, backups'[rst.id], rst.plan, rst.next - 1)
  BY <1>1, <1>2
<1> QED
  BY <1>1, <1>2, <1>3, <1>4 DEF RstInv

(* What is changed by a call is changed in a transaction. *)
LEMMA CallFrame ==
  ASSUME Kept, CallInv, call' = call, lock = "call" => lock' = "call" /\ store' = store
  PROVE  CallInv'
<1> SUFFICES ASSUME call # Idle PROVE CallInv'
  BY DEF CallInv
<1>1. /\ DOMAIN call = CallFields
      /\ call.pc \in {"begin", "capture", "run", "hint", "commit"}
      /\ call.conn \in Connections /\ call.work \in StoreType /\ call.hint \in BOOLEAN
      /\ Authorised(call.ast, call.c, call.conn, call.policy)
      /\ call.pc \in {"begin", "capture"} => call.backup = 0 /\ call.hint = FALSE
      /\ call.pc = "run" /\ call.ast.kind = "insert" => call.hint = TRUE /\ call.backup = 0
      /\ call.pc = "hint" => /\ call.ast.kind = "insert" /\ call.backup = 0
                             /\ call.affected = InsertedKeys(call.ast, store)
      /\ call.hint = TRUE => call.ast.kind = "insert"
      /\ call.pc # "begin" /\ InTransaction(call.c) => lock = "call"
      /\ call.pc \in {"capture", "run"} /\ InTransaction(call.c) => call.work = store
      /\ call.pc \in {"hint", "commit"} /\ InTransaction(call.c) =>
           CanRun(call.ast, store) /\ call.work = Effect(call.ast, store)
      /\ call.pc \in {"run", "hint", "commit"} =>
           BackedUp(backups, call.ast, store, call.policy, call.backup)
  BY DEF CallInv
<1>2. call.ast.kind \in Captured \cup {"insert"} => InTransaction(call.c)
  <2>1. Captured \cup {"insert"} \subseteq Changing
    BY DEF Captured, Changing
  <2> QED
    BY <1>1, <2>1, AuthorisedFacts
<1>3. CASE call.pc = "begin"
  BY <1>1, <1>3 DEF CallInv
<1>4. CASE call.pc # "begin" /\ InTransaction(call.c)
  <2>1. lock' = "call" /\ store' = store
    BY <1>1, <1>4
  <2>2. call.pc \in {"run", "hint", "commit"} =>
          BackedUp(backups', call.ast, store, call.policy, call.backup)
    BY <1>1, BackedUpKept
  <2> QED
    BY <1>1, <2>1, <2>2 DEF CallInv
<1>5. CASE call.pc # "begin" /\ ~InTransaction(call.c)
  <2>1. call.ast.kind \notin Captured \cup {"insert"}
    BY <1>2, <1>5
  <2>2. call.pc # "hint"
    BY <1>1, <2>1
  <2>3. BackedUp(backups', call.ast, store', call.policy, call.backup)
    BY <2>1 DEF BackedUp
  <2> QED
    BY <1>1, <1>5, <2>2, <2>3 DEF CallInv
<1> QED
  BY <1>3, <1>4, <1>5

(* A step of the call, before it commits. *)
LEMMA CallStep ==
  ASSUME IInv, Added, UNCHANGED <<cfg, store, done, rst, last>>, CallInv', LockInv'
  PROVE  IInv'
<1>1. BaseInv /\ DoneInv /\ RstInv /\ LastInv
  BY DEF IInv
<1>2. Kept /\ IsList(backups') /\ \A i \in DOMAIN backups' : IsBackup(backups'[i])
  BY <1>1, BackupsKept
<1>3. BaseInv'
  BY <1>1, <1>2 DEF BaseInv
<1>4. cfg.revision \in Nat
  BY <1>1 DEF BaseInv
<1> QED
  BY <1>1, <1>2, <1>3, <1>4, DoneFrame, LastFrame, RstFrame DEF IInv

(* A step of the restore. *)
LEMMA RestoreStep ==
  ASSUME IInv, UNCHANGED <<cfg, backups, call, done>>, store' \in StoreType,
         lock = "call" => lock' = "call" /\ store' = store, RstInv', LastInv', LockInv'
  PROVE  IInv'
<1>1. BaseInv /\ DoneInv /\ CallInv
  BY DEF IInv
<1>2. Kept
  BY DEF Kept
<1>3. BaseInv'
  BY <1>1 DEF BaseInv
<1> QED
  BY <1>1, <1>2, <1>3, DoneFrame, CallFrame DEF IInv

-----------------------------------------------------------------------------
(***************************************************************************)
(* The initial states and the steps of a call.                             *)
(***************************************************************************)
LEMMA InitIInv == Init => IInv
<1> SUFFICES ASSUME Init PROVE IInv
  OBVIOUS
<1>1. cfg \in [revision : Nat, conn : Connections]
  BY DEF Init, ExecInit
<1>2. store \in StoreType
  <2> DEFINE v == CHOOSE v \in PlainValues : TRUE
  <2>1. v \in PlainValues
    BY ExecAssumption
  <2>2. store = [t \in Tables |-> [exists |-> TRUE, rows |-> [k \in Keys |-> IF k <= 2 THEN v ELSE NoRow]]]
    BY DEF Init, ExecInit
  <2> HIDE DEF v
  <2>3. v \in Cells /\ NoRow \in Cells
    BY <2>1 DEF Cells, Values
  <2>4. [k \in Keys |-> IF k <= 2 THEN v ELSE NoRow] \in [Keys -> Cells]
    BY <2>3
  <2> QED
    BY <2>2, <2>4 DEF StoreType
<1>3. backups = <<>> /\ done = <<>> /\ call = Idle /\ rst = Idle /\ last = Idle /\ lock = "free"
  BY DEF Init, ExecInit
<1>4. IsList(<<>>) /\ DOMAIN <<>> = {}
  BY DEF IsList
<1> QED
  BY <1>1, <1>2, <1>3, <1>4 DEF IInv, BaseInv, CallInv, LockInv, DoneInv, RstInv, LastInv

LEMMA SubmitIInv ==
  ASSUME IInv, NEW stmt \in Statements, Submit(stmt), UNCHANGED <<rst, last, restores>>
  PROVE  IInv'
<1> DEFINE c == C!classify_statement(stmt)
           r == R!resolve(cfg.conn, c, Unset)
<1>1. /\ call = Idle /\ c # C!Failed /\ r.action # "deny"
      /\ call' = [pc |-> "begin", ast |-> stmt.ast, c |-> c, conn |-> cfg.conn,
                  policy |-> r.effective, work |-> store, backup |-> 0,
                  hint |-> FALSE, affected |-> {}]
      /\ UNCHANGED <<cfg, store, lock, backups, done>>
  BY DEF Submit
<1>2. /\ call'.pc = "begin" /\ call'.ast = stmt.ast /\ call'.c = c /\ call'.conn = cfg.conn
      /\ call'.policy = r.effective /\ call'.work = store /\ call'.backup = 0
      /\ call'.hint = FALSE /\ DOMAIN call' = CallFields
  BY <1>1 DEF CallFields
<1>3. Authorised(stmt.ast, c, cfg.conn, r.effective)
  BY <1>1 DEF Authorised
<1>4. cfg.conn \in Connections /\ store \in StoreType
  BY DEF IInv, BaseInv
<1>5. CallInv'
  <2>1. Authorised(call'.ast, call'.c, call'.conn, call'.policy)
    BY <1>2, <1>3
  <2> HIDE DEF c, r
  <2> QED
    BY <1>2, <1>4, <2>1 DEF CallInv
<1>6. LockInv'
  BY <1>1 DEF IInv, LockInv
<1> QED
  BY <1>1, <1>5, <1>6, CallStep DEF Added

(* A call that gives up leaves nothing behind but its backup. *)
LEMMA RollbackIInv ==
  ASSUME IInv, call # Idle, call.pc # "begin", Rollback, UNCHANGED <<rst, last, restores>>
  PROVE  IInv'
<1>1. /\ call' = Idle /\ UNCHANGED <<cfg, store, backups, done>>
      /\ lock' = IF InTransaction(call.c) THEN "free" ELSE lock
  BY DEF Rollback
<1>2. InTransaction(call.c) => lock = "call"
  BY DEF IInv, CallInv
<1>3. lock' # "call" /\ (lock' = "restore" <=> lock = "restore")
  BY <1>1, <1>2 DEF IInv, LockInv
<1>4. LockInv'
  BY <1>1, <1>3 DEF IInv, LockInv
<1>5. CallInv'
  BY <1>1 DEF CallInv
<1> QED
  BY <1>1, <1>4, <1>5, CallStep DEF Added

LEMMA BeginIInv ==
  ASSUME IInv, Begin, UNCHANGED <<rst, last, restores>>
  PROVE  IInv'
<1>1. call # Idle /\ call.pc = "begin" /\ UNCHANGED <<cfg, store, backups, done>>
  BY DEF Begin, Idle
<1>2. DOMAIN call = CallFields /\ call.conn \in Connections /\ store \in StoreType
        /\ Authorised(call.ast, call.c, call.conn, call.policy)
        /\ call.backup = 0 /\ call.hint = FALSE
  BY <1>1 DEF IInv, BaseInv, CallInv
<1>3. lock # "call" /\ (lock = "restore" <=> (rst # Idle /\ rst.pc = "replay"))
  BY <1>1 DEF IInv, LockInv
<1>4. CASE /\ call' = [call EXCEPT !.pc = "capture", !.work = store]
           /\ InTransaction(call.c) => lock = "free" /\ lock' = "call"
           /\ ~InTransaction(call.c) => lock' = lock
  <2>1. /\ DOMAIN call' = CallFields /\ call'.pc = "capture" /\ call'.work = store
        /\ call'.conn = call.conn /\ call'.ast = call.ast /\ call'.c = call.c
        /\ call'.policy = call.policy /\ call'.backup = 0 /\ call'.hint = FALSE
    BY <1>2, <1>4 DEF CallFields
  <2>2. CallInv'
    BY <1>1, <1>2, <1>4, <2>1 DEF CallInv
  <2>3. call' # Idle
    BY <2>1 DEF Idle
  <2>4. LockInv'
    <3>1. rst' = rst
      OBVIOUS
    <3>2. CASE InTransaction(call.c)
      <4>1. InTransaction(call'.c) /\ lock' = "call" /\ lock = "free"
        BY <1>4, <2>1, <3>2
      <4> QED
        BY <1>3, <2>1, <2>3, <3>1, <4>1 DEF LockInv
    <3>3. CASE ~InTransaction(call.c)
      <4>1. lock' = lock
        BY <1>4, <3>3
      <4> QED
        BY <1>3, <2>1, <2>3, <3>1, <4>1 DEF LockInv
    <3> QED
      BY <3>2, <3>3
  <2> QED
    BY <1>1, <2>2, <2>4, CallStep DEF Added
<1>5. CASE call' = Idle /\ lock' = lock
  <2>1. CallInv' /\ LockInv'
    BY <1>3, <1>5 DEF CallInv, LockInv
  <2> QED
    BY <1>1, <1>5, <2>1, CallStep DEF Added
<1>6. \/ ~InTransaction(call.c) /\ lock' = lock /\ call' = [call EXCEPT !.pc = "capture", !.work = store]
      \/ /\ InTransaction(call.c) /\ lock = "free" /\ lock' = "call"
         /\ call' = [call EXCEPT !.pc = "capture", !.work = store]
      \/ call' = Idle /\ lock' = lock
  BY DEF Begin
<1>7. CASE InTransaction(call.c)
  BY <1>4, <1>5, <1>6, <1>7
<1>8. CASE ~InTransaction(call.c)
  BY <1>4, <1>5, <1>6, <1>8
<1> QED
  BY <1>7, <1>8

LEMMA CaptureIInv ==
  ASSUME IInv, Capture, UNCHANGED <<rst, last, restores>>
  PROVE  IInv'
<1> DEFINE required == E!is_backup_required(call.c.ast_type)
           taken    == E!extract_backup_spec(call.ast, Keys)
           spec     == IF required THEN taken ELSE E!NoSpec
<1>1. call # Idle /\ call.pc = "capture"
  BY DEF Capture, Idle
<1>2. /\ DOMAIN call = CallFields /\ call.conn \in Connections /\ call.work \in StoreType
      /\ Authorised(call.ast, call.c, call.conn, call.policy)
      /\ call.backup = 0 /\ call.hint = FALSE
      /\ InTransaction(call.c) => lock = "call" /\ call.work = store
  BY <1>1 DEF IInv, CallInv
<1>3. /\ Limited(call.policy)
      /\ call.ast.kind \in Changing => call.c.ast_type = call.ast.kind /\ InTransaction(call.c)
  BY <1>2, AuthorisedFacts
<1>4. PICK s \in Statements : call.ast = s.ast
  BY <1>2, AuthorisedFacts
<1>5. call.ast.kind \in Captured \cup {"insert"} => spec = taken /\ InTransaction(call.c)
  BY <1>3 DEF Captured, Changing, E!is_backup_required
<1>6. /\ call.ast.kind \in Captured => taken.kind \in {"rows", "combined"}
      /\ call.ast.kind = "insert" => taken.kind = "insert-hint"
      /\ call.ast.kind # "insert" => taken.kind # "insert-hint"
  BY <1>4, ExtractFacts DEF Captured, IsTarget
<1>7. spec.kind # "none" => spec = taken
  BY DEF E!NoSpec
<1>8. LockInv
  BY DEF IInv
<1>9. CASE /\ spec.kind \in {"none", "insert-hint"}
           /\ call' = [call EXCEPT !.pc = "run", !.hint = spec.kind = "insert-hint"]
           /\ UNCHANGED <<cfg, store, lock, backups, done>>
  <2> HIDE DEF spec, taken
  <2>1. /\ DOMAIN call' = CallFields /\ call'.pc = "run" /\ call'.work = call.work
        /\ call'.conn = call.conn /\ call'.ast = call.ast /\ call'.c = call.c
        /\ call'.policy = call.policy /\ call'.backup = 0
        /\ call'.hint = (spec.kind = "insert-hint")
    BY <1>2, <1>9 DEF CallFields
  <2>2. call'.hint \in BOOLEAN /\ (call'.hint = TRUE <=> call.ast.kind = "insert")
    BY <1>5, <1>6, <1>7, <2>1
  <2>3. call.ast.kind \notin Captured
    BY <1>5, <1>6, <1>9
  <2>4. BackedUp(backups, call.ast, store, call.policy, 0)
    BY <2>3 DEF BackedUp
  <2>5. CallInv'
    BY <1>2, <1>9, <2>1, <2>2, <2>4 DEF CallInv
  <2>6. LockInv'
    BY <1>1, <1>8, <1>9, <2>1 DEF LockInv, Idle
  <2> QED
    BY <1>9, <2>5, <2>6, CallStep DEF Added
<1>10. CASE /\ spec.kind \in {"rows", "combined", "schema"}
            /\ ~Refused(spec, call.work, call.policy)
            /\ backups' = Append(backups, BackupRow(spec, call.work, call.policy))
            /\ call' = [call EXCEPT !.pc = "run", !.backup = Len(backups) + 1]
            /\ UNCHANGED <<cfg, store, lock, done>>
  <2> DEFINE b == BackupRow(spec, call.work, call.policy)
             n == Len(backups) + 1
  <2>1. spec = taken
    BY <1>7, <1>10
  <2>2. IsBackup(b) /\ (call.policy.overflow = "abort" => ~b.truncated)
    <3>1. taken = E!extract_backup_spec(s.ast, Keys)
      BY <1>4
    <3>2. taken.kind \in {"rows", "combined", "schema"} /\ ~Refused(taken, call.work, call.policy)
      BY <1>10, <2>1
    <3> HIDE DEF taken, spec
    <3>3. /\ IsBackup(BackupRow(taken, call.work, call.policy))
          /\ call.policy.overflow = "abort" => ~BackupRow(taken, call.work, call.policy).truncated
      BY <1>2, <1>3, <3>1, <3>2, BackupRowFacts
    <3> QED
      BY <2>1, <3>3
  <2> HIDE DEF spec, taken, b
  <2>3. n \in DOMAIN backups' /\ backups'[n] = b /\ n # 0
    BY <1>10, AppendFacts DEF IInv, BaseInv, b
  <2> HIDE DEF n
  <2>4. /\ DOMAIN call' = CallFields /\ call'.pc = "run" /\ call'.work = call.work
        /\ call'.conn = call.conn /\ call'.ast = call.ast /\ call'.c = call.c
        /\ call'.policy = call.policy /\ call'.backup = n /\ call'.hint = FALSE
    BY <1>2, <1>10 DEF CallFields, n
  <2>5. call.ast.kind # "insert"
    BY <1>6, <1>10, <2>1
  <2>6. call.ast.kind \in Captured => b = RowFor(call.ast, store, call.policy)
    BY <1>2, <1>5, <2>1, <2>5 DEF b, RowFor, taken
  <2>7. BackedUp(backups', call.ast, store, call.policy, n)
    BY <2>2, <2>3, <2>5, <2>6 DEF BackedUp
  <2>8. CallInv'
    <3>1. store' = store /\ lock' = lock
      BY <1>10
    <3>2. call'.hint \in BOOLEAN /\ call'.hint # TRUE
      BY <2>4
    <3>3. BackedUp(backups', call'.ast, store', call'.policy, call'.backup)
      BY <2>4, <2>7, <3>1
    <3>4. Authorised(call'.ast, call'.c, call'.conn, call'.policy)
      BY <1>2, <2>4
    <3>5. /\ call'.conn \in Connections /\ call'.work \in StoreType /\ call'.ast.kind # "insert"
          /\ InTransaction(call'.c) => lock' = "call" /\ call'.work = store'
      BY <1>2, <2>4, <2>5, <3>1
    <3> QED
      BY <2>4, <3>2, <3>3, <3>4, <3>5 DEF CallInv
  <2>9. LockInv'
    BY <1>1, <1>8, <1>10, <2>4 DEF LockInv, Idle
  <2>10. Added
    BY <1>10, <2>2 DEF Added, b
  <2> QED
    BY <1>10, <2>8, <2>9, <2>10, CallStep
<1>11. CASE Rollback
  BY <1>1, <1>11, RollbackIInv
<1> QED
  BY <1>9, <1>10, <1>11 DEF Capture

LEMMA RunIInv ==
  ASSUME IInv, Run, UNCHANGED <<rst, last, restores>>
  PROVE  IInv'
<1>1. call # Idle /\ call.pc = "run"
  BY DEF Run, Idle
<1>2. /\ DOMAIN call = CallFields /\ call.conn \in Connections /\ call.work \in StoreType
      /\ Authorised(call.ast, call.c, call.conn, call.policy) /\ call.hint \in BOOLEAN
      /\ call.ast.kind = "insert" => call.backup = 0
      /\ call.hint = TRUE => call.ast.kind = "insert"
      /\ InTransaction(call.c) => lock = "call" /\ call.work = store
      /\ BackedUp(backups, call.ast, store, call.policy, call.backup)
  BY <1>1 DEF IInv, CallInv
<1>3. call.ast.kind = "insert" => InTransaction(call.c)
  BY <1>2, AuthorisedFacts DEF Changing
<1>4. PICK s \in Statements : call.ast = s.ast
  BY <1>2, AuthorisedFacts
<1>5. CASE /\ CanRun(call.ast, call.work)
           /\ call' = [call EXCEPT !.pc = IF call.hint THEN "hint" ELSE "commit",
                         !.work = Effect(call.ast, call.work),
                         !.affected = IF call.hint THEN InsertedKeys(call.ast, call.work) ELSE {}]
           /\ UNCHANGED <<cfg, store, lock, backups, done>>
  <2> DEFINE pc   == IF call.hint THEN "hint" ELSE "commit"
             post == Effect(call.ast, call.work)
             affected == IF call.hint THEN InsertedKeys(call.ast, call.work) ELSE {}
  <2>1. post \in StoreType
    BY <1>2, <1>4, EffectType
  <2>2. pc \in {"hint", "commit"} /\ (pc = "hint" =>
          call.ast.kind = "insert" /\ call.backup = 0 /\ affected = InsertedKeys(call.ast, store))
    BY <1>2, <1>3
  <2>3. InTransaction(call.c) => CanRun(call.ast, store) /\ post = Effect(call.ast, store)
    BY <1>2, <1>5
  <2> HIDE DEF pc, post, affected
  <2>4. /\ DOMAIN call' = CallFields /\ call'.pc = pc /\ call'.work = post
        /\ call'.affected = affected
        /\ call'.conn = call.conn /\ call'.ast = call.ast /\ call'.c = call.c
        /\ call'.policy = call.policy /\ call'.backup = call.backup /\ call'.hint = call.hint
    BY <1>2, <1>5 DEF CallFields, pc, post, affected
  <2>5. CallInv'
    BY <1>2, <1>5, <2>1, <2>2, <2>3, <2>4 DEF CallInv
  <2>6. LockInv'
    BY <1>1, <1>5, <2>2, <2>4 DEF IInv, LockInv, Idle
  <2> QED
    BY <1>5, <2>5, <2>6, CallStep DEF Added
<1>6. CASE Rollback
  BY <1>1, <1>6, RollbackIInv
<1> QED
  BY <1>5, <1>6 DEF Run

LEMMA HintIInv ==
  ASSUME IInv, Hint, UNCHANGED <<rst, last, restores>>
  PROVE  IInv'
<1>1. call # Idle /\ call.pc = "hint" /\ UNCHANGED <<cfg, store, lock, done>>
  BY DEF Hint, Idle
<1>2. /\ DOMAIN call = CallFields /\ call.conn \in Connections /\ call.work \in StoreType
      /\ Authorised(call.ast, call.c, call.conn, call.policy) /\ call.hint \in BOOLEAN
      /\ call.ast.kind = "insert" /\ call.backup = 0
      /\ call.affected = InsertedKeys(call.ast, store)
      /\ InTransaction(call.c) =>
           lock = "call" /\ CanRun(call.ast, store) /\ call.work = Effect(call.ast, store)
  BY <1>1 DEF IInv, CallInv
<1>3. PICK s \in Statements : call.ast = s.ast
  BY <1>2, AuthorisedFacts
<1>4. ASSUME NEW n, call' = [call EXCEPT !.pc = "commit", !.backup = n],
             BackedUp(backups', call.ast, store, call.policy, n), Added
      PROVE  IInv'
  <2>1. /\ DOMAIN call' = CallFields /\ call'.pc = "commit" /\ call'.work = call.work
        /\ call'.conn = call.conn /\ call'.ast = call.ast /\ call'.c = call.c
        /\ call'.policy = call.policy /\ call'.backup = n /\ call'.hint = call.hint
    BY <1>2, <1>4 DEF CallFields
  <2>2. CallInv'
    <3>1. BackedUp(backups', call'.ast, store', call'.policy, call'.backup)
      BY <1>1, <1>4, <2>1
    <3> QED
      BY <1>1, <1>2, <2>1, <3>1 DEF CallInv
  <2>3. LockInv'
    BY <1>1, <2>1 DEF IInv, LockInv, Idle
  <2> QED
    BY <1>1, <1>4, <2>2, <2>3, CallStep
<1>5. CASE /\ backups' = Append(backups, HintRow(call.ast, call.affected))
           /\ call' = [call EXCEPT !.pc = "commit", !.backup = Len(backups) + 1]
  <2> DEFINE b == HintRow(call.ast, call.affected)
             n == Len(backups) + 1
  <2>1. IsBackup(b) /\ b = RowFor(call.ast, store, call.policy)
    BY <1>2, <1>3, HintRowFacts DEF RowFor
  <2> HIDE DEF b
  <2>2. n \in DOMAIN backups' /\ backups'[n] = b
    BY <1>5, AppendFacts DEF IInv, BaseInv, b
  <2> HIDE DEF n
  <2>3. BackedUp(backups', call.ast, store, call.policy, n)
    BY <1>2, <2>1, <2>2 DEF BackedUp, Captured
  <2>4. Added
    BY <1>5, <2>1 DEF Added, b
  <2>5. call' = [call EXCEPT !.pc = "commit", !.backup = n]
    BY <1>5 DEF n
  <2> QED
    BY <1>4, <2>3, <2>4, <2>5
<1>6. CASE call' = [call EXCEPT !.pc = "commit"] /\ backups' = backups
  <2>1. call' = [call EXCEPT !.pc = "commit", !.backup = 0]
    BY <1>2, <1>6 DEF CallFields
  <2>2. BackedUp(backups', call.ast, store, call.policy, 0)
    BY <1>2 DEF BackedUp, Captured
  <2>3. Added
    BY <1>6 DEF Added
  <2> QED
    BY <1>4, <2>1, <2>2, <2>3
<1> QED
  BY <1>5, <1>6 DEF Hint

LEMMA CommitIInv ==
  ASSUME IInv, Commit, UNCHANGED <<rst, last, restores>>
  PROVE  IInv'
<1>1. call # Idle /\ call.pc = "commit"
  BY DEF Commit, Idle
<1>2. /\ call.conn \in Connections /\ call.work \in StoreType
      /\ Authorised(call.ast, call.c, call.conn, call.policy)
      /\ InTransaction(call.c) =>
           lock = "call" /\ CanRun(call.ast, store) /\ call.work = Effect(call.ast, store)
      /\ BackedUp(backups, call.ast, store, call.policy, call.backup)
  BY <1>1 DEF IInv, CallInv
<1>3. BaseInv /\ DoneInv /\ RstInv /\ LastInv /\ LockInv
  BY DEF IInv
<1>4. CASE /\ InTransaction(call.c)
           /\ store' = call.work /\ lock' = "free"
           /\ done' = Append(done, [ast |-> call.ast, pre |-> store, post |-> call.work,
                                    policy |-> call.policy, backup |-> call.backup])
           /\ call' = Idle /\ UNCHANGED <<cfg, backups, events>>
  <2> DEFINE d == [ast |-> call.ast, pre |-> store, post |-> call.work,
                   policy |-> call.policy, backup |-> call.backup]
  <2>1. /\ d.ast = call.ast /\ d.pre = store /\ d.post = call.work /\ d.policy = call.policy
        /\ d.backup = call.backup
    OBVIOUS
  <2> HIDE DEF d
  <2>2. done' = Append(done, d) /\ IsList(done)
    BY <1>3, <1>4 DEF d, BaseInv
  <2>3. /\ Len(done) \in Nat /\ DOMAIN done = 1..Len(done)
        /\ IsList(done') /\ DOMAIN done' = 1..Len(done) + 1
        /\ \A i \in 1..Len(done) : done'[i] = done[i]
        /\ done'[Len(done) + 1] = d
    BY <2>2, AppendFacts
  <2>4. BaseInv'
    BY <1>2, <1>3, <1>4, <2>3 DEF BaseInv
  <2>5. /\ \E s \in Statements : d.ast = s.ast
        /\ d.pre \in StoreType /\ Limited(d.policy)
        /\ CanRun(d.ast, d.pre) /\ d.post = Effect(d.ast, d.pre)
        /\ BackedUp(backups, d.ast, d.pre, d.policy, d.backup)
    BY <1>2, <1>3, <1>4, <2>1, AuthorisedFacts DEF BaseInv
  <2>6. DoneInv'
    <3> SUFFICES ASSUME NEW i \in DOMAIN done'
                 PROVE  /\ \E s \in Statements : done'[i].ast = s.ast
                        /\ done'[i].pre \in StoreType /\ Limited(done'[i].policy)
                        /\ CanRun(done'[i].ast, done'[i].pre)
                        /\ done'[i].post = Effect(done'[i].ast, done'[i].pre)
                        /\ BackedUp(backups', done'[i].ast, done'[i].pre, done'[i].policy, done'[i].backup)
      BY DEF DoneInv
    <3>1. CASE i = Len(done) + 1
      BY <1>4, <2>3, <2>5, <3>1
    <3>2. CASE i \in 1..Len(done)
      BY <1>3, <1>4, <2>3, <3>2 DEF DoneInv
    <3> QED
      BY <2>3, <3>1, <3>2
  <2>7. Kept /\ cfg.revision \in Nat
    BY <1>3, <1>4 DEF Kept, BaseInv
  <2>8. ~(rst # Idle /\ rst.pc = "replay") /\ lock' # "call" /\ lock' # "restore"
    BY <1>2, <1>3, <1>4 DEF LockInv
  <2>9. RstInv'
    BY <1>3, <1>4, <2>7, <2>8, RstFrame
  <2>10. CallInv' /\ LockInv'
    BY <1>4, <2>8 DEF CallInv, LockInv
  <2> QED
    BY <1>3, <2>4, <2>6, <2>7, <2>9, <2>10, LastFrame DEF IInv
<1>5. CASE /\ ~InTransaction(call.c)
           /\ UNCHANGED <<store, lock, done>>
           /\ call' = Idle /\ UNCHANGED <<cfg, backups, events>>
  <2>1. CallInv' /\ LockInv'
    BY <1>3, <1>5 DEF CallInv, LockInv
  <2> QED
    BY <1>5, <2>1, CallStep DEF Added
<1>6. CASE Rollback
  BY <1>1, <1>6, RollbackIInv
<1>7. \/ /\ InTransaction(call.c)
         /\ store' = call.work /\ lock' = "free"
         /\ done' = Append(done, [ast |-> call.ast, pre |-> store, post |-> call.work,
                                  policy |-> call.policy, backup |-> call.backup])
         /\ call' = Idle /\ UNCHANGED <<cfg, backups, events>>
      \/ /\ ~InTransaction(call.c) /\ UNCHANGED <<store, lock, done>>
         /\ call' = Idle /\ UNCHANGED <<cfg, backups, events>>
      \/ Rollback
  BY DEF Commit
<1> QED
  BY <1>4, <1>5, <1>6, <1>7

(***************************************************************************)
(* The steps around it.                                                    *)
(***************************************************************************)
LEMMA EditIInv ==
  ASSUME IInv, NEW conn \in Connections, Edit(conn), UNCHANGED <<rst, last, restores>>
  PROVE  IInv'
<1>1. /\ cfg' = [revision |-> cfg.revision + 1, conn |-> conn]
      /\ UNCHANGED <<store, lock, backups, call, done>>
  BY DEF Edit
<1>2. Kept
  BY <1>1 DEF Kept
<1>3. cfg.revision \in Nat /\ cfg'.revision = cfg.revision + 1
  BY <1>1 DEF IInv, BaseInv
<1>4. BaseInv'
  BY <1>1, <1>3 DEF IInv, BaseInv
<1>5. LockInv'
  BY <1>1 DEF IInv, LockInv
<1> QED
  BY <1>1, <1>2, <1>3, <1>4, <1>5, DoneFrame, LastFrame, CallFrame, RstFrame DEF IInv

LEMMA OtherWriteIInv ==
  ASSUME IInv, NEW t \in Tables, NEW k \in Keys, NEW v \in PlainValues, OtherWrite(t, k, v),
         UNCHANGED <<rst, last, restores>>
  PROVE  IInv'
<1>1. /\ lock = "free" /\ store' = WithRows(store, t, {k}, v)
      /\ UNCHANGED <<cfg, lock, backups, call, done>>
  BY DEF OtherWrite
<1>2. Kept
  BY <1>1 DEF Kept
<1>3. store' \in StoreType
  <2>1. v \in Cells /\ store \in StoreType
    BY DEF Cells, Values, IInv, BaseInv
  <2> QED
    BY <1>1, <2>1, WithRowsFacts
<1>4. BaseInv' /\ cfg.revision \in Nat
  BY <1>1, <1>3 DEF IInv, BaseInv
<1>5. LockInv' /\ ~(rst # Idle /\ rst.pc = "replay")
  BY <1>1 DEF IInv, LockInv
<1> QED
  BY <1>1, <1>2, <1>4, <1>5, DoneFrame, LastFrame, CallFrame, RstFrame DEF IInv

LEMMA ExecIInv ==
  ASSUME IInv, ExecNext, UNCHANGED <<rst, last, restores>>
  PROVE  IInv'
BY SubmitIInv, BeginIInv, CaptureIInv, RunIInv, HintIInv, CommitIInv, EditIInv, OtherWriteIInv
DEF ExecNext

(***************************************************************************)
(* The steps of a restore.                                                 *)
(***************************************************************************)
LEMMA AskIInv ==
  ASSUME IInv, NEW id \in DOMAIN backups, NEW era \in {"modern", "legacy"}, Ask(id, era)
  PROVE  IInv'
<1>1. /\ rst = Idle /\ UNCHANGED <<cfg, store, lock, backups, call, done, last>>
      /\ rst' = [pc |-> era, id |-> id, revision |-> cfg.revision, conn |-> cfg.conn,
                 asked |-> cfg.conn, plan |-> plan_restore(backups[id]), work |-> store, next |-> 1]
  BY DEF Ask, execVars
<1>2. cfg.revision \in Nat /\ cfg.conn \in Connections /\ store \in StoreType
  BY DEF IInv, BaseInv
<1>3. /\ DOMAIN rst' = RstFields /\ rst'.pc = era /\ rst'.id = id /\ rst'.revision = cfg.revision
      /\ rst'.conn = cfg.conn /\ rst'.asked = cfg.conn /\ rst'.plan = plan_restore(backups[id])
      /\ rst'.next = 1
  BY <1>1 DEF RstFields
<1>4. RstInv'
  BY <1>1, <1>2, <1>3 DEF RstInv
<1>5. LockInv'
  BY <1>1, <1>3 DEF IInv, LockInv
<1>6. LastInv'
  BY <1>1 DEF IInv, LastInv
<1> QED
  BY <1>1, <1>2, <1>4, <1>5, <1>6, RestoreStep

(* A restore that gives up, before its transaction. *)
LEMMA DropIInv ==
  ASSUME IInv, rst # Idle, rst.pc # "replay", rst' = Idle, UNCHANGED <<execVars, last>>
  PROVE  IInv'
<1>1. UNCHANGED <<cfg, store, lock, backups, call, done, last>>
  BY DEF execVars
<1>2. RstInv' /\ LastInv' /\ LockInv' /\ store \in StoreType
  BY <1>1 DEF IInv, RstInv, LastInv, LockInv, BaseInv
<1> QED
  BY <1>1, <1>2, RestoreStep

(* What holds of a restore until its transaction begins. *)
LEMMA RstFacts ==
  ASSUME IInv, rst # Idle
  PROVE  /\ DOMAIN rst = RstFields
         /\ rst.id \in DOMAIN backups /\ rst.plan = plan_restore(backups[rst.id])
         /\ rst.conn \in Connections /\ rst.asked = rst.conn
         /\ rst.revision \in Nat /\ rst.revision <= cfg.revision
         /\ rst.revision = cfg.revision => rst.conn = cfg.conn
         /\ rst.pc # "replay" => rst.next = 1
         /\ IsBackup(backups[rst.id])
         /\ Len(rst.plan) \in Nat /\ DOMAIN rst.plan = 1..Len(rst.plan)
<1>1. /\ DOMAIN rst = RstFields
      /\ rst.id \in DOMAIN backups /\ rst.plan = plan_restore(backups[rst.id])
      /\ rst.conn \in Connections /\ rst.asked = rst.conn
      /\ rst.revision \in Nat /\ rst.revision <= cfg.revision
      /\ rst.revision = cfg.revision => rst.conn = cfg.conn
      /\ rst.pc # "replay" => rst.next = 1
  BY DEF IInv, RstInv
<1>2. IsBackup(backups[rst.id])
  BY <1>1 DEF IInv, BaseInv
<1> QED
  BY <1>1, <1>2, PlanFacts

(* A restore that is approved goes on under the configuration it was asked *)
(* under.                                                                  *)
LEMMA ApprovedIInv ==
  ASSUME IInv, rst # Idle, rst.pc \in {"modern", "legacy"}, UNCHANGED <<execVars, last>>,
         Approved(rst.conn, rst.plan)
  PROVE  IInv'
<1>1. UNCHANGED <<cfg, store, lock, backups, call, done, last>>
  BY DEF execVars
<1>2. rst' = [rst EXCEPT !.pc = "gate", !.conn = rst.conn, !.plan = rst.plan]
  BY DEF Approved
<1>3. /\ DOMAIN rst' = RstFields /\ rst'.pc = "gate" /\ rst'.id = rst.id
      /\ rst'.revision = rst.revision /\ rst'.conn = rst.conn /\ rst'.asked = rst.asked
      /\ rst'.plan = rst.plan /\ rst'.next = rst.next
  BY <1>2, RstFacts DEF RstFields
<1>4. RstInv'
  BY <1>1, <1>3, RstFacts DEF RstInv
<1>5. LockInv' /\ LastInv' /\ store \in StoreType
  BY <1>1, <1>3 DEF IInv, LockInv, LastInv, BaseInv
<1> QED
  BY <1>1, <1>4, <1>5, RestoreStep

LEMMA RetryIInv ==
  ASSUME IInv, Retry
  PROVE  IInv'
<1>1. rst # Idle /\ rst.pc = "modern" /\ UNCHANGED <<execVars, last>>
  BY DEF Retry, Idle
<1>2. CASE Bound(cfg.revision) /\ Approved(cfg.conn, plan_restore(backups[rst.id]))
  <2>1. cfg.conn = rst.conn /\ plan_restore(backups[rst.id]) = rst.plan
    BY <1>1, <1>2, RstFacts DEF Bound
  <2> QED
    BY <1>1, <1>2, <2>1, ApprovedIInv
<1>3. CASE rst' = Idle
  BY <1>1, <1>3, DropIInv
<1> QED
  BY <1>2, <1>3 DEF Retry

LEMMA AnswerIInv ==
  ASSUME IInv, Answer
  PROVE  IInv'
<1>1. rst # Idle /\ rst.pc = "legacy" /\ UNCHANGED <<execVars, last>>
  BY DEF Answer, Idle
<1> QED
  BY <1>1, ApprovedIInv, DropIInv DEF Answer

LEMMA GateIInv ==
  ASSUME IInv, Gate
  PROVE  IInv'
<1>1. rst # Idle /\ rst.pc = "gate" /\ UNCHANGED <<execVars, last>>
  BY DEF Gate, Idle
<1>2. UNCHANGED <<cfg, store, lock, backups, call, done, last>>
  BY <1>1 DEF execVars
<1>3. CASE resolve_restore_plan(rst.conn, rst.plan) /\ rst' = [rst EXCEPT !.pc = "begin"]
  <2>1. /\ DOMAIN rst' = RstFields /\ rst'.pc = "begin" /\ rst'.id = rst.id
        /\ rst'.revision = rst.revision /\ rst'.conn = rst.conn /\ rst'.asked = rst.asked
        /\ rst'.plan = rst.plan /\ rst'.next = rst.next
    BY <1>1, <1>3, RstFacts DEF RstFields
  <2>2. resolve_restore_plan(rst'.conn, rst'.plan)
    BY <1>3, <2>1
  <2>3. RstInv'
    BY <1>1, <1>2, <2>1, <2>2, RstFacts DEF RstInv
  <2>4. LockInv' /\ LastInv' /\ store \in StoreType
    BY <1>1, <1>2, <2>1 DEF IInv, LockInv, LastInv, BaseInv
  <2> QED
    BY <1>2, <2>3, <2>4, RestoreStep
<1>4. CASE rst' = Idle
  BY <1>1, <1>4, DropIInv
<1> QED
  BY <1>3, <1>4 DEF Gate

LEMMA BeginReplayIInv ==
  ASSUME IInv, BeginReplay
  PROVE  IInv'
<1>1. rst # Idle /\ rst.pc = "begin" /\ UNCHANGED <<cfg, store, backups, call, done, last>>
  BY DEF BeginReplay, Idle
<1>2. store \in StoreType
  BY DEF IInv, BaseInv
<1>3. CASE lock = "free" /\ lock' = "restore" /\ rst' = [rst EXCEPT !.pc = "replay", !.work = store]
  <2>1. /\ DOMAIN rst' = RstFields /\ rst'.pc = "replay" /\ rst'.id = rst.id
        /\ rst'.revision = rst.revision /\ rst'.conn = rst.conn /\ rst'.asked = rst.asked
        /\ rst'.plan = rst.plan /\ rst'.next = 1 /\ rst'.work = store
    BY <1>1, <1>3, RstFacts DEF RstFields
  <2>2. resolve_restore_plan(rst'.conn, rst'.plan)
    <3>1. resolve_restore_plan(rst.conn, rst.plan)
      BY <1>1 DEF IInv, RstInv
    <3> QED
      BY <2>1, <3>1
  <2>3. Written(store, store, backups[rst.id], rst.plan, 0)
    BY DEF Written
  <2>4. Written(store', rst'.work, backups'[rst'.id], rst'.plan, rst'.next - 1)
    BY <1>1, <2>1, <2>3
  <2>5. rst'.next \in 1..Len(rst'.plan) + 1
    BY <1>1, <2>1, RstFacts
  <2>6. RstInv'
    BY <1>1, <1>2, <2>1, <2>2, <2>4, <2>5, RstFacts DEF RstInv
  <2>7. LockInv' /\ LastInv'
    BY <1>1, <1>3, <2>1 DEF IInv, LockInv, LastInv, Idle
  <2> QED
    BY <1>1, <1>2, <1>3, <2>6, <2>7, RestoreStep
<1>4. CASE rst' = Idle /\ lock' = lock
  BY <1>1, <1>4, DropIInv DEF BeginReplay, execVars
<1> QED
  BY <1>3, <1>4 DEF BeginReplay

(* A replay that ends leaves the transaction, whatever it leaves behind. *)
LEMMA EndReplayIInv ==
  ASSUME IInv, rst # Idle, rst.pc = "replay", EndReplay, store' \in StoreType, LastInv'
  PROVE  IInv'
<1>1. rst' = Idle /\ lock' = "free" /\ UNCHANGED <<cfg, backups, call, done>>
  BY DEF EndReplay
<1>2. lock = "restore"
  BY DEF IInv, LockInv
<1>3. RstInv' /\ LockInv'
  BY <1>1 DEF RstInv, LockInv
<1> QED
  BY <1>1, <1>2, <1>3, RestoreStep

LEMMA ReplayIInv ==
  ASSUME IInv, Replay
  PROVE  IInv'
<1> DEFINE p == rst.plan[rst.next]
<1>1. rst # Idle /\ rst.pc = "replay" /\ rst.next <= Len(rst.plan)
  BY DEF Replay, Idle
<1>2. /\ rst.next \in 1..Len(rst.plan) + 1 /\ rst.work \in StoreType
      /\ Written(store, rst.work, backups[rst.id], rst.plan, rst.next - 1)
      /\ resolve_restore_plan(rst.conn, rst.plan)
  BY <1>1 DEF IInv, RstInv
<1>3. rst.next \in DOMAIN rst.plan
  BY <1>1, <1>2, RstFacts
<1>4. CASE rst' = [rst EXCEPT !.work = Replayed(p, rst.work), !.next = @ + 1] /\ UNCHANGED <<execVars, last>>
  <2> DEFINE work == Replayed(p, rst.work)
  <2>1. work \in StoreType /\ Written(store, work, backups[rst.id], rst.plan, rst.next)
    <3>1. IsBackup(backups[rst.id]) /\ rst.plan = plan_restore(backups[rst.id])
      BY <1>1, RstFacts
    <3> QED
      BY <1>2, <1>3, <3>1, ReplayedFacts
  <2> HIDE DEF work
  <2>2. /\ DOMAIN rst' = RstFields /\ rst'.pc = "replay" /\ rst'.id = rst.id
        /\ rst'.revision = rst.revision /\ rst'.conn = rst.conn /\ rst'.asked = rst.asked
        /\ rst'.plan = rst.plan /\ rst'.next = rst.next + 1 /\ rst'.work = work
    BY <1>1, <1>4, RstFacts DEF RstFields, work
  <2>3. UNCHANGED <<cfg, store, lock, backups, call, done, last>>
    BY <1>4 DEF execVars
  <2>4. resolve_restore_plan(rst'.conn, rst'.plan)
    BY <1>2, <2>2
  <2>5. rst'.next \in 1..Len(rst'.plan) + 1 /\ rst'.next - 1 = rst.next
    BY <1>1, <1>2, <2>2, RstFacts
  <2>6. Written(store', rst'.work, backups'[rst'.id], rst'.plan, rst'.next - 1)
    BY <2>1, <2>2, <2>3, <2>5
  <2>7. RstInv'
    BY <1>1, <2>1, <2>2, <2>3, <2>4, <2>5, <2>6, RstFacts DEF RstInv
  <2>8. LockInv' /\ LastInv' /\ store \in StoreType
    BY <1>1, <2>2, <2>3 DEF IInv, LockInv, LastInv, BaseInv, Idle
  <2> QED
    BY <2>3, <2>7, <2>8, RestoreStep
<1>5. CASE EndReplay /\ UNCHANGED <<store, last>>
  <2>1. store' \in StoreType /\ LastInv'
    BY <1>5 DEF EndReplay, IInv, BaseInv, LastInv
  <2> QED
    BY <1>1, <1>5, <2>1, EndReplayIInv
<1> QED
  BY <1>4, <1>5 DEF Replay

LEMMA CommitReplayIInv ==
  ASSUME IInv, CommitReplay
  PROVE  IInv'
<1>1. rst # Idle /\ rst.pc = "replay" /\ rst.next > Len(rst.plan) /\ EndReplay
  BY DEF CommitReplay, Idle
<1>2. /\ rst.next \in 1..Len(rst.plan) + 1 /\ rst.work \in StoreType
      /\ Written(store, rst.work, backups[rst.id], rst.plan, rst.next - 1)
      /\ resolve_restore_plan(rst.conn, rst.plan)
  BY <1>1 DEF IInv, RstInv
<1>3. store \in StoreType /\ backups' = backups
  BY <1>1 DEF IInv, BaseInv, EndReplay
<1>4. CASE /\ store' = rst.work
           /\ last' = [pc |-> "committed", id |-> rst.id, pre |-> store, post |-> rst.work,
                       plan |-> rst.plan, conn |-> rst.conn, asked |-> rst.asked]
  <2>1. rst.next - 1 = Len(rst.plan)
    BY <1>1, <1>2, RstFacts
  <2>2. /\ last'.id = rst.id /\ last'.pre = store /\ last'.post = rst.work
        /\ last'.plan = rst.plan /\ last'.conn = rst.conn /\ last'.asked = rst.asked
    BY <1>4
  <2>3. Written(last'.pre, last'.post, backups'[last'.id], last'.plan, Len(last'.plan))
    BY <1>2, <1>3, <2>1, <2>2
  <2>4. resolve_restore_plan(last'.conn, last'.plan)
    BY <1>2, <2>2
  <2>5. LastInv'
    BY <1>1, <1>2, <1>3, <2>2, <2>3, <2>4, RstFacts DEF LastInv
  <2> QED
    BY <1>1, <1>2, <1>4, <2>5, EndReplayIInv
<1>5. CASE UNCHANGED <<store, last>>
  <2>1. LastInv'
    BY <1>3, <1>5 DEF IInv, LastInv
  <2> QED
    BY <1>1, <1>3, <1>5, <2>1, EndReplayIInv
<1> QED
  BY <1>4, <1>5 DEF CommitReplay

(* The death of the server. *)
LEMMA CrashIInv ==
  ASSUME IInv, Crash
  PROVE  IInv'
<1>1. /\ call' = Idle /\ rst' = Idle /\ lock' = "free"
      /\ UNCHANGED <<cfg, store, backups, done, last>>
  BY DEF Crash
<1>2. CallInv' /\ RstInv' /\ LockInv'
  BY <1>1 DEF CallInv, RstInv, LockInv
<1> QED
  BY <1>1, <1>2 DEF IInv, BaseInv, DoneInv, LastInv

LEMMA StutterIInv ==
  ASSUME IInv, UNCHANGED vars
  PROVE  IInv'
<1>1. UNCHANGED <<cfg, store, lock, backups, call, done, rst, last>>
  BY DEF vars, execVars
<1>2. CallInv' /\ LockInv'
  BY <1>1 DEF IInv, CallInv, LockInv
<1> QED
  BY <1>1, <1>2, CallStep DEF Added

(***************************************************************************)
(* The invariant of the calls, the backups and the restores holds in every *)
(* reachable state.                                                        *)
(***************************************************************************)
THEOREM RestoreInvariant == Spec => []IInv
<1>1. Init => IInv
  BY InitIInv
<1>2. IInv /\ [Next]_vars => IInv'
  BY ExecIInv, AskIInv, RetryIInv, AnswerIInv, GateIInv, BeginReplayIInv, ReplayIInv,
     CommitReplayIInv, CrashIInv, StutterIInv DEF Next
<1> QED
  BY <1>1, <1>2, PTL DEF Spec

-----------------------------------------------------------------------------
(***************************************************************************)
(* What runs was authorised.                                               *)
(***************************************************************************)
(* No table a running statement lists is denied to what it does there.     *)
LEMMA ListedAllowed ==
  ASSUME IInv, call # Idle
  PROVE  LET allowed(t, category) ==
               R!resolve_object(call.conn,
                  [id |-> Named(t, call.conn.database), category |-> category]).action # "deny"
         IN /\ \A i \in DOMAIN call.c.read_tables : allowed(call.c.read_tables[i], "read")
            /\ \A i \in DOMAIN call.c.mutated_tables : allowed(call.c.mutated_tables[i], call.c.category)
<1> DEFINE objects == R!Objects(call.c, call.conn.database)
<1>1. call.conn \in Connections /\ Authorised(call.ast, call.c, call.conn, call.policy)
  BY DEF IInv, CallInv
<1>2. PICK s \in Statements : /\ call.c = C!classify_statement(s) /\ call.c # C!Failed
                              /\ R!resolve(call.conn, call.c, Unset).action # "deny"
  BY <1>1 DEF Authorised
<1>3. Resolvable(call.c)
  BY <1>2, ClassResolvable
<1>4. \A j \in DOMAIN objects : R!resolve_object(call.conn, objects[j]).action # "deny"
  BY <1>1, <1>2, <1>3, ResolveFacts
<1>5. IsList(call.c.read_tables) /\ IsList(call.c.mutated_tables)
  BY <1>3 DEF Resolvable
<1>6. \A i \in DOMAIN call.c.read_tables : \E j \in DOMAIN objects :
        objects[j] = Object(call.c.read_tables[i], call.conn.database, "read")
  BY <1>5, ObjectsFacts
<1>7. \A i \in DOMAIN call.c.mutated_tables : \E j \in DOMAIN objects :
        objects[j] = Object(call.c.mutated_tables[i], call.conn.database, call.c.category)
  BY <1>5, ObjectsFacts
<1> HIDE DEF objects
<1> QED
  BY <1>4, <1>6, <1>7 DEF Object

(***************************************************************************)
(* A statement that runs touches no table the policy denies it, for        *)
(* whatever statements, rules and baselines, as long as the walk of the    *)
(* classifier lists what each of them touches.                             *)
(***************************************************************************)
THEOREM RestoreNothingDenied ==
  ASSUME EverythingListed
  PROVE  Spec => []NothingDeniedRuns
<1>1. ASSUME IInv PROVE NothingDeniedRuns
  <2> SUFFICES ASSUME call # Idle, NEW touch \in TouchedBy(call.ast)
               PROVE  R!resolve_object(call.conn,
                        [id |-> Named(touch[1], call.conn.database), category |-> touch[2]]).action # "deny"
    BY DEF NothingDeniedRuns, Named
  <2>1. Authorised(call.ast, call.c, call.conn, call.policy)
    BY <1>1 DEF IInv, CallInv
  <2>2. \/ touch[2] = "read" /\ \E i \in DOMAIN call.c.read_tables : call.c.read_tables[i] = touch[1]
        \/ /\ touch[2] = call.c.category
           /\ \E i \in DOMAIN call.c.mutated_tables : call.c.mutated_tables[i] = touch[1]
    BY <2>1 DEF Authorised, EverythingListed
  <2> QED
    BY <1>1, <2>2, ListedAllowed
<1> QED
  BY <1>1, RestoreInvariant, PTL

(***************************************************************************)
(* A replay holds nothing the policy denies, by the configuration the user *)
(* was asked under, however many edits came in between.                    *)
(***************************************************************************)
THEOREM RestoreAuthorisation == Spec => []RestoreAuthorised
<1>1. ASSUME IInv PROVE RestoreAuthorised
  <2> SUFFICES ASSUME last # Idle PROVE RestoreAuthorised
    BY DEF RestoreAuthorised
  <2> DEFINE b == backups[last.id]
  <2>1. /\ last.id \in DOMAIN backups /\ last.plan = plan_restore(b)
        /\ last.conn = last.asked /\ last.conn \in Connections
        /\ resolve_restore_plan(last.conn, last.plan)
    BY <1>1 DEF IInv, LastInv
  <2>2. IsBackup(b)
    BY <1>1, <2>1 DEF IInv, BaseInv
  <2> HIDE DEF b
  <2>3. \A i \in DOMAIN last.plan :
          R!resolve_object(last.conn,
             [id |-> [database |-> Main, table |-> last.plan[i].table],
              category |-> IF last.plan[i].op = "create" THEN "ddl" ELSE "write"]).action # "deny"
    BY <2>1, <2>2, PlanAuthorised
  <2> QED
    BY <2>1, <2>3 DEF RestoreAuthorised
<1> QED
  BY <1>1, RestoreInvariant, PTL

(***************************************************************************)
(* What is captured, and what the statement does.                          *)
(***************************************************************************)
(* The rows an UPDATE, a DELETE or a DROP reaches. *)
Reached(ast, pre) ==
  (IF ast.kind = "drop" THEN Keys ELSE ast.where) \cap Present(pre[TargetOf(ast)])

LEMMA CapturedRow ==
  ASSUME NEW s \in Statements, s.ast.kind \in Captured, NEW pre \in StoreType,
         NEW policy, Limited(policy), ~RowFor(s.ast, pre, policy).truncated
  PROVE  LET b == RowFor(s.ast, pre, policy)
             t == TargetOf(s.ast)
         IN /\ t \in Tables /\ b.table = t
            /\ b.kind = IF s.ast.kind = "drop" THEN "combined" ELSE "rows"
            /\ b.rows = [k \in Reached(s.ast, pre) |-> JsonOf(pre[t].rows[k])]
            /\ b.schema <=> (s.ast.kind = "drop" /\ pre[t].exists)
<1> DEFINE spec == E!extract_backup_spec(s.ast, Keys)
           bt   == Head(spec.tables)
           b    == RowFor(s.ast, pre, policy)
           t    == TargetOf(s.ast)
<1>1. b = BackupRow(spec, pre, policy)
  BY DEF RowFor, Captured
<1>2. /\ t \in Tables /\ spec.kind = IF s.ast.kind = "drop" THEN "combined" ELSE "rows"
      /\ bt.table.table = t /\ bt.keys = IF s.ast.kind = "drop" THEN Keys ELSE s.ast.where
  BY ExtractFacts DEF Captured, IsTarget
<1>3. Selected(bt, pre) = Reached(s.ast, pre)
  BY <1>2 DEF Selected, Reached
<1>4. spec.kind \in {"rows", "combined", "schema"}
  BY <1>2
<1>5. /\ b.table = bt.table.table /\ b.kind = spec.kind
      /\ b.schema <=> (spec.kind # "rows" /\ pre[bt.table.table].exists)
      /\ ~b.truncated /\ spec.kind # "schema" =>
           b.rows = [k \in Selected(bt, pre) |-> JsonOf(pre[bt.table.table].rows[k])]
  <2> DEFINE row == BackupRow(spec, pre, policy)
  <2>1. /\ row.table = bt.table.table /\ row.kind = spec.kind
        /\ row.schema <=> (spec.kind # "rows" /\ pre[bt.table.table].exists)
        /\ ~row.truncated /\ spec.kind # "schema" =>
             row.rows = [k \in Selected(bt, pre) |-> JsonOf(pre[bt.table.table].rows[k])]
    BY <1>4, BackupRowFacts
  <2>2. b = row
    BY <1>1
  <2> HIDE DEF row, b
  <2> QED
    BY <2>1, <2>2
<1>6. ~b.truncated
  OBVIOUS
<1> HIDE DEF spec, bt, b, t
<1>7. b.rows = [k \in Reached(s.ast, pre) |-> JsonOf(pre[t].rows[k])]
  BY <1>2, <1>3, <1>5, <1>6
<1>8. b.schema <=> (s.ast.kind = "drop" /\ pre[t].exists)
  BY <1>2, <1>5
<1> QED
  BY <1>2, <1>5, <1>7, <1>8 DEF b, t

LEMMA CapturedEffect ==
  ASSUME NEW s \in Statements, s.ast.kind \in Captured, NEW pre \in StoreType
  PROVE  LET post == Effect(s.ast, pre)
             t    == TargetOf(s.ast)
         IN /\ \A u \in Tables \ {t} : post[u] = pre[u]
            /\ \A k \in Keys \ Reached(s.ast, pre) : post[t].rows[k] = pre[t].rows[k]
            /\ s.ast.kind = "drop" => post[t].exists = FALSE
            /\ s.ast.kind # "drop" => post[t].exists = pre[t].exists
<1> DEFINE t == TargetOf(s.ast)
<1>1. t \in Tables
  BY TargetInTables DEF Captured, Changing
<1>2. s.ast.value \in Cells /\ NoRow \in Cells
  BY StatementAssumption DEF Cells
<1>3. \A k \in Keys : k \notin Present(pre[t]) => pre[t].rows[k] = NoRow
  BY DEF Present
<1>4. CASE s.ast.kind = "update"
  <2>1. Effect(s.ast, pre) = WithRows(pre, t, Reached(s.ast, pre), s.ast.value)
    BY <1>4 DEF Effect, Reached
  <2> HIDE DEF t
  <2> QED
    BY <1>1, <1>2, <1>4, <2>1, WithRowsFacts DEF t
<1>5. CASE s.ast.kind = "delete"
  <2>1. Effect(s.ast, pre) = WithRows(pre, t, s.ast.where, NoRow)
    BY <1>5 DEF Effect
  <2>2. \A k \in Keys \ Reached(s.ast, pre) : k \in s.ast.where => pre[t].rows[k] = NoRow
    BY <1>3, <1>5 DEF Reached
  <2> HIDE DEF t
  <2> QED
    BY <1>1, <1>2, <1>5, <2>1, <2>2, WithRowsFacts DEF t
<1>6. CASE s.ast.kind = "drop"
  <2>1. Effect(s.ast, pre) = [pre EXCEPT ![t] = [exists |-> FALSE, rows |-> [k \in Keys |-> NoRow]]]
    BY <1>6 DEF Effect
  <2>2. \A k \in Keys \ Reached(s.ast, pre) : pre[t].rows[k] = NoRow
    BY <1>3, <1>6 DEF Reached
  <2> HIDE DEF t
  <2> QED
    BY <1>1, <1>6, <2>1, <2>2 DEF t, StoreType
<1> QED
  BY <1>4, <1>5, <1>6 DEF Captured

(* A committed call, with the statement it ran. *)
LEMMA DoneFacts ==
  ASSUME IInv, NEW i \in DOMAIN done
  PROVE  \E s \in Statements :
           /\ done[i].ast = s.ast /\ done[i].pre \in StoreType /\ Limited(done[i].policy)
           /\ CanRun(s.ast, done[i].pre) /\ done[i].post = Effect(s.ast, done[i].pre)
           /\ done[i].post \in StoreType
           /\ BackedUp(backups, s.ast, done[i].pre, done[i].policy, done[i].backup)
<1>1. PICK s \in Statements : done[i].ast = s.ast
  BY DEF IInv, DoneInv
<1>2. /\ done[i].pre \in StoreType /\ Limited(done[i].policy)
      /\ CanRun(s.ast, done[i].pre) /\ done[i].post = Effect(s.ast, done[i].pre)
      /\ BackedUp(backups, s.ast, done[i].pre, done[i].policy, done[i].backup)
  BY <1>1 DEF IInv, DoneInv
<1>3. done[i].post \in StoreType
  BY <1>2, EffectType
<1> QED
  BY <1>1, <1>2, <1>3

(***************************************************************************)
(* Every row a committed UPDATE, DELETE or DROP changed or removed is in   *)
(* the backup the call reported, whatever other writers and edits of the   *)
(* limits came in between.                                                 *)
(***************************************************************************)
THEOREM RestorePreImageKept == Spec => []PreImageKept
<1>1. ASSUME IInv PROVE PreImageKept
  <2> SUFFICES ASSUME NEW i \in DOMAIN done, done[i].ast.kind \in Captured
               PROVE  /\ done[i].backup # 0
                      /\ LET b == backups[done[i].backup] IN
                           \/ b.truncated /\ done[i].policy.overflow = "truncate"
                           \/ ~b.truncated /\ \A t \in Tables, k \in Keys :
                             done[i].pre[t].rows[k] \notin {NoRow, done[i].post[t].rows[k]} =>
                               /\ t = b.table /\ k \in DOMAIN b.rows
                               /\ b.rows[k] = JsonOf(done[i].pre[t].rows[k])
    BY DEF PreImageKept, Captured
  <2> DEFINE d == done[i]
             b == backups[d.backup]
  <2>1. PICK s \in Statements :
          /\ d.ast = s.ast /\ d.pre \in StoreType /\ Limited(d.policy)
          /\ d.post = Effect(s.ast, d.pre)
          /\ BackedUp(backups, s.ast, d.pre, d.policy, d.backup)
    BY <1>1, DoneFacts
  <2> HIDE DEF d
  <2>2. d.ast.kind \in Captured
    BY DEF d
  <2>3. d.backup # 0 /\ b = RowFor(s.ast, d.pre, d.policy)
          /\ (d.policy.overflow = "abort" => ~b.truncated)
    BY <2>1, <2>2 DEF BackedUp
  <2>4. b.truncated => d.policy.overflow = "truncate"
    BY <2>1, <2>3 DEF Limited
  <2>5. ASSUME ~b.truncated, NEW t \in Tables, NEW k \in Keys,
               d.pre[t].rows[k] \notin {NoRow, d.post[t].rows[k]}
        PROVE  t = b.table /\ k \in DOMAIN b.rows /\ b.rows[k] = JsonOf(d.pre[t].rows[k])
    <3>1. /\ b.table = TargetOf(s.ast)
          /\ b.rows = [key \in Reached(s.ast, d.pre) |-> JsonOf(d.pre[TargetOf(s.ast)].rows[key])]
      BY <2>1, <2>2, <2>3, <2>5, CapturedRow
    <3>2. t = TargetOf(s.ast) /\ k \in Reached(s.ast, d.pre)
      <4> DEFINE target == TargetOf(s.ast)
                 post   == Effect(s.ast, d.pre)
      <4>1. s.ast.kind \in Captured
        BY <2>1, <2>2
      <4>2. \A u \in Tables \ {target} : post[u] = d.pre[u]
        BY <2>1, <4>1, CapturedEffect
      <4>3. \A key \in Keys \ Reached(s.ast, d.pre) : post[target].rows[key] = d.pre[target].rows[key]
        BY <2>1, <4>1, CapturedEffect
      <4>4. d.post = post
        BY <2>1
      <4> HIDE DEF post, target
      <4> QED
        BY <2>5, <4>2, <4>3, <4>4 DEF target
    <3> HIDE DEF b
    <3> QED
      BY <3>1, <3>2
  <2> QED
    BY <2>3, <2>4, <2>5 DEF d
<1> QED
  BY <1>1, RestoreInvariant, PTL

(***************************************************************************)
(* What a restore undoes.                                                  *)
(***************************************************************************)
LEMMA LargestExists ==
  ASSUME NEW n \in Nat, NEW S \in SUBSET (0..n), S # {}
  PROVE  \E k \in S : \A j \in S : j <= k
<1> DEFINE T == {n - j : j \in S}
<1>1. T \subseteq Nat /\ T # {}
  <2>1. \A j \in S : n - j \in Nat
    OBVIOUS
  <2> QED
    BY <2>1
<1>2. PICK m \in T : \A j \in T : <<j, m>> \notin OpToRel(<, Nat)
  <2> HIDE DEF T
  <2> QED
    BY <1>1, NatLessThanWellFounded, WFMin
<1>3. \A j \in T : ~(j < m)
  BY <1>1, <1>2 DEF OpToRel
<1>4. PICK k \in S : m = n - k
  OBVIOUS
<1>5. \A j \in S : n - j \in T /\ ~(n - j < n - k)
  BY <1>3, <1>4
<1> HIDE DEF T
<1>6. \A j \in S : j <= k
  BY <1>5
<1> QED
  BY <1>6

(* The hint of an INSERT names the rows it made, when it spells out their  *)
(* keys or makes one.                                                      *)
LEMMA HintIsExact ==
  ASSUME NEW s \in Statements, s.ast.keys # {} \/ s.ast.auto = 1, NEW pre
  PROVE  HintKeys(s.ast, InsertedKeys(s.ast, pre)) = InsertedKeys(s.ast, pre)
<1>1. CASE s.ast.keys # {}
  BY <1>1 DEF HintKeys, InsertedKeys
<1>2. CASE s.ast.keys = {} /\ s.ast.auto = 1
  <2> DEFINE table == pre[TargetOf(s.ast)]
             S     == Present(table) \cup {0}
             last0 == CHOOSE k \in 0..MaxKey : /\ k \in Present(table) \cup {0}
                                               /\ \A j \in Present(table) : j <= k
  <2>1. S \in SUBSET (0..MaxKey) /\ S # {}
    BY ExecAssumption DEF Present, Keys
  <2>2. \E k \in S : \A j \in S : j <= k
    BY <2>1, ExecAssumption, LargestExists
  <2>3. last0 \in 0..MaxKey
    <3>1. \E k \in 0..MaxKey : k \in Present(table) \cup {0} /\ \A j \in Present(table) : j <= k
      BY <2>1, <2>2
    <3> QED
      BY <3>1
  <2>4. InsertedKeys(s.ast, pre) = last0 + 1 .. last0 + 1
    BY <1>2 DEF InsertedKeys, NewKeys
  <2> HIDE DEF last0
  <2> DEFINE x == last0 + 1
  <2>5. x \in Nat /\ InsertedKeys(s.ast, pre) = {x}
    BY <2>3, <2>4
  <2> HIDE DEF x
  <2>6. Cardinality({x}) = 1
    BY FS_Singleton
  <2>7. (CHOOSE k \in {x} : \A j \in {x} : j <= k) = x
    BY <2>5
  <2>8. HintKeys(s.ast, {x}) = x .. x + 1 - 1
    BY <1>2, <2>6, <2>7 DEF HintKeys
  <2> QED
    BY <2>5, <2>8
<1> QED
  BY <1>1, <1>2

LEMMA PlanKeys ==
  ASSUME NEW b, IsBackup(b), b.kind \in {"rows", "combined"}
  PROVE  LET plan == plan_restore(b) IN
         /\ \A k : (\E i \in 1..Len(plan) : k \in plan[i].keys) <=> k \in DOMAIN b.rows
         /\ (\E i \in 1..Len(plan) : plan[i].op = "create") <=> (b.kind = "combined" /\ b.schema)
<1> DEFINE plan == plan_restore(b)
<1>1. /\ DOMAIN plan = 1..Len(plan)
      /\ \A i \in DOMAIN plan :
           \/ /\ b.kind = "combined" /\ b.schema
              /\ plan[i] = [op |-> "create", table |-> b.table, keys |-> {}]
           \/ \E k \in DOMAIN b.rows : plan[i] =
                [op |-> "upsert", table |-> b.table, keys |-> {k}, json |-> b.rows[k]]
  BY PlanFacts
<1>2. /\ \A k \in DOMAIN b.rows : \E i \in DOMAIN plan : k \in plan[i].keys
      /\ b.kind = "combined" /\ b.schema => \E i \in DOMAIN plan : plan[i].op = "create"
  BY PlanFacts
<1> HIDE DEF plan
<1>3. \A i \in DOMAIN plan :
        \/ /\ b.kind = "combined" /\ b.schema
           /\ plan[i].op = "create" /\ plan[i].keys = {}
        \/ /\ plan[i].op = "upsert"
           /\ \E k \in DOMAIN b.rows : plan[i].keys = {k}
  <2> TAKE i \in DOMAIN plan
  <2>1. CASE b.kind = "combined" /\ b.schema /\ plan[i] = [op |-> "create", table |-> b.table, keys |-> {}]
    BY <2>1
  <2>2. CASE \E k \in DOMAIN b.rows : plan[i] =
               [op |-> "upsert", table |-> b.table, keys |-> {k}, json |-> b.rows[k]]
    BY <2>2
  <2> QED
    BY <1>1, <2>1, <2>2
<1> QED
  BY <1>1, <1>2, <1>3 DEF plan

LEMMA SameStore ==
  ASSUME NEW st \in StoreType, NEW other \in StoreType, NEW t \in Tables,
         \A u \in Tables \ {t} : st[u] = other[u],
         \A k \in Keys : st[t].rows[k] = other[t].rows[k], st[t].exists = other[t].exists
  PROVE  st = other
<1>1. st[t].rows = other[t].rows
  BY DEF StoreType
<1>2. st[t] = other[t]
  BY <1>1 DEF StoreType
<1> QED
  BY <1>2 DEF StoreType

(* A restore of rows that were captured. *)
LEMMA CapturedUndone ==
  ASSUME NEW s \in Statements, s.ast.kind \in Captured,
         NEW pre \in StoreType, NEW restored \in StoreType, NEW policy, Limited(policy),
         CanRun(s.ast, pre), ~RowFor(s.ast, pre, policy).truncated,
         \A k \in Keys : pre[TargetOf(s.ast)].rows[k] \notin {"blob", "backslash"},
         NEW b, b = RowFor(s.ast, pre, policy), IsBackup(b),
         Written(Effect(s.ast, pre), restored, b, plan_restore(b), Len(plan_restore(b)))
  PROVE  restored = pre
<1> DEFINE t    == TargetOf(s.ast)
           post == Effect(s.ast, pre)
<1>1. /\ t \in Tables /\ b.table = t
      /\ b.kind = IF s.ast.kind = "drop" THEN "combined" ELSE "rows"
      /\ b.rows = [k \in Reached(s.ast, pre) |-> JsonOf(pre[t].rows[k])]
      /\ b.schema <=> (s.ast.kind = "drop" /\ pre[t].exists)
  BY CapturedRow
<1>2. /\ \A u \in Tables \ {t} : post[u] = pre[u]
      /\ \A k \in Keys \ Reached(s.ast, pre) : post[t].rows[k] = pre[t].rows[k]
      /\ s.ast.kind = "drop" => post[t].exists = FALSE
      /\ s.ast.kind # "drop" => post[t].exists = pre[t].exists
  BY CapturedEffect
<1>3. pre[t].exists = TRUE
  BY <1>1 DEF CanRun, Captured, StoreType
<1>4. \A k \in Keys : pre[t].rows[k] \notin {"blob", "backslash"}
  OBVIOUS
<1> HIDE DEF t, post
<1>5. b.kind \in {"rows", "combined"} /\ b.kind # "insert-hint"
  BY <1>1
<1>6. /\ \A k : (\E i \in 1..Len(plan_restore(b)) : k \in plan_restore(b)[i].keys) <=> k \in DOMAIN b.rows
      /\ (\E i \in 1..Len(plan_restore(b)) : plan_restore(b)[i].op = "create")
           <=> (b.kind = "combined" /\ b.schema)
  BY <1>5, PlanKeys
<1>7. /\ \A u \in Tables \ {t} : restored[u] = post[u]
      /\ \A k \in Keys : restored[t].rows[k] =
           IF \E i \in 1..Len(plan_restore(b)) : k \in plan_restore(b)[i].keys
           THEN IF b.kind = "insert-hint" THEN NoRow ELSE Escape(b.rows[k]) ELSE post[t].rows[k]
      /\ restored[t].exists <=>
           (post[t].exists \/ \E i \in 1..Len(plan_restore(b)) : plan_restore(b)[i].op = "create")
  BY <1>1 DEF Written, post
<1>8. \A u \in Tables \ {t} : restored[u] = pre[u]
  BY <1>2, <1>7
<1>9. \A k \in Keys : restored[t].rows[k] = pre[t].rows[k]
  <2> TAKE k \in Keys
  <2>1. CASE k \in Reached(s.ast, pre)
    <3>1. restored[t].rows[k] = Escape(b.rows[k]) /\ b.rows[k] = JsonOf(pre[t].rows[k])
      BY <1>1, <1>5, <1>6, <1>7, <2>1
    <3> QED
      BY <1>4, <3>1 DEF Escape, JsonOf
  <2>2. CASE k \notin Reached(s.ast, pre)
    BY <1>1, <1>2, <1>6, <1>7, <2>2
  <2> QED
    BY <2>1, <2>2
<1>10. restored[t].exists = pre[t].exists
  <2>1. restored[t].exists \in BOOLEAN
    BY <1>1 DEF StoreType
  <2>2. CASE s.ast.kind = "drop"
    BY <1>1, <1>3, <1>6, <1>7, <2>1, <2>2
  <2>3. CASE s.ast.kind # "drop"
    BY <1>2, <1>3, <1>7, <2>1, <2>3
  <2> QED
    BY <2>2, <2>3
<1> QED
  BY <1>1, <1>8, <1>9, <1>10, SameStore

(* A restore of an INSERT. *)
LEMMA InsertUndone ==
  ASSUME NEW s \in Statements, s.ast.kind = "insert", s.ast.keys # {} \/ s.ast.auto = 1,
         NEW pre \in StoreType, NEW restored \in StoreType, CanRun(s.ast, pre),
         NEW b, b = HintRow(s.ast, InsertedKeys(s.ast, pre)),
         Written(Effect(s.ast, pre), restored, b, plan_restore(b), Len(plan_restore(b)))
  PROVE  restored = pre
<1> DEFINE t    == TargetOf(s.ast)
           keys == InsertedKeys(s.ast, pre)
           post == Effect(s.ast, pre)
<1>1. /\ IsBackup(b) /\ b.table = t /\ b.kind = "insert-hint" /\ b.deletes = keys /\ t \in Tables
  BY HintRowFacts, HintIsExact DEF IsBackup
<1>2. s.ast.value \in Cells
  BY StatementAssumption DEF Cells
<1>3. /\ \A u \in Tables \ {t} : post[u] = pre[u]
      /\ post[t].exists = pre[t].exists
      /\ \A k \in Keys : k \notin keys => post[t].rows[k] = pre[t].rows[k]
  <2>1. post = WithRows(pre, t, keys, s.ast.value)
    BY DEF Effect
  <2> HIDE DEF post, t, keys
  <2> QED
    BY <1>1, <1>2, <2>1, WithRowsFacts
<1>4. \A k \in keys : pre[t].rows[k] = NoRow
  BY DEF CanRun, Present
<1>5. plan_restore(b) = <<Delete(b)>> /\ Delete(b).keys = keys /\ Delete(b).op = "delete"
  BY <1>1, PlanFacts DEF Delete
<1> HIDE DEF t, keys, post
<1> DEFINE plan == plan_restore(b)
<1>6. Len(plan) = 1 /\ plan[1].keys = keys /\ plan[1].op = "delete"
  BY <1>5
<1>7. /\ \A u \in Tables \ {t} : restored[u] = post[u]
      /\ \A k \in Keys : restored[t].rows[k] =
           IF \E i \in 1..Len(plan) : k \in plan[i].keys
           THEN IF b.kind = "insert-hint" THEN NoRow ELSE Escape(b.rows[k]) ELSE post[t].rows[k]
      /\ restored[t].exists <=> (post[t].exists \/ \E i \in 1..Len(plan) : plan[i].op = "create")
  BY <1>1 DEF Written, post
<1> HIDE DEF plan
<1>8. \A k \in Keys : restored[t].rows[k] = pre[t].rows[k]
  BY <1>1, <1>3, <1>4, <1>6, <1>7
<1>9. restored[t].exists = pre[t].exists
  <2>1. restored[t].exists \in BOOLEAN /\ pre[t].exists \in BOOLEAN
    BY <1>1 DEF StoreType
  <2> QED
    BY <1>3, <1>6, <1>7, <2>1
<1>10. \A u \in Tables \ {t} : restored[u] = pre[u]
  BY <1>3, <1>7
<1> QED
  BY <1>1, <1>8, <1>9, <1>10, SameStore

(***************************************************************************)
(* A restore run on the database its statement left gives back, row for    *)
(* row, the database the statement found: for an UPDATE, a DELETE, a DROP, *)
(* and an INSERT that spells out its keys or makes one row.                *)
(***************************************************************************)
THEOREM RestoreInverse == Spec => []RestoreUndoes
<1>1. ASSUME IInv PROVE RestoreUndoes
  <2> SUFFICES ASSUME last # Idle, NEW i \in Undone, Reversible(done[i]), last.pre = done[i].post
               PROVE  last.post = done[i].pre
    BY DEF RestoreUndoes
  <2> DEFINE d == done[i]
             b == backups[last.id]
  <2>1. i \in DOMAIN done /\ d.backup = last.id
    BY DEF Undone
  <2>2. PICK s \in Statements :
          /\ d.ast = s.ast /\ d.pre \in StoreType /\ Limited(d.policy)
          /\ CanRun(s.ast, d.pre) /\ d.post = Effect(s.ast, d.pre)
          /\ BackedUp(backups, s.ast, d.pre, d.policy, d.backup)
    BY <1>1, <2>1, DoneFacts
  <2>3. /\ last.id \in DOMAIN backups /\ last.plan = plan_restore(b) /\ last.post \in StoreType
        /\ Written(last.pre, last.post, b, last.plan, Len(last.plan))
    BY <1>1 DEF IInv, LastInv
  <2>4. last.id # 0 /\ IsBackup(b)
    BY <1>1, <2>3 DEF IInv, BaseInv, IsList
  <2>5. Written(Effect(s.ast, d.pre), last.post, b, plan_restore(b), Len(plan_restore(b)))
    BY <2>2, <2>3
  <2>6. /\ \/ s.ast.kind \in Captured
           \/ s.ast.kind = "insert" /\ (s.ast.keys # {} \/ s.ast.auto = 1)
        /\ ~b.truncated
        /\ \A k \in Keys : d.pre[TargetOf(s.ast)].rows[k] \notin {"blob", "backslash"}
    BY <2>1, <2>2 DEF Reversible, Captured
  <2> HIDE DEF d, b
  <2>7. b = RowFor(s.ast, d.pre, d.policy)
    BY <2>1, <2>2, <2>4, <2>6 DEF BackedUp, b
  <2>8. CASE s.ast.kind \in Captured
    BY <2>2, <2>3, <2>4, <2>5, <2>6, <2>7, <2>8, CapturedUndone DEF d
  <2>9. CASE s.ast.kind = "insert" /\ (s.ast.keys # {} \/ s.ast.auto = 1)
    <3>1. b = HintRow(s.ast, InsertedKeys(s.ast, d.pre))
      BY <2>7, <2>9 DEF RowFor
    <3> QED
      BY <2>2, <2>3, <2>5, <2>9, <3>1, InsertUndone DEF d
  <2> QED
    BY <2>6, <2>8, <2>9
<1> QED
  BY <1>1, RestoreInvariant, PTL

=============================================================================
