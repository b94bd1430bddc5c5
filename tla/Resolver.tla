------------------------------- MODULE Resolver -------------------------------
(***************************************************************************)
(* Two-layer policy resolution: src/src/policy/resolver.rs over the types  *)
(* of src/src/policy/model.rs.  A connection is a baseline policy, its     *)
(* default database and a function from rule keys to partial policies;     *)
(* a policy is cut down to its actions and the settings a table rule can   *)
(* override that matter here: Touch ID and the two limits of a backup.     *)
(***************************************************************************)
EXTENDS Naturals, Sequences

CONSTANTS Unset (* Option::None *)

Category     == {"read", "write", "ddl", "admin", "tx_ctrl"}
PolicyAction == {"allow", "confirm", "deny"}

rank(a) == CASE a = "allow" -> 0 [] a = "confirm" -> 1 [] a = "deny" -> 2

(* Keys of the rules: a table, or every table of a database. *)
Exact(id)        == [kind |-> "exact", database |-> id.database, table |-> id.table]
Wildcard(db)     == [kind |-> "wildcard", database |-> db, table |-> "*"]

(* A partial policy overrides field by field. *)
merged_with(policy, over) ==
  [action |-> [c \in Category |-> IF over.action[c] = Unset THEN policy.action[c] ELSE over.action[c]],
   touch |-> IF over.touch = Unset THEN policy.touch ELSE over.touch,
   max_backup_rows |-> IF over.max_backup_rows = Unset THEN policy.max_backup_rows
                       ELSE over.max_backup_rows,
   overflow |-> IF over.overflow = Unset THEN policy.overflow ELSE over.overflow]

(* A rule never lifts a stricter baseline silently. *)
resolve_table_action(baseline, rule) ==
  LET elevated == rule = "allow" /\ baseline # "allow" IN
    [action |-> IF elevated THEN "confirm" ELSE IF rule = Unset THEN baseline ELSE rule,
     elevated |-> elevated]

(* Exact beats wildcard, whichever categories the exact rule speaks of. *)
governing_rules(rules, id) ==
  LET found(key) == IF key \in DOMAIN rules THEN {rules[key]} ELSE {} IN
    IF Exact(id) \in DOMAIN rules THEN found(Exact(id)) ELSE found(Wildcard(id.database))

(* What one table, read, mutated or locked, adds to the decision. *)
resolve_object(conn, object) ==
  LET governing == governing_rules(conn.rules, object.id)
      rule      == IF governing = {} THEN Unset
                   ELSE (CHOOSE p \in governing : TRUE).action[object.category]
      decided   == resolve_table_action(conn.policy.action[object.category], rule)
  IN [id |-> object.id, category |-> object.category,
      action |-> decided.action, elevated |-> decided.elevated,
      effective |-> IF governing = {} THEN conn.policy
                    ELSE merged_with(conn.policy, CHOOSE p \in governing : TRUE)]

(* The tables to authorise, in the order they are considered: each table   *)
(* read, as a write too when the read locks, then each mutated table under *)
(* the statement's category.                                               *)
Objects(c, fallback) ==
  LET database(t) == IF t.database = Unset THEN fallback ELSE t.database
      object(t, category) == [id |-> [database |-> database(t), table |-> t.table],
                              category |-> category]
      reads == IF c.locking_read
               THEN [i \in 1..2 * Len(c.read_tables) |->
                       object(c.read_tables[(i + 1) \div 2], IF i % 2 = 1 THEN "read" ELSE "write")]
               ELSE [i \in 1..Len(c.read_tables) |-> object(c.read_tables[i], "read")]
  IN reads \o [i \in 1..Len(c.mutated_tables) |-> object(c.mutated_tables[i], c.category)]

(* Mutant: every contribution replaces the one before it. *)
Strictest_Last(contributions) == Len(contributions)

(* The first of the strictest contributions governs. *)
Strictest(contributions) ==
  CHOOSE i \in DOMAIN contributions :
    \A j \in DOMAIN contributions :
      /\ rank(contributions[j].action) <= rank(contributions[i].action)
      /\ j < i => rank(contributions[j].action) < rank(contributions[i].action)

DenyReasons(c, objects) ==
  {r \in {"FileIo", "UnresolvedTarget", "Policy"} :
     CASE r = "FileIo" -> c.file_io
       [] r = "UnresolvedTarget" -> \E i \in DOMAIN objects : objects[i].id.database = Unset
       [] r = "Policy" -> c.category = "read" /\ c.mutated_tables # <<>>}

resolve(conn, c, fallback_database) ==
  LET fallback == IF fallback_database = Unset THEN conn.database ELSE fallback_database
      objects  == Objects(c, fallback)
      contributions == [i \in DOMAIN objects |-> resolve_object(conn, objects[i])]
      baseline(action) == [action |-> action, effective |-> conn.policy, elevated |-> FALSE]
  IN CASE DenyReasons(c, objects) # {} -> baseline("deny")
       [] DenyReasons(c, objects) = {} /\ objects = <<>> -> baseline(conn.policy.action[c.category])
       [] OTHER ->
            LET s == contributions[Strictest(contributions)] IN
              [action |-> s.action, effective |-> s.effective,
               elevated |-> \E i \in DOMAIN contributions : contributions[i].elevated]

=============================================================================
