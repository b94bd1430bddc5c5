------------------------------ MODULE AuditLog ------------------------------
(***************************************************************************)
(* The audit database: rows chained by hash, written by the calls of       *)
(* several server processes (write_audit_entry), pruned by retention       *)
(* (cleanup_audit) and checked by verify_chain.  The file is one SQLite    *)
(* database: a writer holds its lock from BEGIN IMMEDIATE to COMMIT, and   *)
(* a row may refer to a backup row, a reference the database clears when   *)
(* the backup is deleted.                                                  *)
(*                                                                         *)
(* A hash is the record of what it covers, so hashes do not collide; the   *)
(* row's id stands for the fresh request id.  Days count the clock.        *)
(***************************************************************************)
EXTENDS Naturals, FiniteSets

CONSTANTS
    Callers,      \* calls that write audit rows, in any process
    Categories,   \* statement categories
    Days,         \* retention in days of each category
    BackupDays,   \* retention of backups
    PlanSize,     \* statements a restore replays
    TrimPart,     \* a size cap trims one TrimPart-th of each table
    MaxDay,       \* bound: the clock
    MaxToggles    \* bound: changes of the chain setting

ASSUME AuditAssumption ==
    /\ Categories # {}
    /\ Days \in [Categories -> Nat]
    /\ BackupDays \in Nat
    /\ PlanSize \in Nat \ {0}
    /\ TrimPart \in Nat \ {0}
    /\ MaxDay \in Nat
    /\ MaxToggles \in Nat

VARIABLES
    log,        \* table audit_log, ordered by id
    nextId,     \* its AUTOINCREMENT
    backups,    \* table backup
    nextBackup, \* its AUTOINCREMENT
    lock,       \* the callers inside a write transaction
    chaining,   \* tamper_evident_chain in the config file
    toggles,
    day,
    pc,         \* where each caller is
    call,       \* its locals
    last,       \* the hash it read from the newest row
    left,       \* audit rows it still has to write
    altered,    \* history: rows changed behind the program's back
    cleared     \* history: rows whose backup reference was cleared

dbVars   == <<log, nextId, backups, nextBackup>>
envVars  == <<chaining, toggles, day, altered, cleared>>
vars     == <<dbVars, envVars, lock, pc, call, last, left>>

NoHash   == [id |-> 0]
NoBackup == 0

AnyCategory == CHOOSE k \in Categories : TRUE

HashRow(prev, r) ==
    [prev |-> prev, id |-> r.id, ts |-> r.ts, cat |-> r.cat,
     backup |-> r.backup, text |-> r.text]

NoLocals ==
    [chained |-> FALSE, replay |-> FALSE, cat |-> AnyCategory, backup |-> NoBackup,
     ts |-> 0]

Newest(r) == \A m \in log : m.id <= r.id

BackupIds == {b.id : b \in backups}

Init ==
    /\ log = {} /\ nextId = 1
    /\ backups = {} /\ nextBackup = 1
    /\ lock = {}
    /\ chaining \in BOOLEAN /\ toggles = 0
    /\ day = 0
    /\ pc = [c \in Callers |-> "idle"]
    /\ call = [c \in Callers |-> NoLocals]
    /\ last = [c \in Callers |-> NoHash]
    /\ left = [c \in Callers |-> 0]
    /\ altered = {} /\ cleared = {}

-----------------------------------------------------------------------------
(* What the calls do before they write. *)

Goto(c, to) == pc' = [pc EXCEPT ![c] = to]

LoadConfig(c) ==
    /\ pc[c] = "idle"
    /\ Goto(c, "loaded")
    /\ call' = [call EXCEPT ![c].chained = chaining]
    /\ UNCHANGED <<dbVars, envVars, lock, last, left>>

(* A statement is executed or refused; the row will name its category. *)
Execute(c, k) ==
    /\ pc[c] = "loaded"
    /\ Goto(c, "ran")
    /\ call' = [call EXCEPT ![c].cat = k]
    /\ left' = [left EXCEPT ![c] = 1]
    /\ UNCHANGED <<dbVars, envVars, lock, last>>

(* A mutation whose backup is captured first, in a transaction of its own. *)
ExecuteWithBackup(c, k) ==
    /\ pc[c] = "loaded"
    /\ lock = {}
    /\ Goto(c, "ran")
    /\ backups' = backups \cup {[id |-> nextBackup, ts |-> day]}
    /\ nextBackup' = nextBackup + 1
    /\ call' = [call EXCEPT ![c] = [@ EXCEPT !.cat = k, !.backup = nextBackup]]
    /\ left' = [left EXCEPT ![c] = 1]
    /\ UNCHANGED <<log, nextId, envVars, lock, last>>

(* call_restore reads the backup and then waits for the user. *)
PlanRestore(c) ==
    /\ pc[c] = "loaded"
    /\ \E b \in backups : call' = [call EXCEPT ![c].backup = b.id]
    /\ Goto(c, "prompt")
    /\ UNCHANGED <<dbVars, envVars, lock, last, left>>

RestoreDeclined(c) ==
    /\ pc[c] = "prompt"
    /\ Goto(c, "done")
    /\ call' = [call EXCEPT ![c] = NoLocals]
    /\ UNCHANGED <<dbVars, envVars, lock, last, left>>

(* Denied by policy, or rolled back: one row for the attempt. *)
RestoreFails(c, k) ==
    /\ pc[c] = "prompt"
    /\ Goto(c, "ran")
    /\ call' = [call EXCEPT ![c].cat = k]
    /\ left' = [left EXCEPT ![c] = 1]
    /\ UNCHANGED <<dbVars, envVars, lock, last>>

(* The replay committed: a row for each of its statements. *)
Replay(c, k) ==
    /\ pc[c] = "prompt"
    /\ Goto(c, "ran")
    /\ call' = [call EXCEPT ![c] = [@ EXCEPT !.cat = k, !.replay = TRUE]]
    /\ left' = [left EXCEPT ![c] = PlanSize]
    /\ UNCHANGED <<dbVars, envVars, lock, last>>

-----------------------------------------------------------------------------
(* write_audit_entry *)

(* The time is taken before the transaction begins. *)
Stamp(c) ==
    /\ pc[c] = "ran"
    /\ Goto(c, "stamped")
    /\ call' = [call EXCEPT ![c].ts = day]
    /\ UNCHANGED <<dbVars, envVars, lock, last, left>>

BeginTx_Deferred(c) ==
    /\ pc[c] = "stamped"
    /\ lock' = lock \cup {c}
    /\ Goto(c, "begun")
    /\ UNCHANGED <<dbVars, envVars, call, last, left>>

BeginTx(c) ==
    /\ pc[c] = "stamped"
    /\ lock = {}
    /\ lock' = {c}
    /\ Goto(c, "begun")
    /\ UNCHANGED <<dbVars, envVars, call, last, left>>

(* On to the next row, or out of the call. *)
RowDone(c) ==
    /\ left' = [left EXCEPT ![c] = @ - 1]
    /\ Goto(c, IF left[c] > 1 THEN "ran" ELSE "done")
    /\ call' = [call EXCEPT ![c] = IF left[c] > 1 THEN [@ EXCEPT !.ts = 0]
                                   ELSE [NoLocals EXCEPT !.replay = call[c].replay]]
    /\ last' = [last EXCEPT ![c] = NoHash]

(* busy_timeout ran out. *)
Busy(c) ==
    /\ pc[c] = "stamped"
    /\ lock # {}
    /\ RowDone(c)
    /\ UNCHANGED <<dbVars, envVars, lock>>

LastHash(h) ==
    \/ log = {} /\ h = NoHash
    \/ \E r \in log : Newest(r) /\ h = r.hash

ReadLast(c) ==
    /\ pc[c] = "begun"
    /\ \E h \in {NoHash} \cup {r.hash : r \in log} :
          /\ IF call[c].chained THEN LastHash(h) ELSE h = NoHash
          /\ last' = [last EXCEPT ![c] = h]
    /\ Goto(c, "hashed")
    /\ UNCHANGED <<dbVars, envVars, lock, call, left>>

NewRow(c) ==
    LET r == [id |-> nextId, ts |-> call[c].ts, cat |-> call[c].cat,
              backup |-> call[c].backup, text |-> "written", prev |-> last[c],
              hash |-> NoHash]
    IN  IF call[c].chained THEN [r EXCEPT !.hash = HashRow(last[c], r)] ELSE r

(* INSERT and COMMIT: the backup the row refers to must exist. *)
InsertRow(c) ==
    /\ pc[c] = "hashed"
    /\ call[c].backup \in BackupIds \cup {NoBackup}
    /\ log' = log \cup {NewRow(c)}
    /\ nextId' = nextId + 1
    /\ lock' = lock \ {c}
    /\ RowDone(c)
    /\ UNCHANGED <<backups, nextBackup, envVars>>

(* The foreign key fails and the transaction is rolled back. *)
Rollback_Forgotten(c) ==
    /\ pc[c] = "hashed"
    /\ call[c].backup \notin BackupIds \cup {NoBackup}
    /\ RowDone(c)
    /\ UNCHANGED <<dbVars, envVars, lock>>

Rollback(c) ==
    /\ pc[c] = "hashed"
    /\ call[c].backup \notin BackupIds \cup {NoBackup}
    /\ lock' = lock \ {c}
    /\ RowDone(c)
    /\ UNCHANGED <<dbVars, envVars>>

(* The caller's process dies; SQLite drops its transaction. *)
Crash(c) ==
    /\ pc[c] \notin {"idle", "done", "dead"}
    /\ Goto(c, "dead")
    /\ lock' = lock \ {c}
    /\ call' = [call EXCEPT ![c] = NoLocals]
    /\ last' = [last EXCEPT ![c] = NoHash]
    /\ left' = [left EXCEPT ![c] = 0]
    /\ UNCHANGED <<dbVars, envVars>>

-----------------------------------------------------------------------------
(* cleanup_audit, one transaction: rows past the retention of their        *)
(* category, backups past theirs, and when the file is over its size cap   *)
(* the oldest part of both tables.                                         *)

Expired(ts, days) == ts + days < day

Oldest(S) ==
    {r \in S : Cardinality({m \in S : m.id <= r.id}) <= Cardinality(S) \div TrimPart}

Kept(S, over) == IF over THEN S \ Oldest(S) ELSE S

(* ON DELETE SET NULL *)
Unlink(r, ids) == [r EXCEPT !.backup = IF @ \in ids THEN NoBackup ELSE @]

Cleanup(over) ==
    LET rows    == Kept({r \in log : ~Expired(r.ts, Days[r.cat])}, over)
        kept    == Kept({b \in backups : ~Expired(b.ts, BackupDays)}, over)
        gone    == {b.id : b \in backups \ kept}
    IN  /\ lock = {}
        /\ backups' = kept
        /\ log' = {Unlink(r, gone) : r \in rows}
        /\ cleared' = cleared \cup {r.id : r \in {s \in rows : s.backup \in gone}}
        /\ UNCHANGED <<nextId, nextBackup, chaining, toggles, day, altered,
                       lock, pc, call, last, left>>

-----------------------------------------------------------------------------
(* verify_chain: one scan of the rows by id.  It knows a predecessor while *)
(* the last row that spoke of the chain, by a hash or by having none, left *)
(* a hash; it ends at the first chained row that does not match.           *)

Chained(r) == r.hash # NoHash

Speaks(r) == Chained(r) \/ r.prev = NoHash

Precedes(m, r) ==
    /\ Speaks(m) /\ m.id < r.id
    /\ \A s \in log : Speaks(s) /\ s.id < r.id => s.id <= m.id

Predecessors(r) == {m \in log : Precedes(m, r) /\ Chained(m)}

Mismatch_LinkOnly(r) ==
    r.prev # NoHash /\ \E m \in Predecessors(r) : m.hash # r.prev

Mismatch_NoEpoch(r) ==
    \/ r.hash # HashRow(r.prev, r)
    \/ r.prev # NoHash /\ ~\E m \in Predecessors(r) : m.hash = r.prev

Mismatch(r) ==
    \/ r.hash # HashRow(r.prev, r)
    \/ r.prev # NoHash /\ \E m \in Predecessors(r) : m.hash # r.prev

Broken == {r \in log : Chained(r) /\ Mismatch(r)}

Scanned == {r \in log : \A b \in Broken : r.id < b.id}

StartsEpoch(r) ==
    IF Chained(r) THEN r.prev # NoHash /\ Predecessors(r) = {} ELSE r.prev = NoHash

verify_chain ==
    [ok           |-> Broken = {},
     broken_at    |-> {b.id : b \in {r \in Broken : \A m \in Broken : r.id <= m.id}},
     rows_checked |-> Cardinality({r \in Scanned : Chained(r)}),
     epoch        |-> Cardinality({r \in Scanned : StartsEpoch(r)})]

-----------------------------------------------------------------------------
(* The environment. *)

Tick ==
    /\ day < MaxDay
    /\ day' = day + 1
    /\ UNCHANGED <<dbVars, chaining, toggles, altered, cleared, lock, pc, call, last, left>>

SetChaining ==
    /\ toggles < MaxToggles
    /\ toggles' = toggles + 1
    /\ chaining' = ~chaining
    /\ UNCHANGED <<dbVars, day, altered, cleared, lock, pc, call, last, left>>

(* Someone edits a column the hash covers; one row is enough. *)
AlterRow(r) ==
    /\ lock = {} /\ altered = {}
    /\ log' = (log \ {r}) \cup {[r EXCEPT !.text = "altered"]}
    /\ altered' = {r.id}
    /\ UNCHANGED <<nextId, backups, nextBackup, chaining, toggles, day, cleared,
                   lock, pc, call, last, left>>

Prepare(c) ==
    \/ LoadConfig(c) \/ PlanRestore(c) \/ RestoreDeclined(c)
    \/ \E k \in Categories :
          Execute(c, k) \/ ExecuteWithBackup(c, k) \/ RestoreFails(c, k) \/ Replay(c, k)

Write(c) == Stamp(c) \/ BeginTx(c) \/ ReadLast(c) \/ InsertRow(c) \/ Rollback(c)

Environment ==
    \/ \E over \in BOOLEAN : Cleanup(over)
    \/ \E r \in log : AlterRow(r)
    \/ Tick
    \/ SetChaining

Next ==
    \/ \E c \in Callers : Prepare(c) \/ Write(c) \/ Busy(c) \/ Crash(c)
    \/ Environment

Spec == Init /\ [][Next]_vars

(* A caller that has something to write goes on by itself.  Neither the    *)
(* timeout nor a crash is fair: waiting ends because the lock is given     *)
(* back.                                                                   *)
FairSpec == Spec /\ \A c \in Callers : WF_vars(Write(c))

-----------------------------------------------------------------------------
Ids == 1 .. nextId - 1

TypeOK ==
    /\ nextId \in Nat \ {0} /\ nextBackup \in Nat \ {0}
    /\ \A r \in log : r.id \in Ids /\ r.cat \in Categories /\ r.ts \in 0 .. day
                      /\ r.backup \in 0 .. nextBackup - 1
    /\ \A b \in backups : b.id \in 1 .. nextBackup - 1 /\ b.ts \in 0 .. day
    /\ lock \subseteq Callers
    /\ chaining \in BOOLEAN /\ toggles \in 0 .. MaxToggles /\ day \in 0 .. MaxDay
    /\ pc \in [Callers -> {"idle", "loaded", "prompt", "ran", "stamped", "begun",
                           "hashed", "done", "dead"}]
    /\ left \in [Callers -> 0 .. PlanSize]
    /\ altered \subseteq Ids /\ cleared \subseteq Ids

(***************************************************************************)
(* Whichever processes write and whatever retention deletes, the chain has *)
(* neither a fork nor a detour: a row that stores the hash of another row  *)
(* of the log follows it directly.                                         *)
(***************************************************************************)
ChainInOrder ==
    \A r, s \in log : r.hash # NoHash /\ s.prev = r.hash =>
        r.id < s.id /\ ~\E m \in log : r.id < m.id /\ m.id < s.id

(***************************************************************************)
(* A row edited behind the program's back is reported for as long as it is *)
(* in the log, whatever was pruned around it, if it was chained.           *)
(***************************************************************************)
AlterationReported ==
    \A r \in log : r.id \in altered /\ Chained(r) => ~verify_chain.ok

(***************************************************************************)
(* verify_chain reports a row only when something happened to it or to the *)
(* row before it: it was edited, its backup was deleted, or its            *)
(* predecessor was deleted from the middle of the chain.  Trimming the old *)
(* end, switching the chain on and off and concurrent writers are never    *)
(* reported.                                                               *)
(***************************************************************************)
ReportedForAReason ==
    \A r \in log : r.id \in verify_chain.broken_at =>
        \/ r.id \in altered \cup cleared
        \/ /\ r.prev \notin {m.hash : m \in log}
           /\ \E m \in log : m.id < r.id

(***************************************************************************)
(* What retention deleted leaves nothing dangling: a row refers to a       *)
(* backup that exists, also when the backup was deleted while the call     *)
(* that names it was waiting.                                              *)
(***************************************************************************)
LinksResolve == \A r \in log : r.backup \in BackupIds \cup {NoBackup}

(***************************************************************************)
(* A call that reached its audit write ends: no transaction keeps the lock *)
(* after a failed insert or a crash.                                       *)
(***************************************************************************)
WritersReturn == \A c \in Callers : pc[c] = "ran" ~> pc[c] \in {"done", "dead"}

=============================================================================
