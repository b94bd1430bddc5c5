--------------------------- MODULE AuditLogProofs ---------------------------
(***************************************************************************)
(* Proofs about AuditLog for any callers, categories and bounds.           *)
(*                                                                         *)
(* The chain has no fork because the hash a writer read is still the hash  *)
(* of the newest row when it inserts (LastInv), and that holds because     *)
(* nobody else changes the table while it is inside its transaction        *)
(* (HolderInv).  Links resolve because backup ids are never used again and *)
(* deleting a backup clears the references to it in the same step.  What   *)
(* verify_chain answers follows from what a hash still covers (HashInv)    *)
(* and from the order of the chain.                                        *)
(***************************************************************************)
EXTENDS AuditLog, WellFoundedInduction, TLAPS

Columns == {"id", "ts", "cat", "backup", "text", "prev", "hash"}

Locals ==
    [chained : BOOLEAN, replay : BOOLEAN, cat : Categories,
     backup : 0 .. nextBackup - 1, ts : 0 .. day]

Pending == {"ran", "stamped", "begun", "hashed"}

CallInv ==
    /\ call \in [Callers -> Locals]
    /\ DOMAIN last = Callers
    /\ \A c \in Callers : pc[c] \in Pending => left[c] > 0

RowInv ==
    \A r \in log :
        /\ DOMAIN r = Columns
        /\ r.hash = NoHash \/ r.hash.id = r.id
        /\ r.prev.id < r.id
        /\ \A s \in log : r.id = s.id => r = s

HolderInv ==
    /\ \A c \in Callers : c \in lock <=> pc[c] \in {"begun", "hashed"}
    /\ \A c, d \in lock : c = d

LastInv ==
    \A c \in Callers : pc[c] = "hashed" =>
        \/ last[c] = NoHash
        \/ \E r \in log : Newest(r) /\ last[c] = r.hash

(* What a chained row's hash still covers: the row as it was written, and  *)
(* as it is unless it was edited or lost its backup.                       *)
HashInv ==
    \A r \in log :
        /\ r.id \in altered => r.text = "altered"
        /\ Chained(r) => r.hash.text = "written"
        /\ Chained(r) /\ r.id \notin altered \cup cleared => r.hash = HashRow(r.prev, r)

IInv ==
    /\ TypeOK /\ CallInv /\ RowInv /\ HolderInv /\ LastInv /\ HashInv
    /\ ChainInOrder /\ LinksResolve

-----------------------------------------------------------------------------
LEMMA AnyCategoryIsOne == AnyCategory \in Categories
BY AuditAssumption DEF AnyCategory

LEMMA NoLocalsTyped == IInv => NoLocals \in Locals
BY AnyCategoryIsOne DEF IInv, TypeOK, NoLocals, Locals, NoBackup

LEMMA InitInv == Init => IInv
<1> SUFFICES ASSUME Init PROVE IInv
  OBVIOUS
<1> USE AuditAssumption DEF Init
<1>1. TypeOK
  BY DEF TypeOK
<1>2. CallInv
  BY AnyCategoryIsOne DEF CallInv, Locals, NoLocals, NoBackup, Pending
<1>3. RowInv /\ HolderInv /\ LastInv /\ HashInv /\ ChainInOrder /\ LinksResolve
  BY DEF RowInv, HolderInv, LastInv, HashInv, ChainInOrder, LinksResolve
<1>4. QED
  BY <1>1, <1>2, <1>3 DEF IInv

(***************************************************************************)
(* A step that leaves the tables, the clock and the lock alone and moves   *)
(* one caller outside its transaction.                                     *)
(***************************************************************************)
LEMMA LocalStep ==
    ASSUME IInv, NEW c \in Callers,
           UNCHANGED <<dbVars, envVars, lock, last>>,
           NEW l \in Locals, call' = [call EXCEPT ![c] = l],
           NEW n \in 0 .. PlanSize, left' = [left EXCEPT ![c] = n],
           NEW to \in {"loaded", "prompt", "ran", "stamped", "done"}, pc' = [pc EXCEPT ![c] = to],
           pc[c] \notin {"begun", "hashed"},
           to \in Pending => n > 0
    PROVE  IInv'
<1> USE DEF dbVars, envVars
<1>1. TypeOK'
  BY DEF IInv, TypeOK, Ids
<1>2. CallInv'
  BY DEF IInv, TypeOK, CallInv, Locals, Pending
<1>3. RowInv' /\ HashInv' /\ ChainInOrder' /\ LinksResolve'
  BY DEF IInv, RowInv, HashInv, Chained, HashRow, ChainInOrder, LinksResolve, BackupIds
<1>4. HolderInv'
  BY DEF IInv, TypeOK, HolderInv
<1>5. LastInv'
  BY DEF IInv, TypeOK, LastInv, Newest
<1>6. QED
  BY <1>1, <1>2, <1>3, <1>4, <1>5 DEF IInv

LEMMA PrepareInv == ASSUME IInv, NEW c \in Callers, Prepare(c) PROVE IInv'
<1> USE AuditAssumption
<1>0. call[c] \in Locals /\ left[c] \in 0 .. PlanSize /\ NoLocals \in Locals
      /\ left = [left EXCEPT ![c] = left[c]] /\ call = [call EXCEPT ![c] = call[c]]
  BY NoLocalsTyped DEF IInv, TypeOK, CallInv
<1>1. CASE LoadConfig(c)
  <2>1. [call[c] EXCEPT !.chained = chaining] \in Locals
    BY <1>0 DEF Locals, IInv, TypeOK
  <2>2. QED
    BY <1>0, <1>1, <2>1, LocalStep DEF LoadConfig, Goto, Pending
<1>2. CASE PlanRestore(c)
  <2>1. PICK b \in backups : call' = [call EXCEPT ![c].backup = b.id]
    BY <1>2 DEF PlanRestore
  <2>2. [call[c] EXCEPT !.backup = b.id] \in Locals
    BY <1>0 DEF Locals, IInv, TypeOK
  <2>3. QED
    BY <1>0, <1>2, <2>1, <2>2, LocalStep DEF PlanRestore, Goto, Pending
<1>3. CASE RestoreDeclined(c)
  BY <1>0, <1>3, LocalStep DEF RestoreDeclined, Goto, Pending
<1>4. ASSUME NEW k \in Categories, Execute(c, k) \/ RestoreFails(c, k) PROVE IInv'
  <2>1. [call[c] EXCEPT !.cat = k] \in Locals
    BY <1>0 DEF Locals
  <2>2. 1 \in 0 .. PlanSize
    OBVIOUS
  <2>3. QED
    BY <1>4, <2>1, <2>2, LocalStep DEF Execute, RestoreFails, Goto
<1>5. ASSUME NEW k \in Categories, Replay(c, k) PROVE IInv'
  <2>1. [call[c] EXCEPT !.cat = k, !.replay = TRUE] \in Locals
    BY <1>0 DEF Locals
  <2>2. PlanSize \in 0 .. PlanSize /\ PlanSize > 0
    OBVIOUS
  <2>3. QED
    BY <1>5, <2>1, <2>2, LocalStep DEF Replay, Goto
<1>6. ASSUME NEW k \in Categories, ExecuteWithBackup(c, k) PROVE IInv'
  <2> USE <1>6 DEF ExecuteWithBackup, Goto, envVars
  <2>1. TypeOK'
    BY DEF IInv, TypeOK, Ids
  <2>2. CallInv'
    <3>1. \A d \in Callers : call[d] \in Locals'
      BY DEF IInv, TypeOK, CallInv, Locals
    <3>2. [call[c] EXCEPT !.cat = k, !.backup = nextBackup] \in Locals'
      <4>1. nextBackup \in 0 .. nextBackup' - 1 /\ day' = day
        BY DEF IInv, TypeOK
      <4>2. call[c] \in Locals'
        BY <3>1
      <4>3. QED
        BY <4>1, <4>2 DEF Locals
    <3>3. call' \in [Callers -> Locals']
      BY <3>1, <3>2 DEF IInv, CallInv
    <3>4. QED
      BY <3>3 DEF IInv, TypeOK, CallInv, Pending
  <2>3. RowInv' /\ HashInv' /\ ChainInOrder'
    BY DEF IInv, RowInv, HashInv, Chained, HashRow, ChainInOrder
  <2>4. LinksResolve'
    BY DEF IInv, LinksResolve, BackupIds
  <2>5. HolderInv'
    BY DEF IInv, TypeOK, HolderInv
  <2>6. LastInv'
    BY DEF IInv, TypeOK, LastInv, Newest
  <2>7. QED
    BY <2>1, <2>2, <2>3, <2>4, <2>5, <2>6 DEF IInv
<1>7. QED
  BY <1>1, <1>2, <1>3, <1>4, <1>5, <1>6 DEF Prepare

(***************************************************************************)
(* Leaving a transaction, or giving up waiting for one.                    *)
(***************************************************************************)
LEMMA RowDoneTyped ==
    ASSUME IInv, NEW c \in Callers, pc[c] \in Pending, RowDone(c)
    PROVE  /\ pc' \in [Callers -> {"idle", "loaded", "prompt", "ran", "stamped", "begun",
                                   "hashed", "done", "dead"}]
           /\ pc'[c] \in {"ran", "done"}
           /\ \A d \in Callers \ {c} : pc'[d] = pc[d] /\ last'[d] = last[d]
           /\ left' \in [Callers -> 0 .. PlanSize]
           /\ call' \in [Callers -> Locals]
           /\ DOMAIN last' = Callers
           /\ \A d \in Callers : pc'[d] \in Pending => left'[d] > 0
<1> USE AuditAssumption DEF RowDone, Goto
<1>0. call[c] \in Locals /\ NoLocals \in Locals /\ left[c] \in 1 .. PlanSize
  BY NoLocalsTyped DEF IInv, TypeOK, CallInv
<1>1. [call[c] EXCEPT !.ts = 0] \in Locals /\ [NoLocals EXCEPT !.replay = call[c].replay] \in Locals
  BY <1>0 DEF Locals, IInv, TypeOK
<1>2. call' \in [Callers -> Locals]
  BY <1>1 DEF IInv, CallInv
<1>3. left' \in [Callers -> 0 .. PlanSize]
  BY <1>0 DEF IInv, TypeOK
<1>4. pc'[c] \in {"ran", "done"} /\ \A d \in Callers \ {c} : pc'[d] = pc[d] /\ last'[d] = last[d]
  BY DEF IInv, TypeOK, CallInv
<1>5. \A d \in Callers : pc'[d] \in Pending => left'[d] > 0
  BY <1>0 DEF IInv, TypeOK, CallInv, Pending
<1>6. QED
  BY <1>2, <1>3, <1>4, <1>5 DEF IInv, TypeOK, CallInv

LEMMA WriteInv == ASSUME IInv, NEW c \in Callers, Write(c) \/ Busy(c) PROVE IInv'
<1> USE AuditAssumption
<1>1. CASE Stamp(c)
  <2>1. [call[c] EXCEPT !.ts = day] \in Locals /\ left[c] \in 0 .. PlanSize /\ left[c] > 0
        /\ left = [left EXCEPT ![c] = left[c]]
    BY <1>1 DEF Stamp, Locals, IInv, TypeOK, CallInv, Pending
  <2>2. QED
    BY <1>1, <2>1, LocalStep DEF Stamp, Goto, Pending
<1>2. CASE BeginTx(c)
  <2> USE <1>2 DEF BeginTx, Goto, dbVars, envVars
  <2>1. TypeOK' /\ CallInv'
    BY DEF IInv, TypeOK, Ids, CallInv, Locals, Pending
  <2>2. RowInv' /\ HashInv' /\ ChainInOrder' /\ LinksResolve'
    BY DEF IInv, RowInv, HashInv, Chained, HashRow, ChainInOrder, LinksResolve, BackupIds
  <2>3. HolderInv'
    BY DEF IInv, TypeOK, HolderInv
  <2>4. LastInv'
    BY DEF IInv, TypeOK, LastInv, Newest
  <2>5. QED
    BY <2>1, <2>2, <2>3, <2>4 DEF IInv
<1>3. CASE Busy(c)
  <2> USE <1>3, RowDoneTyped DEF Busy, dbVars, envVars, Pending
  <2>1. TypeOK'
    BY DEF IInv, TypeOK, Ids
  <2>2. CallInv'
    BY DEF IInv, CallInv, Locals
  <2>3. RowInv' /\ HashInv' /\ ChainInOrder' /\ LinksResolve'
    BY DEF IInv, RowInv, HashInv, Chained, HashRow, ChainInOrder, LinksResolve, BackupIds
  <2>4. HolderInv'
    BY DEF IInv, TypeOK, HolderInv
  <2>5. LastInv'
    BY DEF IInv, TypeOK, LastInv, Newest
  <2>6. QED
    BY <2>1, <2>2, <2>3, <2>4, <2>5 DEF IInv
<1>4. CASE ReadLast(c)
  <2> USE <1>4 DEF ReadLast, Goto, dbVars, envVars
  <2>1. TypeOK' /\ CallInv'
    BY DEF IInv, TypeOK, Ids, CallInv, Locals, Pending
  <2>2. RowInv' /\ HashInv' /\ ChainInOrder' /\ LinksResolve'
    BY DEF IInv, RowInv, HashInv, Chained, HashRow, ChainInOrder, LinksResolve, BackupIds
  <2>3. HolderInv'
    BY DEF IInv, TypeOK, HolderInv
  <2>4. PICK h : /\ h = NoHash \/ \E r \in log : Newest(r) /\ h = r.hash
                 /\ last' = [last EXCEPT ![c] = h]
    BY DEF LastHash
  <2>5. LastInv'
    BY <2>4 DEF IInv, TypeOK, CallInv, LastInv, Newest
  <2>6. QED
    BY <2>1, <2>2, <2>3, <2>5 DEF IInv
<1>5. CASE InsertRow(c)
  <2> DEFINE new == NewRow(c)
  <2>1. /\ DOMAIN new = Columns
        /\ new.id = nextId /\ new.cat = call[c].cat /\ new.ts = call[c].ts
        /\ new.backup = call[c].backup /\ new.prev = last[c]
        /\ new.hash = NoHash \/ new.hash.id = nextId
        /\ Chained(new) => new.hash.text = "written" /\ new.hash = HashRow(new.prev, new)
    BY DEF NewRow, HashRow, Columns, Chained
  <2> HIDE DEF new
  <2>2. log' = log \cup {new} /\ nextId' = nextId + 1 /\ nextId \in Nat \ {0}
    BY <1>5 DEF InsertRow, new, IInv, TypeOK
  <2>3. pc[c] = "hashed" /\ lock = {c} /\ lock' = {} /\ call[c] \in Locals
        /\ UNCHANGED <<backups, nextBackup, envVars>>
    BY <1>5 DEF InsertRow, IInv, TypeOK, HolderInv, CallInv
  <2>4. \A r \in log : r.id < nextId /\ r.id \in Nat
    BY DEF IInv, TypeOK, Ids
  <2>5. new.prev.id < nextId /\ (new.prev = NoHash \/ \E r \in log : Newest(r) /\ new.prev = r.hash)
    BY <2>1, <2>2, <2>3, <2>4 DEF IInv, LastInv, RowInv, NoHash
  <2>6. TypeOK'
    <3>1. RowDone(c) /\ pc[c] \in Pending
      BY <1>5 DEF InsertRow, Pending
    <3>2. \A r \in log' : r.id \in Ids' /\ r.cat \in Categories /\ r.ts \in 0 .. day
                           /\ r.backup \in 0 .. nextBackup - 1
      BY <2>1, <2>2, <2>3 DEF IInv, TypeOK, Ids, Locals
    <3>3. QED
      BY <3>1, <3>2, <2>2, <2>3, RowDoneTyped DEF IInv, TypeOK, Ids, envVars
  <2>7. CallInv'
    BY <1>5, <2>3, RowDoneTyped DEF InsertRow, Pending, CallInv, Locals, envVars
  <2>8. RowInv'
    BY <2>1, <2>2, <2>4, <2>5 DEF IInv, RowInv
  <2>9. ChainInOrder'
    <3>1. SUFFICES ASSUME NEW r \in log', NEW s \in log', r.hash # NoHash, s.prev = r.hash
                   PROVE  r.id < s.id /\ ~\E m \in log' : r.id < m.id /\ m.id < s.id
      BY DEF ChainInOrder
    <3>2. r.hash.id = r.id /\ s.prev.id < s.id /\ r.id < s.id
      BY <3>1, <2>8 DEF RowInv
    <3>3. r \in log
      BY <3>2, <2>1, <2>2, <2>4
    <3>4. CASE s \in log
      BY <3>1, <3>2, <3>3, <3>4, <2>1, <2>2, <2>4 DEF IInv, ChainInOrder
    <3>5. CASE s = new
      <4>1. PICK q \in log : Newest(q) /\ new.prev = q.hash
        BY <3>1, <3>5, <2>5
      <4>2. q.id = r.id
        BY <3>1, <3>2, <3>5, <4>1 DEF IInv, RowInv
      <4>3. QED
        BY <3>2, <3>5, <4>1, <4>2, <2>1, <2>2, <2>4 DEF Newest
    <3>6. QED
      BY <3>4, <3>5, <2>2
  <2>10. LinksResolve'
    BY <1>5, <2>1, <2>2 DEF InsertRow, IInv, LinksResolve, BackupIds
  <2>11. \A d \in Callers : pc'[d] \notin {"begun", "hashed"}
    <3>1. \A d \in Callers \ {c} : pc'[d] = pc[d]
      BY <1>5, <2>3, RowDoneTyped DEF InsertRow, Pending
    <3>2. pc'[c] \in {"ran", "done"}
      BY <1>5, <2>3, RowDoneTyped DEF InsertRow, Pending
    <3>3. QED
      BY <3>1, <3>2, <2>3 DEF IInv, HolderInv
  <2>12. HolderInv' /\ LastInv'
    BY <2>3, <2>11 DEF HolderInv, LastInv
  <2>13. HashInv'
    <3>1. altered' = altered /\ cleared' = cleared /\ nextId \notin altered \cup cleared
      BY <2>3 DEF envVars, IInv, TypeOK, Ids
    <3>2. QED
      BY <2>1, <2>2, <3>1 DEF IInv, HashInv, Chained, HashRow
  <2>14. QED
    BY <2>6, <2>7, <2>8, <2>9, <2>10, <2>12, <2>13 DEF IInv
<1>6. CASE Rollback(c)
  <2> USE <1>6, RowDoneTyped DEF Rollback, dbVars, envVars, Pending
  <2>1. TypeOK'
    BY DEF IInv, TypeOK, Ids
  <2>2. CallInv'
    BY DEF IInv, CallInv, Locals
  <2>3. RowInv' /\ HashInv' /\ ChainInOrder' /\ LinksResolve'
    BY DEF IInv, RowInv, HashInv, Chained, HashRow, ChainInOrder, LinksResolve, BackupIds
  <2>4. HolderInv'
    BY DEF IInv, TypeOK, HolderInv
  <2>5. LastInv'
    BY DEF IInv, TypeOK, LastInv, Newest
  <2>6. QED
    BY <2>1, <2>2, <2>3, <2>4, <2>5 DEF IInv
<1>7. QED
  BY <1>1, <1>2, <1>3, <1>4, <1>5, <1>6 DEF Write

LEMMA CrashInv == ASSUME IInv, NEW c \in Callers, Crash(c) PROVE IInv'
<1> USE DEF Crash, Goto, dbVars, envVars
<1>1. TypeOK'
  BY AuditAssumption DEF IInv, TypeOK, Ids
<1>2. CallInv'
  BY NoLocalsTyped DEF IInv, TypeOK, CallInv, Locals, Pending
<1>3. RowInv' /\ HashInv' /\ ChainInOrder' /\ LinksResolve'
  BY DEF IInv, RowInv, HashInv, Chained, HashRow, ChainInOrder, LinksResolve, BackupIds
<1>4. HolderInv'
  BY DEF IInv, TypeOK, HolderInv
<1>5. LastInv'
  BY DEF IInv, TypeOK, CallInv, LastInv, Newest
<1>6. QED
  BY <1>1, <1>2, <1>3, <1>4, <1>5 DEF IInv

LEMMA CleanupInv == ASSUME IInv, NEW over \in BOOLEAN, Cleanup(over) PROVE IInv'
<1> DEFINE rows == Kept({r \in log : ~Expired(r.ts, Days[r.cat])}, over)
           kept == Kept({b \in backups : ~Expired(b.ts, BackupDays)}, over)
           gone == {b.id : b \in backups \ kept}
<1>1. /\ rows \subseteq log /\ kept \subseteq backups
  BY DEF Kept
<1> HIDE DEF rows, kept
<1>2. /\ lock = {} /\ backups' = kept /\ log' = {Unlink(r, gone) : r \in rows}
      /\ cleared' = cleared \cup {r.id : r \in {s \in rows : s.backup \in gone}}
      /\ UNCHANGED <<nextId, nextBackup, chaining, toggles, day, altered,
                     lock, pc, call, last, left>>
  BY DEF Cleanup, rows, kept
<1> HIDE DEF gone
<1>3. ASSUME NEW r \in log
      PROVE  LET u == Unlink(r, gone)
             IN  /\ DOMAIN u = Columns
                 /\ u.id = r.id /\ u.ts = r.ts /\ u.cat = r.cat
                 /\ u.prev = r.prev /\ u.hash = r.hash /\ u.text = r.text
                 /\ u.backup = IF r.backup \in gone THEN NoBackup ELSE r.backup
  BY DEF Unlink, IInv, RowInv, Columns
<1>4. \A u \in log' : \E r \in log : r \in rows /\ u = Unlink(r, gone)
  BY <1>1, <1>2
<1>5. TypeOK'
  <2>1. \A u \in log' : u.id \in Ids /\ u.cat \in Categories /\ u.ts \in 0 .. day
                         /\ u.backup \in 0 .. nextBackup - 1
    BY <1>3, <1>4 DEF IInv, TypeOK, NoBackup
  <2>2. cleared' \subseteq Ids
    BY <1>1, <1>2 DEF IInv, TypeOK
  <2>3. \A b \in backups' : b.id \in 1 .. nextBackup - 1 /\ b.ts \in 0 .. day
    BY <1>1, <1>2 DEF IInv, TypeOK
  <2>4. QED
    BY <1>2, <2>1, <2>2, <2>3 DEF IInv, TypeOK, Ids
<1>6. CallInv' /\ HolderInv'
  BY <1>2 DEF IInv, CallInv, HolderInv, Locals
<1>7. RowInv'
  <2>1. ASSUME NEW u \in log'
        PROVE  /\ DOMAIN u = Columns
               /\ u.hash = NoHash \/ u.hash.id = u.id
               /\ u.prev.id < u.id
    BY <1>3, <1>4 DEF IInv, RowInv
  <2>2. ASSUME NEW u \in log', NEW v \in log', u.id = v.id PROVE u = v
    <3>1. PICK r \in log, q \in log : u = Unlink(r, gone) /\ v = Unlink(q, gone)
      BY <1>4
    <3>2. r.id = q.id
      BY <1>3, <2>2, <3>1
    <3>3. r = q
      BY <3>2 DEF IInv, RowInv
    <3>4. QED
      BY <3>1, <3>3
  <2>3. QED
    BY <2>1, <2>2 DEF RowInv
<1>8. ChainInOrder'
  <2>1. SUFFICES ASSUME NEW u \in log', NEW v \in log', u.hash # NoHash, v.prev = u.hash,
                        NEW w \in log'
                 PROVE  u.id < v.id /\ ~(u.id < w.id /\ w.id < v.id)
    BY DEF ChainInOrder
  <2>2. PICK r \in log, q \in log, m \in log :
           u = Unlink(r, gone) /\ v = Unlink(q, gone) /\ w = Unlink(m, gone)
    BY <1>4
  <2>3. r.hash # NoHash /\ q.prev = r.hash /\ u.id = r.id /\ v.id = q.id /\ w.id = m.id
    BY <1>3, <2>1, <2>2
  <2>4. QED
    BY <2>3 DEF IInv, ChainInOrder
<1>9. LinksResolve'
  <2>1. SUFFICES ASSUME NEW u \in log' PROVE u.backup \in BackupIds' \cup {NoBackup}
    BY DEF LinksResolve
  <2>2. PICK r \in log : u = Unlink(r, gone)
    BY <1>4
  <2>3. CASE r.backup \in gone \/ r.backup = NoBackup
    BY <1>3, <2>2, <2>3
  <2>4. CASE r.backup \notin gone /\ r.backup # NoBackup
    <3>1. PICK b \in backups : b.id = r.backup
      BY <2>4 DEF IInv, LinksResolve, BackupIds
    <3>2. b \in kept
      BY <3>1, <2>4 DEF gone
    <3>3. QED
      BY <1>2, <1>3, <2>2, <2>4, <3>1, <3>2 DEF BackupIds
  <2>5. QED
    BY <2>3, <2>4
<1>10. LastInv'
  BY <1>2 DEF IInv, HolderInv, LastInv
<1>11. HashInv'
  <2>1. SUFFICES ASSUME NEW u \in log'
                 PROVE  /\ u.id \in altered => u.text = "altered"
                        /\ Chained(u) => u.hash.text = "written"
                        /\ Chained(u) /\ u.id \notin altered \cup cleared'
                             => u.hash = HashRow(u.prev, u)
    BY <1>2 DEF HashInv, Chained, HashRow
  <2>2. PICK r \in log : r \in rows /\ u = Unlink(r, gone)
    BY <1>4
  <2>3. u.id \notin cleared' => u.backup = r.backup /\ r.id \notin cleared
    BY <1>2, <1>3, <2>2
  <2>4. /\ u.id = r.id /\ u.ts = r.ts /\ u.cat = r.cat /\ u.text = r.text
        /\ u.prev = r.prev /\ u.hash = r.hash
    BY <1>3, <2>2
  <2>5. r.backup = u.backup => HashRow(r.prev, r) = HashRow(u.prev, u)
    BY <2>4 DEF HashRow
  <2>6. /\ r.id \in altered => r.text = "altered"
        /\ Chained(r) => r.hash.text = "written"
        /\ Chained(r) /\ r.id \notin altered \cup cleared => r.hash = HashRow(r.prev, r)
    BY DEF IInv, HashInv
  <2>7. QED
    BY <2>3, <2>4, <2>5, <2>6 DEF Chained
<1>12. QED
  BY <1>5, <1>6, <1>7, <1>8, <1>9, <1>10, <1>11 DEF IInv

LEMMA AlterRowInv == ASSUME IInv, NEW r \in log, AlterRow(r) PROVE IInv'
<1> DEFINE new == [r EXCEPT !.text = "altered"]
<1>1. /\ DOMAIN new = Columns /\ new.id = r.id /\ new.ts = r.ts /\ new.cat = r.cat
      /\ new.backup = r.backup /\ new.prev = r.prev /\ new.hash = r.hash
      /\ new.text = "altered"
  BY DEF IInv, RowInv, Columns
<1>2. /\ lock = {} /\ log' = (log \ {r}) \cup {new} /\ altered' = {r.id}
      /\ UNCHANGED <<nextId, backups, nextBackup, chaining, toggles, day, cleared,
                     lock, pc, call, last, left>>
  BY DEF AlterRow
<1> HIDE DEF new
<1>3. TypeOK'
  BY <1>1, <1>2 DEF IInv, TypeOK, Ids
<1>4. CallInv' /\ HolderInv'
  BY <1>2 DEF IInv, CallInv, HolderInv, Locals
<1>5. RowInv'
  BY <1>1, <1>2 DEF IInv, RowInv
<1>6. ChainInOrder'
  BY <1>1, <1>2 DEF IInv, ChainInOrder
<1>7. LinksResolve'
  BY <1>1, <1>2 DEF IInv, LinksResolve, BackupIds
<1>8. LastInv'
  BY <1>2 DEF IInv, HolderInv, LastInv
<1>9. HashInv'
  <2>1. \A u \in log' : u = new \/ (u \in log /\ u.id # r.id)
    BY <1>2 DEF IInv, RowInv
  <2>2. altered' = {r.id} /\ cleared' = cleared /\ altered = {}
    BY <1>2 DEF AlterRow
  <2>3. Chained(new) => new.hash.text = "written"
    BY <1>1 DEF IInv, HashInv, Chained
  <2>4. \A u \in log' : /\ u.id \in altered' => u.text = "altered"
                        /\ Chained(u) => u.hash.text = "written"
    BY <1>1, <2>1, <2>2, <2>3 DEF IInv, HashInv
  <2>5. \A u \in log' : Chained(u) /\ u.id \notin altered' \cup cleared'
                           => u.hash = HashRow(u.prev, u)
    BY <1>1, <2>1, <2>2 DEF IInv, HashInv
  <2>6. QED
    BY <2>4, <2>5 DEF HashInv, Chained, HashRow
<1>10. QED
  BY <1>3, <1>4, <1>5, <1>6, <1>7, <1>8, <1>9 DEF IInv

LEMMA StepInv == IInv /\ [Next]_vars => IInv'
<1> SUFFICES ASSUME IInv, [Next]_vars PROVE IInv'
  OBVIOUS
<1>1. ASSUME NEW c \in Callers, Prepare(c) \/ Write(c) \/ Busy(c) \/ Crash(c) PROVE IInv'
  BY <1>1, PrepareInv, WriteInv, CrashInv
<1>2. ASSUME NEW over \in BOOLEAN, Cleanup(over) PROVE IInv'
  BY <1>2, CleanupInv
<1>3. ASSUME NEW r \in log, AlterRow(r) PROVE IInv'
  BY <1>3, AlterRowInv
<1>4. CASE Tick \/ SetChaining
  <2> USE <1>4 DEF Tick, SetChaining, dbVars
  <2>1. TypeOK'
    <3>0. chaining' \in BOOLEAN
      BY Zenon DEF IInv, TypeOK
    <3>1. toggles' \in 0 .. MaxToggles /\ day' \in 0 .. MaxDay /\ 0 .. day \subseteq 0 .. day'
      BY AuditAssumption, SMT DEF IInv, TypeOK
    <3>2. \A r \in log : r.ts \in 0 .. day'
      BY <3>1 DEF IInv, TypeOK
    <3>3. \A b \in backups : b.ts \in 0 .. day'
      BY <3>1 DEF IInv, TypeOK
    <3>4. QED
      BY <3>0, <3>1, <3>2, <3>3 DEF IInv, TypeOK, Ids
  <2>2. CallInv'
    <3>1. Locals \subseteq Locals'
      BY DEF IInv, TypeOK, Locals
    <3>2. call \in [Callers -> Locals']
      BY <3>1 DEF IInv, CallInv
    <3>3. QED
      BY <3>2 DEF IInv, CallInv
  <2>3. RowInv' /\ HashInv' /\ HolderInv' /\ LastInv' /\ ChainInOrder' /\ LinksResolve'
    BY DEF IInv, RowInv, HashInv, Chained, HashRow, HolderInv, LastInv, Newest, ChainInOrder,
           LinksResolve, BackupIds
  <2>4. QED
    BY <2>1, <2>2, <2>3 DEF IInv
<1>5. CASE UNCHANGED vars
  <2> USE <1>5 DEF vars, dbVars, envVars
  <2>1. TypeOK' /\ CallInv' /\ RowInv' /\ HashInv'
    BY DEF IInv, TypeOK, Ids, CallInv, Locals, RowInv, HashInv, Chained, HashRow
  <2>2. HolderInv' /\ LastInv' /\ ChainInOrder' /\ LinksResolve'
    BY DEF IInv, HolderInv, LastInv, Newest, ChainInOrder, LinksResolve, BackupIds
  <2>3. QED
    BY <2>1, <2>2 DEF IInv
<1>6. QED
  BY <1>1, <1>2, <1>3, <1>4, <1>5 DEF Next, Environment

-----------------------------------------------------------------------------
(* The inductive invariant of the audit database. *)
THEOREM AuditInvariant == Spec => []IInv
BY InitInv, StepInv, PTL DEF Spec

(* Every row, backup and local of a call keeps its type. *)
THEOREM AuditTypeCorrect == Spec => []TypeOK
<1>1. IInv => TypeOK
  BY DEF IInv
<1>2. QED
  BY AuditInvariant, <1>1, PTL

(***************************************************************************)
(* However many processes write and whatever retention deletes, the hash   *)
(* chain has neither a fork nor a detour.                                  *)
(***************************************************************************)
THEOREM AuditChainInOrder == Spec => []ChainInOrder
<1>1. IInv => ChainInOrder
  BY DEF IInv
<1>2. QED
  BY AuditInvariant, <1>1, PTL

(***************************************************************************)
(* No row names a backup that retention deleted, also when the deletion    *)
(* fell between the call's read of the backup and its audit write.         *)
(***************************************************************************)
THEOREM AuditLinksResolve == Spec => []LinksResolve
<1>1. IInv => LinksResolve
  BY DEF IInv
<1>2. QED
  BY AuditInvariant, <1>1, PTL

(***************************************************************************)
(* The transactions exclude each other: one caller at a time is between    *)
(* BEGIN IMMEDIATE and COMMIT, and a caller that left its transaction by a *)
(* failed insert or a crash does not keep the lock.                        *)
(***************************************************************************)
THEOREM AuditLockExclusive == Spec => []HolderInv
<1>1. IInv => HolderInv
  BY DEF IInv
<1>2. QED
  BY AuditInvariant, <1>1, PTL

(***************************************************************************)
(* A row edited behind the program's back keeps the hash of what was       *)
(* written, so it is broken itself and verify_chain does not answer ok,    *)
(* whatever retention did around it.                                       *)
(***************************************************************************)
THEOREM AuditAlterationReported == Spec => []AlterationReported
<1>1. ASSUME IInv PROVE AlterationReported
  <2>1. SUFFICES ASSUME NEW r \in log, r.id \in altered, Chained(r) PROVE r \in Broken
    BY DEF AlterationReported, verify_chain
  <2>2. r.hash.text = "written" /\ r.text = "altered"
    BY <1>1, <2>1 DEF IInv, HashInv
  <2>3. r.hash # HashRow(r.prev, r)
    BY <2>2 DEF HashRow
  <2>4. QED
    BY <2>1, <2>3 DEF Broken, Mismatch
<1>2. QED
  BY AuditInvariant, <1>1, PTL

(***************************************************************************)
(* In an unbroken chain the row before a chained row is the one whose hash *)
(* it stores, so a link is reported only when that row is gone from the    *)
(* middle of the log; everything else that is reported was edited or lost  *)
(* its backup.                                                             *)
(***************************************************************************)
THEOREM AuditReportedForAReason == Spec => []ReportedForAReason
<1>1. ASSUME IInv PROVE ReportedForAReason
  <2>1. SUFFICES ASSUME NEW r \in log, r.id \in verify_chain.broken_at,
                        r.id \notin altered \cup cleared
                 PROVE  /\ r.prev \notin {m.hash : m \in log}
                        /\ \E m \in log : m.id < r.id
    BY DEF ReportedForAReason
  <2>2. PICK b \in Broken : b.id = r.id
    BY <2>1 DEF verify_chain
  <2>3. r = b /\ Chained(r) /\ Mismatch(r)
    BY <1>1, <2>2 DEF IInv, RowInv, Broken
  <2>4. r.hash = HashRow(r.prev, r)
    BY <1>1, <2>1, <2>3 DEF IInv, HashInv
  <2>5. PICK m \in log : r.prev # NoHash /\ Precedes(m, r) /\ m.hash # r.prev
    BY <2>3, <2>4 DEF Mismatch, Predecessors
  <2>6. ASSUME NEW q \in log, r.prev = q.hash PROVE FALSE
    <3>1. q.id < r.id /\ ~(q.id < m.id /\ m.id < r.id) /\ Speaks(q)
      BY <1>1, <2>5, <2>6 DEF IInv, ChainInOrder, Speaks, Chained
    <3>2. m.id < r.id /\ q.id <= m.id
      BY <2>5, <3>1 DEF Precedes
    <3>3. q.id = m.id
      BY <1>1, <3>1, <3>2 DEF IInv, TypeOK, Ids
    <3>4. QED
      BY <1>1, <2>5, <2>6, <3>3 DEF IInv, RowInv
  <2>7. QED
    BY <2>5, <2>6 DEF Precedes
<1>2. QED
  BY AuditInvariant, <1>1, PTL

(* verify_chain names one row, and does so whenever it does not answer ok. *)
ReportIsPrecise ==
    /\ verify_chain.ok <=> verify_chain.broken_at = {}
    /\ \A i, j \in verify_chain.broken_at : i = j

(***************************************************************************)
(* The report is precise: of the broken rows the scan meets the one of the *)
(* least id first, and it stops there.                                     *)
(***************************************************************************)
THEOREM AuditReportIsPrecise == Spec => []ReportIsPrecise
<1>1. ASSUME IInv PROVE ReportIsPrecise
  <2> DEFINE ids == {r.id : r \in Broken}
  <2>1. ids \subseteq Nat
    BY <1>1 DEF IInv, TypeOK, Ids, Broken
  <2>2. ASSUME ids # {} PROVE \E i \in ids : \A j \in ids : i <= j
    <3>1. PICK i \in ids : \A j \in ids : <<j, i>> \notin OpToRel(<, Nat)
      BY <2>1, <2>2, NatLessThanWellFounded, WFMin
    <3>2. \A j \in ids : ~(j < i)
      BY <2>1, <3>1 DEF OpToRel
    <3>3. \A j \in ids : i <= j
      BY <2>1, <3>2
    <3>4. QED
      BY <3>3
  <2>3. Broken # {} => verify_chain.broken_at # {}
    <3>1. \A r \in Broken : r.id \in ids
      OBVIOUS
    <3>2. ASSUME Broken # {} PROVE \E b \in Broken : \A m \in Broken : b.id <= m.id
      BY <2>2, <3>1, <3>2
    <3>3. QED
      BY <3>2 DEF verify_chain
  <2>4. \A i, j \in verify_chain.broken_at : i <= j /\ i \in Nat /\ j \in Nat
    BY <2>1 DEF verify_chain
  <2>5. Broken = {} => verify_chain.broken_at = {}
    BY DEF verify_chain
  <2>6. verify_chain.ok <=> Broken = {}
    BY DEF verify_chain
  <2>7. \A i, j \in verify_chain.broken_at : i = j
    BY <2>4
  <2>8. QED
    BY <2>3, <2>5, <2>6, <2>7 DEF ReportIsPrecise
<1>2. QED
  BY AuditInvariant, <1>1, PTL

=============================================================================
