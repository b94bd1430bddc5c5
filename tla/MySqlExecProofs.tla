---------------------------- MODULE MySqlExecProofs ----------------------------
(***************************************************************************)
(* Proofs about MySqlExec for any number of calls, tables, statements and  *)
(* writes of other sessions.                                               *)
(*                                                                         *)
(* CallInv(c) says what each place of the future implies of the connection *)
(* and of the journal; calls meet only in the tables.  A call that has a   *)
(* write pending holds the locks of its tables (ConnInv), so what the      *)
(* others do changes neither these tables nor the lock (Frame); a backup   *)
(* taken under these locks is therefore still the content that the COMMIT  *)
(* replaces (RowsInv).                                                     *)
(***************************************************************************)
EXTENDS MySqlExec, TLAPS

Early    == {"idle", "setup", "begin", "journal", "preflight", "arm", "capture", "send"}
InTxFrom == {"journal", "preflight", "arm", "capture", "send"}
Undoing  == {"rollback", "rolling"}
Ended    == {"returned", "audited", "done", "dead"}

(* The request a live connection may still have open. *)
Asked(c) ==
  \/ pc[c] = "begin"     /\ conn[c].req = "begin"
  \/ pc[c] = "preflight" /\ conn[c].req = "exists"
  \/ pc[c] = "capture"   /\ conn[c].req = "capture"
  \/ pc[c] = "exec"      /\ conn[c].req = "stmt"
  \/ pc[c] = "commit"    /\ conn[c].req = "commit"
  \/ pc[c] \notin Early \cup {"exec", "commit"}

(* Client and server ends; locks belong to the transaction of a write. *)
ConnInv(c) ==
  /\ ~conn[c].alive => conn[c].ans = "err"
  /\ conn[c].alive /\ conn[c].req # "none" => conn[c].ans = "wait"
  /\ conn[c].pend # {} =>
       /\ conn[c].tx /\ Text(c).cat = "write" /\ conn[c].pend = Text(c).targets
       /\ \A t \in conn[c].pend : lock[t] = c
  /\ \A t \in Tables : lock[t] = c => conn[c].tx /\ Text(c).cat = "write"

ReqInv(c) ==
  /\ pc[c] \in {"idle", "setup"} => 
       conn[c].alive /\ conn[c].req = "none" /\ conn[c].ans # "wait" /\ ~conn[c].tx
  /\ pc[c] \in Early => conn[c].req \in {"none", "begin", "exists", "capture"}
  /\ pc[c] \in {"exec"} \cup Undoing => conn[c].req # "commit"
  /\ pc[c] \in Early \ {"preflight"} => conn[c].req # "exists"
  /\ conn[c].req \in {"exists", "capture"} => local[c].todo # {}
  /\ conn[c].alive /\ conn[c].req # "none" => Asked(c)

(* The client knows whether it is in a transaction. *)
TxInv(c) ==
  /\ pc[c] \in {"idle", "setup", "begin"} => ~local[c].inTx
  /\ pc[c] = "begin" /\ conn[c].alive => (conn[c].tx <=> conn[c].ans = "ok")
  /\ pc[c] \in InTxFrom /\ conn[c].alive => (conn[c].tx <=> local[c].inTx)
  /\ pc[c] \in InTxFrom \cup Undoing \cup {"exec", "commit", "unrolling"}
       /\ Text(c).spec # "unneeded" => local[c].inTx
  /\ conn[c].req = "stmt" /\ Text(c).spec # "unneeded" => conn[c].tx
  /\ pc[c] \in {"exec", "commit"} /\ conn[c].alive /\ ~local[c].inTx => ~conn[c].tx
  /\ pc[c] = "commit" /\ conn[c].ans = "ok" => ~conn[c].tx

(* A write with a backup takes effect by its COMMIT only, and once. *)
EffectInv(c) ==
  /\ pc[c] \in Early => c \notin applied /\ before[c] = NoImages /\ conn[c].pend = {}
  /\ BackedUpWrite(c) =>
       /\ c \notin applied => before[c] = NoImages
       /\ c \in applied => /\ pc[c] \notin Early \cup Undoing \cup {"exec"}
                           /\ conn[c].pend = {} /\ conn[c].req # "stmt"
       /\ pc[c] = "exec" /\ conn[c].ans = "ok" => conn[c].pend = Text(c).targets
       /\ pc[c] = "commit" /\ conn[c].req = "commit" /\ conn[c].alive => conn[c].pend = Text(c).targets
       /\ pc[c] = "commit" /\ conn[c].ans = "ok" => c \in applied

JournalInv(c) ==
  /\ BackedUpWrite(c) =>
       /\ journal[c] = "failed" =>
            /\ c \notin applied /\ conn[c].req # "commit"
            /\ pc[c] \in Severing \cup Ended
       /\ journal[c] \in {"mutation_committed", "audit_finalized"} => c \in applied
  /\ journal[c] = "audit_finalized" => pc[c] \in {"done", "dead"} /\ row[c] = "approved"

(* The tables of a write with their rows locked and stored. *)
Held(c) == \A t \in Text(c).targets : lock[t] = c /\ content[t] = backup[c][t]

RowsInv(c) ==
  Text(c).cat = "write" /\ Text(c).spec = "rows" =>
    /\ \A t \in Tables \ Text(c).targets : backup[c][t] = None
    /\ pc[c] = "capture" /\ conn[c].alive =>
         /\ local[c].todo \subseteq Text(c).targets
         /\ \A t \in Text(c).targets \ local[c].todo : lock[t] = c /\ content[t] = backup[c][t]
         /\ conn[c].ans = "ok" /\ local[c].todo # {} =>
              LET t == First(local[c].todo) IN lock[t] = c /\ content[t] = conn[c].image
    /\ pc[c] = "send" /\ conn[c].alive => Held(c)
    /\ conn[c].req = "stmt" \/ conn[c].pend # {} => Held(c)
    /\ c \in applied => backup[c] = before[c]

(* What a DROP may be sent with. *)
DdlInv(c) ==
  /\ Text(c).cat \in {"write", "ddl"} => local[c].send # {}
  /\ Text(c).cat = "write" => local[c].send = Text(c).targets
  /\ pc[c] = "preflight" => Text(c).cat = "ddl" /\ local[c].todo \subseteq Text(c).targets
  /\ Text(c).cat = "ddl" =>
       /\ pc[c] \in Early \ {"arm", "capture", "send"} => local[c].send = Text(c).targets
       /\ pc[c] \in {"arm", "capture", "send"} \/ conn[c].req = "stmt" =>
            local[c].send \subseteq local[c].found /\ WithinPlan(c)
       /\ local[c].found \subseteq Text(c).targets
       /\ \A t \in Tables : before[c][t] # None =>
            t \in local[c].found /\ (Text(c).planned => t \in Text(c).plan)

(* A call that was killed has not answered before its connection is clean. *)
KilledInv(c) ==
  /\ pc[c] \in Preparing => timer[c] = "off"
  /\ local[c].err # "ok"
  /\ pc[c] \notin Ended => result[c] = "none"
  /\ result[c] = "timeout" /\ timer[c] = "killed" /\ conn[c].alive =>
       conn[c].req = "none" /\ ~conn[c].tx

CallInv(c) ==
  ConnInv(c) /\ ReqInv(c) /\ TxInv(c) /\ EffectInv(c) /\ JournalInv(c) /\ RowsInv(c)
  /\ DdlInv(c) /\ KilledInv(c)

IInv == TypeOK /\ \A c \in Calls : CallInv(c)

-----------------------------------------------------------------------------
(* What the helpers of the actions do.                                     *)

LEMMA GotoFacts ==
  ASSUME TypeOK, NEW c \in Calls, NEW to \in PcStates, Goto(c, to)
  PROVE  pc' \in [Calls -> PcStates] /\ pc'[c] = to /\ \A d \in Calls \ {c} : pc'[d] = pc[d]
BY DEF TypeOK, Goto

LEMMA ReturnFacts ==
  ASSUME TypeOK, NEW c \in Calls, NEW r \in Results, Return(c, r)
  PROVE  /\ pc' \in [Calls -> PcStates] /\ pc'[c] = "returned"
         /\ result' \in [Calls -> Results] /\ result'[c] = r
         /\ \A d \in Calls \ {c} : pc'[d] = pc[d] /\ result'[d] = result[d]
BY DEF TypeOK, Return, Goto, PcStates, Reporting

(* A request reaches a live connection only. *)
LEMMA SendFacts ==
  ASSUME TypeOK, NEW c \in Calls, NEW r \in Requests, Send(c, r)
  PROVE  /\ conn' \in [Calls -> Conns] /\ \A d \in Calls \ {c} : conn'[d] = conn[d]
         /\ conn'[c].alive = conn[c].alive /\ conn'[c].image = conn[c].image
         /\ conn'[c].tx = conn[c].tx /\ conn'[c].pend = conn[c].pend
         /\ conn[c].alive  => conn'[c].req = r /\ conn'[c].ans = "wait"
         /\ ~conn[c].alive => conn'[c].req = conn[c].req /\ conn'[c].ans = "err"
<1>1. conn \in [Calls -> Conns]
  BY DEF TypeOK
<1>2. QED
  BY <1>1 DEF Send, Conns, Answers

LEMMA SeverFacts ==
  ASSUME TypeOK, NEW c \in Calls, Sever(c)
  PROVE  /\ conn' \in [Calls -> Conns] /\ \A d \in Calls \ {c} : conn'[d] = conn[d]
         /\ ~conn'[c].alive /\ conn'[c].ans = "err"
         /\ conn'[c].image = conn[c].image /\ conn'[c].tx = conn[c].tx
         /\ conn'[c].pend = conn[c].pend /\ conn'[c].req = conn[c].req
<1>1. conn \in [Calls -> Conns]
  BY DEF TypeOK
<1>2. QED
  BY <1>1 DEF Sever, Conns, Answers

LEMMA ReplyFacts ==
  ASSUME TypeOK, NEW c \in Calls, NEW a \in Answers, NEW tx \in BOOLEAN, NEW pend \in SUBSET Tables,
         Reply(c, a, tx, pend)
  PROVE  /\ conn' \in [Calls -> Conns] /\ \A d \in Calls \ {c} : conn'[d] = conn[d]
         /\ conn'[c].alive = conn[c].alive /\ conn'[c].image = conn[c].image
         /\ conn'[c].tx = tx /\ conn'[c].pend = pend /\ conn'[c].req = "none"
         /\ conn[c].alive  => conn'[c].ans = a
         /\ ~conn[c].alive => conn'[c].ans = conn[c].ans
<1>1. conn \in [Calls -> Conns]
  BY DEF TypeOK
<1> DEFINE k == [conn[c] EXCEPT !.req = "none", !.tx = tx, !.pend = pend,
                                !.ans = IF conn[c].alive THEN a ELSE conn[c].ans]
<1>2. conn' = [conn EXCEPT ![c] = k]
  BY DEF Reply
<1>3. /\ k \in Conns /\ k.alive = conn[c].alive /\ k.image = conn[c].image /\ k.tx = tx
      /\ k.pend = pend /\ k.req = "none" /\ k.ans = IF conn[c].alive THEN a ELSE conn[c].ans
  BY <1>1 DEF Conns, Requests
<1> HIDE DEF k
<1>4. QED
  BY <1>1, <1>2, <1>3

LEMMA FoundFacts ==
  ASSUME TypeOK, NEW c \in Calls, NEW v \in Contents, Found(c, v)
  PROVE  /\ conn' \in [Calls -> Conns] /\ \A d \in Calls \ {c} : conn'[d] = conn[d]
         /\ conn'[c].alive = conn[c].alive /\ conn'[c].image = v
         /\ conn'[c].tx = conn[c].tx /\ conn'[c].pend = conn[c].pend /\ conn'[c].req = "none"
         /\ conn[c].alive  => conn'[c].ans = "ok"
         /\ ~conn[c].alive => conn'[c].ans = conn[c].ans
<1>1. conn \in [Calls -> Conns]
  BY DEF TypeOK
<1> DEFINE k == [conn[c] EXCEPT !.req = "none", !.image = v,
                                !.ans = IF conn[c].alive THEN "ok" ELSE conn[c].ans]
<1>2. conn' = [conn EXCEPT ![c] = k]
  BY DEF Found
<1>3. /\ k \in Conns /\ k.alive = conn[c].alive /\ k.image = v /\ k.tx = conn[c].tx
      /\ k.pend = conn[c].pend /\ k.req = "none" /\ k.ans = IF conn[c].alive THEN "ok" ELSE conn[c].ans
  BY <1>1 DEF Conns, Requests, Answers
<1> HIDE DEF k
<1>4. QED
  BY <1>1, <1>2, <1>3

(* A failed write of the audit database. *)
LEMMA FaultFacts ==
  ASSUME TypeOK, Fault \/ UNCHANGED faults PROVE faults' \in 0..MaxFaults
BY ExecAssumption DEF TypeOK, Fault

(* A row of the journal moves to the state asked for, or stays. *)
LEMMA JournalFacts ==
  ASSUME TypeOK, NEW c \in Calls, NEW s \in JournalStates, JournalTo(c, s)
  PROVE  /\ journal' \in [Calls -> JournalStates \cup {"none"}] /\ faults' \in 0..MaxFaults
         /\ \A d \in Calls \ {c} : journal'[d] = journal[d]
         /\ journal'[c] = journal[c] \/ (journal'[c] = s /\ <<journal[c], s>> \in Transitions)
<1>1. faults' \in 0..MaxFaults
  BY FaultFacts DEF JournalTo
<1>2. journal \in [Calls -> JournalStates \cup {"none"}]
  BY DEF TypeOK
<1>3. journal' = journal \/ (journal' = [journal EXCEPT ![c] = s] /\ <<journal[c], s>> \in Transitions)
  BY DEF JournalTo, Moved
<1>4. QED
  BY <1>1, <1>2, <1>3

(* Only a committed row is finalised. *)
LEMMA OnlyCommittedFinalised ==
  ASSUME NEW s, <<s, "audit_finalized">> \in Transitions PROVE s = "mutation_committed"
BY DEF Transitions

-----------------------------------------------------------------------------
(* What others do leaves a call's invariant alone.                         *)

Same(d) ==
  /\ stmt'[d] = stmt[d] /\ pc'[d] = pc[d] /\ timer'[d] = timer[d] /\ local'[d] = local[d]
  /\ result'[d] = result[d] /\ journal'[d] = journal[d] /\ backup'[d] = backup[d]
  /\ row'[d] = row[d] /\ conn'[d] = conn[d] /\ before'[d] = before[d]
  /\ (d \in applied') <=> (d \in applied)
  /\ \A t \in Tables : /\ (lock'[t] = d) <=> (lock[t] = d)
                       /\ lock[t] = d => content'[t] = content[t]

LEMMA Frame ==
  ASSUME TypeOK, NEW d \in Calls, CallInv(d), Same(d) PROVE CallInv(d)'
<1>1. stmt[d].targets \subseteq Tables
  BY ExecAssumption DEF TypeOK, StatementType
<1>2. ConnInv(d)'
  BY <1>1 DEF CallInv, Same, ConnInv, Text
<1>3. ReqInv(d)' /\ TxInv(d)'
  BY DEF CallInv, Same, ReqInv, Asked, TxInv, Text
<1>4. EffectInv(d)' /\ JournalInv(d)'
  BY DEF CallInv, Same, EffectInv, JournalInv, BackedUpWrite, Text
<1>5. RowsInv(d)'
  <2>1. Held(d) => Held(d)'
    BY <1>1 DEF Same, Held, Text
  <2>2. \A T \in SUBSET Tables : T # {} => First(T) \in T
    BY DEF First
  <2>3. QED
    BY <1>1, <2>1, <2>2 DEF CallInv, Same, RowsInv, Text
<1>6. DdlInv(d)' /\ KilledInv(d)'
  BY DEF CallInv, Same, DdlInv, KilledInv, WithinPlan, Text
<1>7. QED
  BY <1>2, <1>3, <1>4, <1>5, <1>6 DEF CallInv

-----------------------------------------------------------------------------
(* The steps of a call, by what they touch.                                *)

Own(c) ==
  \A d \in Calls \ {c} :
    /\ pc'[d] = pc[d] /\ timer'[d] = timer[d] /\ local'[d] = local[d] /\ result'[d] = result[d]
    /\ journal'[d] = journal[d] /\ backup'[d] = backup[d] /\ row'[d] = row[d] /\ conn'[d] = conn[d]

LEMMA ClientStep ==
  ASSUME IInv, NEW c \in Calls, UNCHANGED <<stmt, tableVars>>, Own(c), TypeOK', CallInv(c)'
  PROVE  IInv'
<1>1. \A d \in Calls \ {c} : Same(d)
  BY DEF Own, Same, tableVars
<1>2. \A d \in Calls \ {c} : CallInv(d)'
  BY <1>1, Frame DEF IInv
<1>3. QED
  BY <1>2 DEF IInv

(* What a statement may be. *)
LEMMA StatementFacts ==
  ASSUME TypeOK, NEW c \in Calls
  PROVE  /\ Text(c).cat \in Categories /\ Text(c).spec \in Specs
         /\ Text(c).targets \subseteq Tables
         /\ Text(c).cat \in {"write", "ddl"} => Text(c).targets # {}
         /\ Text(c).cat \notin {"write", "ddl"} => Text(c).spec = "unneeded"
         /\ Text(c).spec = "rows" => Text(c).cat = "write"
BY ExecAssumption DEF TypeOK, StatementType, Text

LEMMA StartInv == ASSUME IInv, NEW c \in Calls, Start(c) PROVE IInv'
<1> USE DEF Start, At
<1>1. /\ UNCHANGED <<local, conn, timer, stmt, journal, backup, row, faults, tableVars, envVars>>
      /\ pc[c] = "idle" /\ Text(c)' = Text(c)
  BY DEF Keep, env, auditVars, Text
<1>2. /\ pc' \in [Calls -> PcStates] /\ result' \in [Calls -> Results]
      /\ \A d \in Calls \ {c} : pc'[d] = pc[d] /\ result'[d] = result[d]
      /\ \/ pc'[c] = "returned" /\ result'[c] \in {"uncertain", "error"}
         \/ pc'[c] = "setup" /\ result'[c] = result[c]
  <2>1. CASE \E r \in {"uncertain", "error"} : Return(c, r)
    BY <2>1, ReturnFacts DEF IInv, Results
  <2>2. CASE Goto(c, "setup") /\ UNCHANGED result
    BY <2>2, GotoFacts DEF IInv, TypeOK, PcStates, Preparing
  <2>3. QED
    BY <2>1, <2>2
<1>3. TypeOK'
  BY <1>1, <1>2 DEF IInv, TypeOK, tableVars, envVars
<1>4. CallInv(c)
  BY DEF IInv
<1> HIDE DEF Start
<1>5. ConnInv(c)'
  BY <1>1, <1>2, <1>3, <1>4 DEF CallInv, ConnInv, tableVars
<1>6. ReqInv(c)'
  BY <1>1, <1>2, <1>3, <1>4 DEF CallInv, ReqInv, Asked, Early, Undoing, tableVars
<1>7. TxInv(c)'
  BY <1>1, <1>2, <1>3, <1>4 DEF CallInv, TxInv, InTxFrom, Undoing, tableVars
<1>8. EffectInv(c)'
  BY <1>1, <1>2, <1>3, <1>4 DEF CallInv, EffectInv, BackedUpWrite, Early, Undoing, tableVars
<1>9. JournalInv(c)'
  BY <1>1, <1>2, <1>3, <1>4 DEF CallInv, JournalInv, BackedUpWrite, Severing, Ended, tableVars
<1>10. RowsInv(c)'
  BY <1>1, <1>2, <1>3, <1>4 DEF CallInv, RowsInv, Held, tableVars
<1>11. DdlInv(c)'
  BY <1>1, <1>2, <1>3, <1>4 DEF CallInv, DdlInv, WithinPlan, Early, tableVars
<1>12. KilledInv(c)'
  BY <1>1, <1>2, <1>3, <1>4 DEF CallInv, KilledInv, Preparing, Ended, tableVars
<1>13. QED
  BY <1>1, <1>2, <1>3, <1>4, <1>5, <1>6, <1>7, <1>8, <1>9, <1>10, <1>11, <1>12, ClientStep DEF Own, CallInv

LEMMA SetUpInv == ASSUME IInv, NEW c \in Calls, SetUp(c) PROVE IInv'
<1> USE DEF SetUp, At
<1>1. /\ UNCHANGED <<timer, stmt, journal, backup, row, faults, tableVars, envVars>>
      /\ pc[c] = "setup" /\ Text(c)' = Text(c) /\ CallInv(c) /\ TypeOK /\ conn[c].alive /\ ~conn[c].tx
  BY DEF Keep, env, auditVars, Text, IInv, CallInv, ReqInv
<1>2. /\ pc' \in [Calls -> PcStates] /\ result' \in [Calls -> Results] /\ local' \in [Calls -> Locals]
      /\ conn' \in [Calls -> Conns]
      /\ \A d \in Calls \ {c} : /\ pc'[d] = pc[d] /\ result'[d] = result[d]
                                /\ local'[d] = local[d] /\ conn'[d] = conn[d]
      /\ local'[c].inTx = local[c].inTx /\ local'[c].todo = local[c].todo
      /\ local'[c].found = local[c].found /\ local'[c].send = local[c].send /\ local'[c].err = local[c].err
      /\ \/ pc'[c] = "returned" /\ result'[c] \in {"timeout", "error"} /\ conn' = conn
         \/ /\ pc'[c] = "journal" /\ result' = result /\ conn' = conn
            /\ Text(c).cat = "tx_ctrl"
         \/ /\ pc'[c] = "begin" /\ result' = result
            /\ conn'[c].req = "begin" /\ conn'[c].ans = "wait" /\ conn'[c].alive
            /\ conn'[c].tx = conn[c].tx /\ conn'[c].pend = conn[c].pend
  <2>0. TypeOK /\ local \in [Calls -> Locals] /\ result \in [Calls -> Results] /\ conn \in [Calls -> Conns]
    BY DEF IInv, TypeOK
  <2>1. CASE \E r \in {"timeout", "error"} : Return(c, r) /\ UNCHANGED <<local, conn>>
    BY <2>0, <2>1, ReturnFacts DEF Results
  <2>2. ASSUME NEW known \in BOOLEAN, local' = [local EXCEPT ![c].id = known]
        PROVE  /\ local' \in [Calls -> Locals] /\ \A d \in Calls \ {c} : local'[d] = local[d]
               /\ local'[c].inTx = local[c].inTx /\ local'[c].todo = local[c].todo
               /\ local'[c].found = local[c].found /\ local'[c].send = local[c].send /\ local'[c].err = local[c].err
    BY <2>0, <2>2 DEF Locals
  <2>3. Goto(c, "journal") \/ Goto(c, "begin") =>
          pc' \in [Calls -> PcStates] /\ \A d \in Calls \ {c} : pc'[d] = pc[d]
    BY <2>0, GotoFacts DEF PcStates, Preparing
  <2>4. (Goto(c, "journal") => pc'[c] = "journal") /\ (Goto(c, "begin") => pc'[c] = "begin")
    BY <2>0, GotoFacts DEF PcStates, Preparing
  <2>5. "begin" \in Requests
    BY DEF Requests
  <2>6. QED
    BY <1>1, <2>0, <2>1, <2>2, <2>3, <2>4, <2>5, SendFacts
<1>3. TypeOK'
  BY <1>1, <1>2 DEF IInv, TypeOK, tableVars, envVars
<1> HIDE DEF SetUp
<1>4. ConnInv(c)'
  BY <1>1, <1>2, <1>3, StatementFacts DEF CallInv, ConnInv, tableVars
<1>5. ReqInv(c)'
  BY <1>1, <1>2, <1>3, StatementFacts DEF CallInv, ReqInv, Asked, Early, Undoing, tableVars
<1>6. TxInv(c)'
  BY <1>1, <1>2, <1>3, StatementFacts DEF CallInv, TxInv, InTxFrom, Undoing, tableVars
<1>7. EffectInv(c)'
  BY <1>1, <1>2, <1>3, StatementFacts DEF CallInv, EffectInv, BackedUpWrite, Early, Undoing, tableVars
<1>8. JournalInv(c)'
  BY <1>1, <1>2, <1>3, StatementFacts DEF CallInv, JournalInv, BackedUpWrite, Severing, Ended, tableVars
<1>9. RowsInv(c)'
  BY <1>1, <1>2, <1>3, StatementFacts DEF CallInv, RowsInv, Held, tableVars
<1>10. DdlInv(c)'
  BY <1>1, <1>2, <1>3, StatementFacts DEF CallInv, DdlInv, WithinPlan, Early, tableVars
<1>11. KilledInv(c)'
  BY <1>1, <1>2, <1>3, StatementFacts DEF CallInv, KilledInv, Preparing, Ended, tableVars
<1>12. QED
  BY <1>1, <1>2, <1>3, StatementFacts, <1>4, <1>5, <1>6, <1>7, <1>8, <1>9, <1>10, <1>11, ClientStep DEF Own, CallInv

LEMMA BeginInv == ASSUME IInv, NEW c \in Calls, Begin(c) PROVE IInv'
<1> USE DEF Begin, At
<1>1. /\ UNCHANGED <<conn, timer, stmt, journal, backup, row, faults, tableVars, envVars>>
      /\ pc[c] = "begin" /\ Text(c)' = Text(c) /\ CallInv(c) /\ TypeOK
  BY DEF Keep, env, auditVars, Text, IInv
<1>2. /\ pc' \in [Calls -> PcStates] /\ result' \in [Calls -> Results] /\ local' \in [Calls -> Locals]
      /\ \A d \in Calls \ {c} : pc'[d] = pc[d] /\ result'[d] = result[d] /\ local'[d] = local[d]
      /\ local'[c].todo = local[c].todo
      /\ local'[c].found = local[c].found /\ local'[c].send = local[c].send /\ local'[c].err = local[c].err
      /\ \/ pc'[c] = "journal" /\ result' = result /\ conn[c].ans = "ok" /\ local'[c].inTx
         \/ pc'[c] = "returned" /\ result'[c] \in {"uncertain", "error"} /\ local' = local
         \/ /\ pc'[c] = "journal" /\ result' = result /\ conn[c].ans = "err"
            /\ Text(c).spec = "unneeded" /\ local' = local
  <2>0. TypeOK /\ local \in [Calls -> Locals] /\ result \in [Calls -> Results]
    BY DEF IInv, TypeOK
  <2>1. Goto(c, "journal") =>
          pc' \in [Calls -> PcStates] /\ pc'[c] = "journal" /\ \A d \in Calls \ {c} : pc'[d] = pc[d]
    BY <2>0, GotoFacts DEF PcStates, Preparing
  <2>2. CASE Answered(c, "ok") /\ Goto(c, "journal") /\ local' = [local EXCEPT ![c].inTx = TRUE]
             /\ UNCHANGED result
    BY <2>0, <2>1, <2>2 DEF Locals, Answered
  <2>3. CASE Answered(c, "err") /\ BeginRefused(c) /\ UNCHANGED local
    BY <2>0, <2>1, <2>3, ReturnFacts DEF BeginRefused, Answered, Results
  <2>4. QED
    BY <2>2, <2>3
<1>3. TypeOK'
  BY <1>1, <1>2 DEF IInv, TypeOK, tableVars, envVars
<1>4. (conn[c].ans = "ok" => conn[c].alive) /\ (conn[c].alive /\ conn[c].ans # "wait" => conn[c].req = "none")
  BY <1>1 DEF CallInv, ConnInv
<1> HIDE DEF Begin
<1>5. ConnInv(c)'
  BY <1>1, <1>2, <1>3, <1>4, StatementFacts DEF CallInv, ConnInv, tableVars
<1>6. ReqInv(c)'
  BY <1>1, <1>2, <1>3, <1>4, StatementFacts DEF CallInv, ReqInv, Asked, Early, Undoing, tableVars
<1>7. TxInv(c)'
  BY <1>1, <1>2, <1>3, <1>4, StatementFacts DEF CallInv, TxInv, InTxFrom, Undoing, tableVars
<1>8. EffectInv(c)'
  BY <1>1, <1>2, <1>3, <1>4, StatementFacts DEF CallInv, EffectInv, BackedUpWrite, Early, Undoing, tableVars
<1>9. JournalInv(c)'
  BY <1>1, <1>2, <1>3, <1>4, StatementFacts DEF CallInv, JournalInv, BackedUpWrite, Severing, Ended, tableVars
<1>10. RowsInv(c)'
  BY <1>1, <1>2, <1>3, <1>4, StatementFacts DEF CallInv, RowsInv, Held, tableVars
<1>11. DdlInv(c)'
  BY <1>1, <1>2, <1>3, <1>4, StatementFacts DEF CallInv, DdlInv, WithinPlan, Early, tableVars
<1>12. KilledInv(c)'
  BY <1>1, <1>2, <1>3, <1>4, StatementFacts DEF CallInv, KilledInv, Preparing, Ended, tableVars
<1>13. QED
  BY <1>1, <1>2, <1>3, <1>4, StatementFacts, <1>5, <1>6, <1>7, <1>8, <1>9, <1>10, <1>11, <1>12, ClientStep DEF Own, CallInv

LEMMA OpenJournalInv == ASSUME IInv, NEW c \in Calls, OpenJournal(c) PROVE IInv'
<1> USE DEF OpenJournal, At
<1>1. /\ UNCHANGED <<timer, stmt, result, backup, row, tableVars, envVars>>
      /\ pc[c] = "journal" /\ Text(c)' = Text(c) /\ CallInv(c) /\ TypeOK
  BY DEF env, Text, IInv
<1>2. /\ journal' \in [Calls -> JournalStates \cup {"none"}] /\ faults' \in 0..MaxFaults
      /\ \A d \in Calls \ {c} : journal'[d] = journal[d]
      /\ journal'[c] \in {journal[c], "planned"}
  BY FaultFacts DEF IInv, TypeOK, JournalStates
<1>3. /\ pc' \in [Calls -> PcStates] /\ local' \in [Calls -> Locals] /\ conn' \in [Calls -> Conns]
      /\ \A d \in Calls \ {c} : pc'[d] = pc[d] /\ local'[d] = local[d] /\ conn'[d] = conn[d]
      /\ local'[c].inTx = local[c].inTx
      /\ local'[c].found = local[c].found /\ local'[c].send = local[c].send /\ local'[c].err = local[c].err
      /\ conn'[c].alive = conn[c].alive /\ conn'[c].tx = conn[c].tx /\ conn'[c].pend = conn[c].pend
      /\ \/ /\ pc'[c] = "preflight" /\ Text(c).cat = "ddl" /\ local'[c].todo = Text(c).targets
            /\ conn[c].alive => conn'[c].req = "exists" /\ conn'[c].ans = "wait"
            /\ ~conn[c].alive => conn'[c].req = conn[c].req /\ conn'[c].ans = "err"
         \/ /\ pc'[c] = "arm" /\ Text(c).cat # "ddl" /\ local' = local /\ conn' = conn
  <2>0. TypeOK /\ local \in [Calls -> Locals] /\ conn \in [Calls -> Conns]
    BY DEF IInv, TypeOK
  <2>1. \A to \in {"preflight", "arm"} : Goto(c, to) =>
          pc' \in [Calls -> PcStates] /\ pc'[c] = to /\ \A d \in Calls \ {c} : pc'[d] = pc[d]
    BY <2>0, GotoFacts DEF PcStates, Preparing
  <2>2. CASE Text(c).cat = "ddl"
    <3>1. local' = [local EXCEPT ![c].todo = Text(c).targets] /\ Send(c, "exists") /\ Goto(c, "preflight")
      BY <2>2
    <3>2. "exists" \in Requests
      BY DEF Requests
    <3>3. /\ local' \in [Calls -> Locals] /\ \A d \in Calls \ {c} : local'[d] = local[d]
          /\ local'[c].inTx = local[c].inTx /\ local'[c].todo = Text(c).targets
          /\ local'[c].found = local[c].found /\ local'[c].send = local[c].send /\ local'[c].err = local[c].err
      BY <2>0, <3>1, StatementFacts DEF Locals
    <3>4. QED
      BY <2>0, <2>1, <2>2, <3>1, <3>2, <3>3, SendFacts
  <2>3. CASE Text(c).cat # "ddl"
    BY <2>0, <2>1, <2>3
  <2>4. QED
    BY <2>2, <2>3
<1>4. TypeOK'
  BY <1>1, <1>2, <1>3 DEF IInv, TypeOK, tableVars, envVars
<1> HIDE DEF OpenJournal
<1>5. ConnInv(c)'
  BY <1>1, <1>2, <1>3, <1>4, StatementFacts DEF CallInv, ConnInv, tableVars
<1>6. ReqInv(c)'
  BY <1>1, <1>2, <1>3, <1>4, StatementFacts DEF CallInv, ReqInv, Asked, Early, Undoing, tableVars
<1>7. TxInv(c)'
  BY <1>1, <1>2, <1>3, <1>4, StatementFacts DEF CallInv, TxInv, InTxFrom, Undoing, tableVars
<1>8. EffectInv(c)'
  BY <1>1, <1>2, <1>3, <1>4, StatementFacts DEF CallInv, EffectInv, BackedUpWrite, Early, Undoing, tableVars
<1>9. JournalInv(c)'
  BY <1>1, <1>2, <1>3, <1>4, StatementFacts DEF CallInv, JournalInv, BackedUpWrite, Severing, Ended, tableVars
<1>10. RowsInv(c)'
  BY <1>1, <1>2, <1>3, <1>4, StatementFacts DEF CallInv, RowsInv, Held, tableVars
<1>11. DdlInv(c)'
  BY <1>1, <1>2, <1>3, <1>4, StatementFacts DEF CallInv, DdlInv, WithinPlan, Early, tableVars
<1>12. KilledInv(c)'
  BY <1>1, <1>2, <1>3, <1>4, StatementFacts DEF CallInv, KilledInv, Preparing, Ended, tableVars
<1>13. QED
  BY <1>1, <1>2, <1>3, <1>4, StatementFacts, <1>5, <1>6, <1>7, <1>8, <1>9, <1>10, <1>11, <1>12, ClientStep DEF Own, CallInv

(* The first target that is still to be looked at. *)
LEMMA FirstIn == ASSUME NEW T, T # {} PROVE First(T) \in T
BY DEF First

(* A statement that is not sent: its journal row fails, the call returns. *)
LEMMA NotFoundInv ==
  ASSUME IInv, NEW c \in Calls, NEW r \in {"error", "noop"}, pc[c] = "preflight", NotFound(c, r),
         UNCHANGED <<env, timer, backup, row, tableVars>>
  PROVE  IInv'
<1> USE DEF NotFound
<1>1. /\ UNCHANGED <<local, conn, timer, stmt, backup, row, tableVars, envVars>>
      /\ Text(c)' = Text(c) /\ CallInv(c) /\ TypeOK
  BY DEF env, Text, IInv
<1>2. /\ pc' \in [Calls -> PcStates] /\ result' \in [Calls -> Results] /\ faults' \in 0..MaxFaults
      /\ journal' \in [Calls -> JournalStates \cup {"none"}]
      /\ \A d \in Calls \ {c} : pc'[d] = pc[d] /\ result'[d] = result[d] /\ journal'[d] = journal[d]
      /\ pc'[c] = "returned" /\ result'[c] \in {"error", "noop"} /\ journal'[c] \in {journal[c], "failed"}
  BY ReturnFacts, JournalFacts DEF IInv, Results, JournalStates
<1>3. TypeOK'
  BY <1>1, <1>2 DEF IInv, TypeOK, tableVars, envVars
<1>4. Text(c).cat = "ddl"
  BY <1>1 DEF CallInv, DdlInv
<1> HIDE DEF NotFound
<1>5. ConnInv(c)'
  BY <1>1, <1>2, <1>3, <1>4 DEF CallInv, ConnInv, tableVars
<1>6. ReqInv(c)'
  BY <1>1, <1>2, <1>3, <1>4 DEF CallInv, ReqInv, Asked, Early, Undoing, tableVars
<1>7. TxInv(c)'
  BY <1>1, <1>2, <1>3, <1>4 DEF CallInv, TxInv, InTxFrom, Undoing, tableVars
<1>8. EffectInv(c)'
  BY <1>1, <1>2, <1>3, <1>4 DEF CallInv, EffectInv, BackedUpWrite, Early, Undoing, tableVars
<1>9. JournalInv(c)'
  BY <1>1, <1>2, <1>3, <1>4 DEF CallInv, JournalInv, BackedUpWrite, Severing, Ended, tableVars
<1>10. RowsInv(c)'
  BY <1>1, <1>2, <1>3, <1>4 DEF CallInv, RowsInv, Held, tableVars
<1>11. DdlInv(c)'
  BY <1>1, <1>2, <1>3, <1>4 DEF CallInv, DdlInv, WithinPlan, Early, tableVars
<1>12. KilledInv(c)'
  BY <1>1, <1>2, <1>3, <1>4 DEF CallInv, KilledInv, Preparing, Ended, tableVars
<1>13. QED
  BY <1>1, <1>2, <1>3, <1>4, <1>5, <1>6, <1>7, <1>8, <1>9, <1>10, <1>11, <1>12, ClientStep DEF Own, CallInv

LEMMA PreflightAskInv == ASSUME IInv, NEW c \in Calls, PreflightAsk(c) PROVE IInv'
<1> USE DEF PreflightAsk, At
<1>1. /\ UNCHANGED <<timer, stmt, backup, row, tableVars, envVars>>
      /\ pc[c] = "preflight" /\ local[c].todo # {} /\ Text(c)' = Text(c) /\ CallInv(c) /\ TypeOK
  BY DEF env, Text, IInv
<1>2. CASE Answered(c, "err") /\ NotFound(c, "error")
  BY <1>1, <1>2, NotFoundInv DEF env
<1>3. CASE ~(Answered(c, "err") /\ NotFound(c, "error"))
  <2> DEFINE t == First(local[c].todo)
  <2>1. UNCHANGED <<pc, result, journal, faults>> /\ conn[c].ans = "ok" /\ t \in local[c].todo
    BY <1>1, <1>3, FirstIn DEF Answered
  <2>2. TypeOK /\ local \in [Calls -> Locals] /\ local[c].todo \in SUBSET Tables /\ local[c].found \in SUBSET Tables
        /\ "exists" \in Requests
    BY DEF IInv, TypeOK, Locals, Requests
  <2>3. /\ local' = [local EXCEPT ![c].todo = local[c].todo \ {t},
              ![c].found = IF conn[c].image # Absent THEN local[c].found \cup {t} ELSE local[c].found]
        /\ IF local[c].todo = {t} THEN UNCHANGED conn ELSE Send(c, "exists")
    BY <1>3
  <2> HIDE DEF PreflightAsk, t
  <2>4. /\ local' \in [Calls -> Locals] /\ \A d \in Calls \ {c} : local'[d] = local[d]
        /\ local'[c].inTx = local[c].inTx /\ local'[c].send = local[c].send
        /\ local'[c].err = local[c].err
        /\ local'[c].todo = local[c].todo \ {t}
        /\ local[c].found \subseteq local'[c].found /\ local'[c].found \subseteq local[c].found \cup {t}
    BY <2>1, <2>2, <2>3 DEF Locals
  <2>5. /\ conn' \in [Calls -> Conns] /\ \A d \in Calls \ {c} : conn'[d] = conn[d]
        /\ conn[c].alive /\ conn'[c].alive /\ conn'[c].tx = conn[c].tx /\ conn'[c].pend = conn[c].pend
        /\ \/ conn' = conn /\ conn[c].req = "none"
           \/ conn'[c].req = "exists" /\ conn'[c].ans = "wait" /\ local'[c].todo # {}
    <3>1. conn[c].alive /\ conn[c].req = "none" /\ conn \in [Calls -> Conns]
      BY <1>1, <2>1 DEF CallInv, ConnInv, IInv, TypeOK
    <3>2. CASE local[c].todo = {t}
      BY <2>3, <3>1, <3>2
    <3>3. CASE local[c].todo # {t}
      <4>1. local'[c].todo # {}
        BY <2>1, <2>4, <3>3
      <4>2. Send(c, "exists")
        BY <2>3, <3>3
      <4>3. QED
        BY <2>2, <3>1, <4>1, <4>2, SendFacts
    <3>4. QED
      BY <3>2, <3>3
  <2>6. TypeOK'
    BY <1>1, <2>1, <2>4, <2>5 DEF IInv, TypeOK, tableVars, envVars
  <2>7. local'[c].found \subseteq Text(c).targets /\ local'[c].todo \subseteq Text(c).targets
    BY <1>1, <2>1, <2>4 DEF CallInv, DdlInv
  <2>8. ConnInv(c)'
    BY <1>1, <2>1, <2>4, <2>5, <2>6, <2>7, StatementFacts DEF CallInv, ConnInv, tableVars
  <2>9. ReqInv(c)'
    BY <1>1, <2>1, <2>4, <2>5, <2>6, <2>7, StatementFacts DEF CallInv, ReqInv, Asked, Early, Undoing, tableVars
  <2>10. TxInv(c)'
    BY <1>1, <2>1, <2>4, <2>5, <2>6, <2>7, StatementFacts DEF CallInv, TxInv, InTxFrom, Undoing, tableVars
  <2>11. EffectInv(c)'
    BY <1>1, <2>1, <2>4, <2>5, <2>6, <2>7, StatementFacts DEF CallInv, EffectInv, BackedUpWrite, Early, Undoing, tableVars
  <2>12. JournalInv(c)'
    BY <1>1, <2>1, <2>4, <2>5, <2>6, <2>7, StatementFacts DEF CallInv, JournalInv, BackedUpWrite, Severing, Ended, tableVars
  <2>13. RowsInv(c)'
    BY <1>1, <2>1, <2>4, <2>5, <2>6, <2>7, StatementFacts DEF CallInv, RowsInv, Held, tableVars
  <2>14. DdlInv(c)'
    BY <1>1, <2>1, <2>4, <2>5, <2>6, <2>7, StatementFacts DEF CallInv, DdlInv, WithinPlan, Early, tableVars
  <2>15. KilledInv(c)'
    BY <1>1, <2>1, <2>4, <2>5, <2>6, <2>7, StatementFacts DEF CallInv, KilledInv, Preparing, Ended, tableVars
  <2>16. QED
    BY <1>1, <2>1, <2>4, <2>5, <2>6, <2>7, StatementFacts, <2>8, <2>9, <2>10, <2>11, <2>12, <2>13, <2>14, <2>15, ClientStep DEF Own, CallInv
<1>4. QED
  BY <1>2, <1>3

LEMMA PreflightDoneInv == ASSUME IInv, NEW c \in Calls, PreflightDone(c) PROVE IInv'
<1> USE DEF PreflightDone, At
<1>1. /\ UNCHANGED <<conn, timer, stmt, backup, row, tableVars, envVars>>
      /\ pc[c] = "preflight" /\ local[c].todo = {} /\ Text(c)' = Text(c) /\ CallInv(c) /\ TypeOK
  BY DEF env, Text, IInv
<1>2. CASE NotFound(c, "error") \/ NotFound(c, "noop")
  BY <1>1, <1>2, NotFoundInv DEF env
<1>3. CASE ~(NotFound(c, "error") \/ NotFound(c, "noop"))
  <2>1. /\ UNCHANGED <<result, journal, faults>> /\ Goto(c, "arm") /\ WithinPlan(c)
        /\ \/ local' = local /\ Text(c).targets \ local[c].found = {}
           \/ local' = [local EXCEPT ![c].send = local[c].found] /\ local[c].found # {}
    BY <1>3 DEF Subset
  <2>2. /\ pc' \in [Calls -> PcStates] /\ pc'[c] = "arm" /\ \A d \in Calls \ {c} : pc'[d] = pc[d]
    BY <1>1, <2>1, GotoFacts DEF PcStates, Preparing
  <2>3. /\ Text(c).cat = "ddl" /\ local[c].found \subseteq Text(c).targets /\ local[c].send = Text(c).targets
    BY <1>1 DEF CallInv, DdlInv, Early
  <2>4. /\ local' \in [Calls -> Locals] /\ \A d \in Calls \ {c} : local'[d] = local[d]
        /\ local'[c].inTx = local[c].inTx /\ local'[c].todo = local[c].todo
        /\ local'[c].found = local[c].found /\ local'[c].err = local[c].err
        /\ local'[c].send \subseteq local[c].found /\ local'[c].send # {}
    <3>1. local \in [Calls -> Locals] /\ local[c].found \in SUBSET Tables /\ Text(c).targets # {}
      BY <1>1, <2>3, StatementFacts DEF TypeOK, Locals
    <3>2. CASE local' = local /\ Text(c).targets \ local[c].found = {}
      BY <2>3, <3>1, <3>2
    <3>3. CASE local' = [local EXCEPT ![c].send = local[c].found] /\ local[c].found # {}
      BY <3>1, <3>3 DEF Locals
    <3>4. QED
      BY <2>1, <3>2, <3>3
  <2>5. TypeOK'
    BY <1>1, <2>1, <2>2, <2>4 DEF TypeOK, tableVars, envVars
  <2>6. conn[c].req # "exists" /\ (conn[c].alive => conn[c].req = "none") /\ WithinPlan(c)'
    BY <1>1, <2>1, <2>4 DEF CallInv, ReqInv, Asked, Early, WithinPlan
  <2> HIDE DEF PreflightDone
  <2>7. ConnInv(c)'
    BY <1>1, <2>1, <2>2, <2>3, <2>4, <2>5, <2>6 DEF CallInv, ConnInv, tableVars
  <2>8. ReqInv(c)'
    BY <1>1, <2>1, <2>2, <2>3, <2>4, <2>5, <2>6 DEF CallInv, ReqInv, Asked, Early, Undoing, tableVars
  <2>9. TxInv(c)'
    BY <1>1, <2>1, <2>2, <2>3, <2>4, <2>5, <2>6 DEF CallInv, TxInv, InTxFrom, Undoing, tableVars
  <2>10. EffectInv(c)'
    BY <1>1, <2>1, <2>2, <2>3, <2>4, <2>5, <2>6 DEF CallInv, EffectInv, BackedUpWrite, Early, Undoing, tableVars
  <2>11. JournalInv(c)'
    BY <1>1, <2>1, <2>2, <2>3, <2>4, <2>5, <2>6 DEF CallInv, JournalInv, BackedUpWrite, Severing, Ended, tableVars
  <2>12. RowsInv(c)'
    BY <1>1, <2>1, <2>2, <2>3, <2>4, <2>5, <2>6 DEF CallInv, RowsInv, Held, tableVars
  <2>13. DdlInv(c)'
    BY <1>1, <2>1, <2>2, <2>3, <2>4, <2>5, <2>6 DEF CallInv, DdlInv, WithinPlan, Early, tableVars
  <2>14. KilledInv(c)'
    BY <1>1, <2>1, <2>2, <2>3, <2>4, <2>5, <2>6 DEF CallInv, KilledInv, Preparing, Ended, tableVars
  <2>15. QED
    BY <1>1, <2>1, <2>2, <2>3, <2>4, <2>5, <2>6, <2>7, <2>8, <2>9, <2>10, <2>11, <2>12, <2>13, <2>14, ClientStep DEF Own, CallInv
<1>4. QED
  BY <1>2, <1>3

(* The work failed: nothing but the place and the reason changes. *)
LEMMA FailFacts ==
  ASSUME TypeOK, NEW c \in Calls, NEW r \in Results, Fail(c, r)
  PROVE  /\ local' \in [Calls -> Locals] /\ pc' \in [Calls -> PcStates]
         /\ \A d \in Calls \ {c} : pc'[d] = pc[d] /\ local'[d] = local[d]
         /\ local'[c].inTx = local[c].inTx /\ local'[c].todo = local[c].todo
         /\ local'[c].found = local[c].found /\ local'[c].send = local[c].send /\ local'[c].err = r
         /\ pc'[c] \in Undoing /\ UNCHANGED <<result, conn>>
<1>1. local \in [Calls -> Locals]
  BY DEF TypeOK
<1>2. /\ local' \in [Calls -> Locals] /\ \A d \in Calls \ {c} : local'[d] = local[d]
      /\ local'[c].inTx = local[c].inTx /\ local'[c].todo = local[c].todo
      /\ local'[c].found = local[c].found /\ local'[c].send = local[c].send /\ local'[c].err = r
  BY <1>1 DEF Fail, Locals
<1>3. \E to \in Undoing : Goto(c, to)
  BY DEF Fail, Undoing
<1>4. Undoing \subseteq PcStates
  BY DEF Undoing, PcStates, Working
<1>5. QED
  BY <1>2, <1>3, <1>4, GotoFacts DEF Fail

LEMMA FailInv ==
  ASSUME IInv, NEW c \in Calls, NEW r \in {"error", "timeout"}, pc[c] \in {"arm", "capture", "exec"}, Fail(c, r),
         UNCHANGED <<stmt, result, backup, row, tableVars, envVars>>,
         timer' \in [Calls -> {"off", "armed", "killing", "killed", "unkilled"}],
         \A d \in Calls \ {c} : timer'[d] = timer[d] /\ journal'[d] = journal[d],
         journal' \in [Calls -> JournalStates \cup {"none"}], faults' \in 0..MaxFaults,
         journal'[c] \in {journal[c], "backup_capturing"}
  PROVE  IInv'
<1>1. /\ UNCHANGED <<stmt, conn, result, backup, row, tableVars, envVars>>
      /\ pc[c] \in {"arm", "capture", "exec"} /\ Text(c)' = Text(c) /\ CallInv(c) /\ TypeOK
      /\ \A d \in Calls \ {c} : timer'[d] = timer[d] /\ journal'[d] = journal[d]
      /\ journal'[c] \in {journal[c], "backup_capturing"}
  BY DEF Fail, Text, IInv
<1>2. /\ local' \in [Calls -> Locals] /\ pc' \in [Calls -> PcStates]
      /\ \A d \in Calls \ {c} : pc'[d] = pc[d] /\ local'[d] = local[d]
      /\ local'[c].inTx = local[c].inTx /\ local'[c].todo = local[c].todo
      /\ local'[c].found = local[c].found /\ local'[c].send = local[c].send /\ local'[c].err = r
      /\ pc'[c] \in {"rollback", "rolling"}
  BY <1>1, FailFacts DEF Results, Undoing
<1>3. TypeOK'
  BY <1>1, <1>2 DEF TypeOK, tableVars, envVars
<1>4. ConnInv(c)'
  BY <1>1, <1>2, <1>3 DEF CallInv, ConnInv, tableVars
<1>5. ReqInv(c)'
  BY <1>1, <1>2, <1>3 DEF CallInv, ReqInv, Asked, Early, Undoing, tableVars
<1>6. TxInv(c)'
  BY <1>1, <1>2, <1>3 DEF CallInv, TxInv, InTxFrom, Undoing, tableVars
<1>7. EffectInv(c)'
  BY <1>1, <1>2, <1>3 DEF CallInv, EffectInv, BackedUpWrite, Early, Undoing, tableVars
<1>8. JournalInv(c)'
  BY <1>1, <1>2, <1>3 DEF CallInv, JournalInv, BackedUpWrite, Severing, Ended, tableVars
<1>9. RowsInv(c)'
  BY <1>1, <1>2, <1>3 DEF CallInv, RowsInv, Held, tableVars
<1>10. DdlInv(c)'
  BY <1>1, <1>2, <1>3 DEF CallInv, DdlInv, WithinPlan, Early, tableVars
<1>11. KilledInv(c)'
  BY <1>1, <1>2, <1>3 DEF CallInv, KilledInv, Preparing, Ended, tableVars
<1>12. QED
  BY <1>1, <1>2, <1>3, <1>4, <1>5, <1>6, <1>7, <1>8, <1>9, <1>10, <1>11, ClientStep DEF Own, CallInv

LEMMA CaptureInv == ASSUME IInv, NEW c \in Calls, Capture(c) PROVE IInv'
<1> USE DEF Capture, At
<1>1. /\ UNCHANGED <<stmt, backup, row, tableVars, envVars>>
      /\ pc[c] = "arm" /\ Text(c)' = Text(c) /\ CallInv(c) /\ TypeOK
  BY DEF env, Text, IInv
<1>2. /\ timer' \in [Calls -> {"off", "armed", "killing", "killed", "unkilled"}]
      /\ timer'[c] = "armed" /\ \A d \in Calls \ {c} : timer'[d] = timer[d]
  BY <1>1 DEF TypeOK
<1>3. /\ journal' \in [Calls -> JournalStates \cup {"none"}] /\ faults' \in 0..MaxFaults
      /\ \A d \in Calls \ {c} : journal'[d] = journal[d]
      /\ journal'[c] \in {journal[c], "backup_capturing"}
  BY <1>1, JournalFacts DEF TypeOK, JournalStates
<1>4. CASE Fail(c, "error")
  BY <1>1, <1>2, <1>3, <1>4, FailInv DEF Fail
<1>5. CASE ~Fail(c, "error")
  <2>1. /\ UNCHANGED result
        /\ pc' \in [Calls -> PcStates] /\ local' \in [Calls -> Locals] /\ conn' \in [Calls -> Conns]
        /\ \A d \in Calls \ {c} : pc'[d] = pc[d] /\ local'[d] = local[d] /\ conn'[d] = conn[d]
        /\ local'[c].inTx = local[c].inTx /\ local'[c].err = local[c].err
        /\ local'[c].found = local[c].found /\ local'[c].send = local[c].send
        /\ conn'[c].alive = conn[c].alive /\ conn'[c].tx = conn[c].tx /\ conn'[c].pend = conn[c].pend
        /\ \/ /\ pc'[c] = "capture" /\ local'[c].todo # {}
              /\ Text(c).spec = "rows" => local'[c].todo = Text(c).targets
              /\ conn[c].alive => conn'[c].req = "capture" /\ conn'[c].ans = "wait"
              /\ ~conn[c].alive => conn'[c].req = conn[c].req /\ conn'[c].ans = "err"
           \/ /\ pc'[c] = "send" /\ Text(c).spec \in {"unneeded", "none", "hint"}
              /\ local' = local /\ conn' = conn
    <3>1. local \in [Calls -> Locals] /\ conn \in [Calls -> Conns] /\ "capture" \in Requests
          /\ {"capture", "send"} \subseteq PcStates /\ local[c].send \in SUBSET Tables
      BY <1>1 DEF TypeOK, Locals, Requests, PcStates, Preparing, Working
    <3>2. CASE /\ Text(c).spec \in {"rows", "combined"}
               /\ local' = [local EXCEPT ![c].todo = ToCapture(c)]
               /\ Goto(c, "capture") /\ Send(c, "capture") /\ UNCHANGED result
      <4>1. /\ Text(c).cat \in {"write", "ddl"} /\ local[c].send # {}
            /\ Text(c).cat = "write" => local[c].send = Text(c).targets
        BY <1>1, <3>2, StatementFacts DEF CallInv, DdlInv
      <4>2. /\ ToCapture(c) \in SUBSET Tables /\ ToCapture(c) # {}
            /\ Text(c).spec = "rows" => ToCapture(c) = Text(c).targets
        BY <1>1, <3>1, <4>1, FirstIn, StatementFacts DEF ToCapture
      <4>3. /\ local' \in [Calls -> Locals] /\ \A d \in Calls \ {c} : local'[d] = local[d]
            /\ local'[c].inTx = local[c].inTx /\ local'[c].err = local[c].err
            /\ local'[c].found = local[c].found /\ local'[c].send = local[c].send
            /\ local'[c].todo = ToCapture(c)
        BY <3>1, <3>2, <4>2 DEF Locals
      <4>4. QED
        BY <1>1, <3>1, <3>2, <4>2, <4>3, GotoFacts, SendFacts
    <3>3. CASE /\ Text(c).spec \in {"unneeded", "none", "hint"}
               /\ Goto(c, "send") /\ UNCHANGED <<local, conn, result>>
      BY <1>1, <3>1, <3>3, GotoFacts
    <3>4. QED
      BY <1>5, <3>2, <3>3
  <2>2. TypeOK'
    BY <1>1, <1>2, <1>3, <2>1 DEF TypeOK, tableVars, envVars
  <2>3. conn[c].alive => conn[c].req = "none"
    BY <1>1 DEF CallInv, ReqInv, Asked, Early
  <2> HIDE DEF Capture
  <2>4. ConnInv(c)'
    BY <1>1, <1>2, <1>3, <2>1, <2>2, <2>3, StatementFacts DEF CallInv, ConnInv, tableVars
  <2>5. ReqInv(c)'
    BY <1>1, <1>2, <1>3, <2>1, <2>2, <2>3, StatementFacts DEF CallInv, ReqInv, Asked, Early, Undoing, tableVars
  <2>6. TxInv(c)'
    BY <1>1, <1>2, <1>3, <2>1, <2>2, <2>3, StatementFacts DEF CallInv, TxInv, InTxFrom, Undoing, tableVars
  <2>7. EffectInv(c)'
    BY <1>1, <1>2, <1>3, <2>1, <2>2, <2>3, StatementFacts DEF CallInv, EffectInv, BackedUpWrite, Early, Undoing, tableVars
  <2>8. JournalInv(c)'
    BY <1>1, <1>2, <1>3, <2>1, <2>2, <2>3, StatementFacts DEF CallInv, JournalInv, BackedUpWrite, Severing, Ended, tableVars
  <2>9. RowsInv(c)'
    BY <1>1, <1>2, <1>3, <2>1, <2>2, <2>3, StatementFacts DEF CallInv, RowsInv, Held, tableVars
  <2>10. DdlInv(c)'
    BY <1>1, <1>2, <1>3, <2>1, <2>2, <2>3, StatementFacts DEF CallInv, DdlInv, WithinPlan, Early, tableVars
  <2>11. KilledInv(c)'
    BY <1>1, <1>2, <1>3, <2>1, <2>2, <2>3, StatementFacts DEF CallInv, KilledInv, Preparing, Ended, tableVars
  <2>12. QED
    BY <1>1, <1>2, <1>3, <2>1, <2>2, <2>3, StatementFacts, <2>4, <2>5, <2>6, <2>7, <2>8, <2>9, <2>10, <2>11, ClientStep DEF Own, CallInv
<1>6. QED
  BY <1>4, <1>5

LEMMA CaptureTableInv == ASSUME IInv, NEW c \in Calls, CaptureTable(c) PROVE IInv'
<1> USE DEF CaptureTable, At
<1>1. /\ UNCHANGED <<stmt, timer, journal, row, tableVars, envVars>>
      /\ pc[c] = "capture" /\ local[c].todo # {} /\ Text(c)' = Text(c) /\ CallInv(c) /\ TypeOK
  BY DEF env, Text, IInv
<1>2. CASE Fail(c, "error") /\ UNCHANGED <<backup, faults>>
  BY <1>1, <1>2, FailInv DEF Fail, TypeOK
<1>3. CASE ~(Fail(c, "error") /\ UNCHANGED <<backup, faults>>)
  <2> DEFINE t == First(local[c].todo)
  <2>1. UNCHANGED <<pc, result, faults>> /\ conn[c].ans = "ok" /\ t \in local[c].todo
    BY <1>1, <1>3, FirstIn DEF Answered
  <2>2. /\ local \in [Calls -> Locals] /\ local[c].todo \in SUBSET Tables /\ "capture" \in Requests
        /\ backup \in [Calls -> [Tables -> Contents \cup {None}]] /\ conn[c].image \in Contents
    BY <1>1 DEF TypeOK, Locals, Conns, Requests
  <2>3. /\ local' = [local EXCEPT ![c].todo = local[c].todo \ {t}]
        /\ backup' = [backup EXCEPT ![c][t] = conn[c].image]
        /\ IF local[c].todo = {t} THEN UNCHANGED conn ELSE Send(c, "capture")
    BY <1>3
  <2> HIDE DEF CaptureTable, t
  <2>4. /\ local' \in [Calls -> Locals] /\ \A d \in Calls \ {c} : local'[d] = local[d]
        /\ local'[c].inTx = local[c].inTx /\ local'[c].send = local[c].send
        /\ local'[c].err = local[c].err /\ local'[c].found = local[c].found
        /\ local'[c].todo = local[c].todo \ {t}
    BY <2>1, <2>2, <2>3 DEF Locals
  <2>5. /\ backup' \in [Calls -> [Tables -> Contents \cup {None}]]
        /\ \A d \in Calls \ {c} : backup'[d] = backup[d]
        /\ \A u \in Tables : backup'[c][u] = IF u = t THEN conn[c].image ELSE backup[c][u]
    BY <2>1, <2>2, <2>3
  <2>6. /\ conn' \in [Calls -> Conns] /\ \A d \in Calls \ {c} : conn'[d] = conn[d]
        /\ conn[c].alive /\ conn'[c].alive /\ conn'[c].tx = conn[c].tx /\ conn'[c].pend = conn[c].pend
        /\ \/ conn' = conn /\ conn[c].req = "none" /\ local'[c].todo = {}
           \/ conn'[c].req = "capture" /\ conn'[c].ans = "wait" /\ local'[c].todo # {}
    <3>1. conn[c].alive /\ conn[c].req = "none" /\ conn \in [Calls -> Conns]
      BY <1>1, <2>1 DEF CallInv, ConnInv, TypeOK
    <3>2. CASE local[c].todo = {t}
      BY <2>3, <2>4, <3>1, <3>2
    <3>3. CASE local[c].todo # {t}
      <4>1. local'[c].todo # {}
        BY <2>1, <2>4, <3>3
      <4>2. Send(c, "capture")
        BY <2>3, <3>3
      <4>3. QED
        BY <1>1, <2>2, <3>1, <4>1, <4>2, SendFacts
    <3>4. QED
      BY <3>2, <3>3
  <2>7. TypeOK'
    BY <1>1, <2>1, <2>4, <2>5, <2>6 DEF TypeOK, tableVars, envVars
  <2>8. c \notin applied /\ conn[c].pend = {}
    BY <1>1 DEF CallInv, EffectInv, Early
  <2>9. RowsInv(c)'
    <3>1. SUFFICES ASSUME Text(c).cat = "write", Text(c).spec = "rows" PROVE RowsInv(c)'
      BY <1>1 DEF RowsInv
    <3>2. /\ local[c].todo \subseteq Text(c).targets /\ lock[t] = c /\ content[t] = conn[c].image
          /\ \A u \in Text(c).targets \ local[c].todo : lock[u] = c /\ content[u] = backup[c][u]
          /\ \A u \in Tables \ Text(c).targets : backup[c][u] = None
      BY <1>1, <2>1, <2>6, <3>1 DEF CallInv, RowsInv, t
    <3>3. \A u \in Tables \ Text(c).targets : backup'[c][u] = None
      BY <2>1, <2>5, <3>2
    <3>4. \A u \in Text(c).targets \ local'[c].todo : lock[u] = c /\ content[u] = backup'[c][u]
      BY <2>1, <2>4, <2>5, <3>2, StatementFacts, <1>1
    <3>5. conn'[c].req # "stmt" /\ conn'[c].pend = {}
      BY <1>1, <2>6, <2>8
    <3>6. QED
      BY <1>1, <2>1, <2>4, <2>6, <2>8, <3>2, <3>3, <3>4, <3>5 DEF RowsInv, tableVars
  <2>10. ConnInv(c)'
    BY <1>1, <2>1, <2>2, <2>4, <2>5, <2>6, <2>7, <2>8, StatementFacts DEF CallInv, ConnInv, tableVars
  <2>11. ReqInv(c)'
    BY <1>1, <2>1, <2>2, <2>4, <2>5, <2>6, <2>7, <2>8, StatementFacts DEF CallInv, ReqInv, Asked, Early, Undoing, tableVars
  <2>12. TxInv(c)'
    BY <1>1, <2>1, <2>2, <2>4, <2>5, <2>6, <2>7, <2>8, StatementFacts DEF CallInv, TxInv, InTxFrom, Undoing, tableVars
  <2>13. EffectInv(c)'
    BY <1>1, <2>1, <2>2, <2>4, <2>5, <2>6, <2>7, <2>8, StatementFacts DEF CallInv, EffectInv, BackedUpWrite, Early, Undoing, tableVars
  <2>14. JournalInv(c)'
    BY <1>1, <2>1, <2>2, <2>4, <2>5, <2>6, <2>7, <2>8, StatementFacts DEF CallInv, JournalInv, BackedUpWrite, Severing, Ended, tableVars
  <2>15. DdlInv(c)'
    BY <1>1, <2>1, <2>2, <2>4, <2>5, <2>6, <2>7, <2>8, StatementFacts DEF CallInv, DdlInv, WithinPlan, Early, tableVars
  <2>16. KilledInv(c)'
    BY <1>1, <2>1, <2>2, <2>4, <2>5, <2>6, <2>7, <2>8, StatementFacts DEF CallInv, KilledInv, Preparing, Ended, tableVars
  <2>17. QED
    BY <1>1, <2>1, <2>2, <2>4, <2>5, <2>6, <2>7, <2>8, StatementFacts, <2>9, <2>10, <2>11, <2>12, <2>13, <2>14, <2>15, <2>16, ClientStep DEF Own, CallInv
<1>4. QED
  BY <1>2, <1>3

LEMMA CapturedInv == ASSUME IInv, NEW c \in Calls, Captured(c) PROVE IInv'
<1> USE DEF Captured, At
<1>1. /\ UNCHANGED <<stmt, timer, local, result, backup, row, conn, tableVars, envVars>>
      /\ pc[c] = "capture" /\ local[c].todo = {} /\ Text(c)' = Text(c) /\ CallInv(c) /\ TypeOK
  BY DEF env, Text, IInv
<1>2. /\ journal' \in [Calls -> JournalStates \cup {"none"}] /\ faults' \in 0..MaxFaults
      /\ \A d \in Calls \ {c} : journal'[d] = journal[d]
      /\ journal'[c] \in {journal[c], "backup_durable"}
  BY <1>1, JournalFacts DEF JournalStates
<1>3. pc' \in [Calls -> PcStates] /\ pc'[c] = "send" /\ \A d \in Calls \ {c} : pc'[d] = pc[d]
  BY <1>1, GotoFacts DEF PcStates, Working
<1>4. TypeOK'
  BY <1>1, <1>2, <1>3 DEF TypeOK, tableVars, envVars
<1> HIDE DEF Captured
<1>5. ConnInv(c)'
  BY <1>1, <1>2, <1>3, <1>4 DEF CallInv, ConnInv, tableVars
<1>6. ReqInv(c)'
  BY <1>1, <1>2, <1>3, <1>4 DEF CallInv, ReqInv, Asked, Early, Undoing, tableVars
<1>7. TxInv(c)'
  BY <1>1, <1>2, <1>3, <1>4 DEF CallInv, TxInv, InTxFrom, Undoing, tableVars
<1>8. EffectInv(c)'
  BY <1>1, <1>2, <1>3, <1>4 DEF CallInv, EffectInv, BackedUpWrite, Early, Undoing, tableVars
<1>9. JournalInv(c)'
  BY <1>1, <1>2, <1>3, <1>4 DEF CallInv, JournalInv, BackedUpWrite, Severing, Ended, tableVars
<1>10. RowsInv(c)'
  BY <1>1, <1>2, <1>3, <1>4 DEF CallInv, RowsInv, Held, tableVars
<1>11. DdlInv(c)'
  BY <1>1, <1>2, <1>3, <1>4 DEF CallInv, DdlInv, WithinPlan, Early, tableVars
<1>12. KilledInv(c)'
  BY <1>1, <1>2, <1>3, <1>4 DEF CallInv, KilledInv, Preparing, Ended, tableVars
<1>13. QED
  BY <1>1, <1>2, <1>3, <1>4, <1>5, <1>6, <1>7, <1>8, <1>9, <1>10, <1>11, <1>12, ClientStep DEF Own, CallInv

LEMMA ExecuteInv == ASSUME IInv, NEW c \in Calls, Execute(c) PROVE IInv'
<1> USE DEF Execute, At
<1>1. /\ UNCHANGED <<stmt, timer, local, result, backup, row, tableVars, envVars>>
      /\ pc[c] = "send" /\ Text(c)' = Text(c) /\ CallInv(c) /\ TypeOK
  BY DEF env, Text, IInv
<1>2. /\ journal' \in [Calls -> JournalStates \cup {"none"}] /\ faults' \in 0..MaxFaults
      /\ \A d \in Calls \ {c} : journal'[d] = journal[d]
      /\ journal'[c] \in {journal[c], "mutation_executing"}
  BY <1>1, JournalFacts DEF TypeOK, JournalStates
<1>3. pc' \in [Calls -> PcStates] /\ pc'[c] = "exec" /\ \A d \in Calls \ {c} : pc'[d] = pc[d]
  BY <1>1, GotoFacts DEF PcStates, Working
<1>4. /\ conn' \in [Calls -> Conns] /\ \A d \in Calls \ {c} : conn'[d] = conn[d]
      /\ conn'[c].alive = conn[c].alive /\ conn'[c].tx = conn[c].tx /\ conn'[c].pend = conn[c].pend
      /\ conn[c].alive => conn'[c].req = "stmt" /\ conn'[c].ans = "wait"
      /\ ~conn[c].alive => conn'[c].req = conn[c].req /\ conn'[c].ans = "err"
  BY <1>1, SendFacts DEF Requests
<1>5. TypeOK'
  BY <1>1, <1>2, <1>3, <1>4 DEF TypeOK, tableVars, envVars
<1> HIDE DEF Execute
<1>6. ConnInv(c)'
  BY <1>1, <1>2, <1>3, <1>4, <1>5, StatementFacts DEF CallInv, ConnInv, tableVars
<1>7. ReqInv(c)'
  BY <1>1, <1>2, <1>3, <1>4, <1>5, StatementFacts DEF CallInv, ReqInv, Asked, Early, Undoing, tableVars
<1>8. TxInv(c)'
  BY <1>1, <1>2, <1>3, <1>4, <1>5, StatementFacts DEF CallInv, TxInv, InTxFrom, Undoing, tableVars
<1>9. EffectInv(c)'
  BY <1>1, <1>2, <1>3, <1>4, <1>5, StatementFacts DEF CallInv, EffectInv, BackedUpWrite, Early, Undoing, tableVars
<1>10. JournalInv(c)'
  BY <1>1, <1>2, <1>3, <1>4, <1>5, StatementFacts DEF CallInv, JournalInv, BackedUpWrite, Severing, Ended, tableVars
<1>11. RowsInv(c)'
  BY <1>1, <1>2, <1>3, <1>4, <1>5, StatementFacts DEF CallInv, RowsInv, Held, tableVars
<1>12. DdlInv(c)'
  BY <1>1, <1>2, <1>3, <1>4, <1>5, StatementFacts DEF CallInv, DdlInv, WithinPlan, Early, tableVars
<1>13. KilledInv(c)'
  BY <1>1, <1>2, <1>3, <1>4, <1>5, StatementFacts DEF CallInv, KilledInv, Preparing, Ended, tableVars
<1>14. QED
  BY <1>1, <1>2, <1>3, <1>4, <1>5, StatementFacts, <1>6, <1>7, <1>8, <1>9, <1>10, <1>11, <1>12, <1>13, ClientStep DEF Own, CallInv

LEMMA ExecutedInv == ASSUME IInv, NEW c \in Calls, Executed(c) PROVE IInv'
<1> USE DEF Executed, At
<1>1. /\ UNCHANGED <<stmt, timer, journal, backup, row, faults, tableVars, envVars>>
      /\ pc[c] = "exec" /\ Text(c)' = Text(c) /\ CallInv(c) /\ TypeOK
  BY DEF Keep, env, auditVars, Text, IInv
<1>2. CASE Fail(c, "error") \/ Fail(c, "timeout")
  BY <1>1, <1>2, FailInv DEF Fail, TypeOK
<1>3. CASE ~(Fail(c, "error") \/ Fail(c, "timeout"))
  <2>1. /\ UNCHANGED <<local, result>> /\ conn[c].ans = "ok" /\ Goto(c, "commit")
        /\ IF local[c].inTx THEN Send(c, "commit") ELSE UNCHANGED conn
    BY <1>3 DEF Answered
  <2>2. pc' \in [Calls -> PcStates] /\ pc'[c] = "commit" /\ \A d \in Calls \ {c} : pc'[d] = pc[d]
    BY <1>1, <2>1, GotoFacts DEF PcStates, Working
  <2>3. /\ conn' \in [Calls -> Conns] /\ \A d \in Calls \ {c} : conn'[d] = conn[d]
        /\ conn[c].alive /\ conn'[c].alive /\ conn'[c].tx = conn[c].tx /\ conn'[c].pend = conn[c].pend
        /\ \/ local[c].inTx /\ conn'[c].req = "commit" /\ conn'[c].ans = "wait"
           \/ ~local[c].inTx /\ conn'[c].req = "none" /\ ~conn[c].tx /\ conn'[c].ans = "ok"
    <3>1. conn[c].alive /\ conn[c].req = "none" /\ conn \in [Calls -> Conns] /\ "commit" \in Requests
      BY <1>1, <2>1 DEF CallInv, ConnInv, TypeOK, Requests
    <3>2. CASE local[c].inTx
      BY <1>1, <2>1, <3>1, <3>2, SendFacts
    <3>3. CASE ~local[c].inTx
      BY <1>1, <2>1, <3>1, <3>3 DEF CallInv, TxInv
    <3>4. QED
      BY <3>2, <3>3
  <2>4. TypeOK'
    BY <1>1, <2>1, <2>2, <2>3 DEF TypeOK, tableVars, envVars
  <2>5. BackedUpWrite(c) => local[c].inTx
    BY <1>1 DEF CallInv, TxInv, BackedUpWrite
  <2> HIDE DEF Executed
  <2>6. ConnInv(c)'
    BY <1>1, <2>1, <2>2, <2>3, <2>4, <2>5 DEF CallInv, ConnInv, tableVars
  <2>7. ReqInv(c)'
    BY <1>1, <2>1, <2>2, <2>3, <2>4, <2>5 DEF CallInv, ReqInv, Asked, Early, Undoing, tableVars
  <2>8. TxInv(c)'
    BY <1>1, <2>1, <2>2, <2>3, <2>4, <2>5 DEF CallInv, TxInv, InTxFrom, Undoing, tableVars
  <2>9. EffectInv(c)'
    BY <1>1, <2>1, <2>2, <2>3, <2>4, <2>5 DEF CallInv, EffectInv, BackedUpWrite, Early, Undoing, tableVars
  <2>10. JournalInv(c)'
    BY <1>1, <2>1, <2>2, <2>3, <2>4, <2>5 DEF CallInv, JournalInv, BackedUpWrite, Severing, Ended, tableVars
  <2>11. RowsInv(c)'
    BY <1>1, <2>1, <2>2, <2>3, <2>4, <2>5 DEF CallInv, RowsInv, Held, tableVars
  <2>12. DdlInv(c)'
    BY <1>1, <2>1, <2>2, <2>3, <2>4, <2>5 DEF CallInv, DdlInv, WithinPlan, Early, tableVars
  <2>13. KilledInv(c)'
    BY <1>1, <2>1, <2>2, <2>3, <2>4, <2>5 DEF CallInv, KilledInv, Preparing, Ended, tableVars
  <2>14. QED
    BY <1>1, <2>1, <2>2, <2>3, <2>4, <2>5, <2>6, <2>7, <2>8, <2>9, <2>10, <2>11, <2>12, <2>13, ClientStep DEF Own, CallInv
<1>4. QED
  BY <1>2, <1>3

(* The end of the work future is a return or a connection to be unwound. *)
LEMMA ResolveFacts ==
  ASSUME TypeOK, NEW c \in Calls, NEW r \in Results, Resolve(c, r)
  PROVE  /\ pc' \in [Calls -> PcStates] /\ result' \in [Calls -> Results]
         /\ \A d \in Calls \ {c} : pc'[d] = pc[d] /\ result'[d] = result[d]
         /\ timer[c] \in {"armed", "killed", "unkilled"}
         /\ \/ /\ pc'[c] = "returned"
               /\ timer[c] = "killed" => r = "ok"
            \/ pc'[c] = "unwind" /\ result'[c] = result[c]
<1>1. result \in [Calls -> Results] /\ {"timeout", "uncertain"} \subseteq Results /\ "unwind" \in PcStates
  BY DEF TypeOK, Results, PcStates, Severing
<1>2. CASE timer[c] = "armed" /\ Return(c, r)
  BY <1>2, ReturnFacts
<1>3. CASE timer[c] = "killed" /\ r = "ok" /\ Return(c, "timeout")
  BY <1>1, <1>3, ReturnFacts
<1>4. CASE timer[c] = "killed" /\ r # "ok" /\ Goto(c, "unwind") /\ UNCHANGED result
  BY <1>1, <1>4, GotoFacts
<1>5. CASE timer[c] = "unkilled" /\ Return(c, "uncertain")
  BY <1>1, <1>5, ReturnFacts
<1>6. QED
  BY <1>2, <1>3, <1>4, <1>5 DEF Resolve

LEMMA CommittedInv == ASSUME IInv, NEW c \in Calls, Committed(c) PROVE IInv'
<1> USE DEF Committed, At
<1>1. /\ UNCHANGED <<stmt, timer, local, backup, row, conn, tableVars, envVars>>
      /\ pc[c] = "commit" /\ conn[c].ans = "ok" /\ Text(c)' = Text(c) /\ CallInv(c) /\ TypeOK
  BY DEF env, Text, IInv, Answered
<1>2. /\ journal' \in [Calls -> JournalStates \cup {"none"}] /\ faults' \in 0..MaxFaults
      /\ \A d \in Calls \ {c} : journal'[d] = journal[d]
      /\ journal'[c] \in {journal[c], "mutation_committed"}
  BY <1>1, JournalFacts DEF TypeOK, JournalStates
<1>3. /\ pc' \in [Calls -> PcStates] /\ result' \in [Calls -> Results]
      /\ \A d \in Calls \ {c} : pc'[d] = pc[d] /\ result'[d] = result[d]
      /\ \/ pc'[c] = "returned"
         \/ pc'[c] = "unwind" /\ result'[c] = result[c]
  BY <1>1, ResolveFacts DEF Results
<1>4. TypeOK'
  BY <1>1, <1>2, <1>3 DEF TypeOK, tableVars, envVars
<1>5. conn[c].alive /\ conn[c].req = "none" /\ ~conn[c].tx
  BY <1>1 DEF CallInv, ConnInv, TxInv
<1>6. BackedUpWrite(c) => c \in applied
  BY <1>1 DEF CallInv, EffectInv
<1> HIDE DEF Committed
<1>7. ConnInv(c)'
  BY <1>1, <1>2, <1>3, <1>4, <1>5, <1>6 DEF CallInv, ConnInv, tableVars
<1>8. ReqInv(c)'
  BY <1>1, <1>2, <1>3, <1>4, <1>5, <1>6 DEF CallInv, ReqInv, Asked, Early, Undoing, tableVars
<1>9. TxInv(c)'
  BY <1>1, <1>2, <1>3, <1>4, <1>5, <1>6 DEF CallInv, TxInv, InTxFrom, Undoing, tableVars
<1>10. EffectInv(c)'
  BY <1>1, <1>2, <1>3, <1>4, <1>5, <1>6 DEF CallInv, EffectInv, BackedUpWrite, Early, Undoing, tableVars
<1>11. JournalInv(c)'
  BY <1>1, <1>2, <1>3, <1>4, <1>5, <1>6 DEF CallInv, JournalInv, BackedUpWrite, Severing, Ended, tableVars
<1>12. RowsInv(c)'
  BY <1>1, <1>2, <1>3, <1>4, <1>5, <1>6 DEF CallInv, RowsInv, Held, tableVars
<1>13. DdlInv(c)'
  BY <1>1, <1>2, <1>3, <1>4, <1>5, <1>6 DEF CallInv, DdlInv, WithinPlan, Early, tableVars
<1>14. KilledInv(c)'
  BY <1>1, <1>2, <1>3, <1>4, <1>5, <1>6 DEF CallInv, KilledInv, Preparing, Ended, tableVars
<1>15. QED
  BY <1>1, <1>2, <1>3, <1>4, <1>5, <1>6, <1>7, <1>8, <1>9, <1>10, <1>11, <1>12, <1>13, <1>14, ClientStep DEF Own, CallInv

LEMMA CommitFailsInv == ASSUME IInv, NEW c \in Calls, CommitFails(c) PROVE IInv'
<1> USE DEF CommitFails, At
<1>1. /\ UNCHANGED <<stmt, timer, local, result, journal, backup, row, faults, tableVars, envVars>>
      /\ pc[c] = "commit" /\ conn[c].ans = "err" /\ Text(c)' = Text(c) /\ CallInv(c) /\ TypeOK
  BY DEF Keep, env, auditVars, Text, IInv, Answered
<1>2. pc' \in [Calls -> PcStates] /\ pc'[c] = "unrolling" /\ \A d \in Calls \ {c} : pc'[d] = pc[d]
  BY <1>1, GotoFacts DEF PcStates, Working
<1>3. /\ conn' \in [Calls -> Conns] /\ \A d \in Calls \ {c} : conn'[d] = conn[d]
      /\ conn'[c].alive = conn[c].alive /\ conn'[c].tx = conn[c].tx /\ conn'[c].pend = conn[c].pend
      /\ conn[c].alive => conn'[c].req = "rollback" /\ conn'[c].ans = "wait"
      /\ ~conn[c].alive => conn'[c].req = conn[c].req /\ conn'[c].ans = "err"
  BY <1>1, SendFacts DEF Requests
<1>4. TypeOK'
  BY <1>1, <1>2, <1>3 DEF TypeOK, tableVars, envVars
<1> HIDE DEF CommitFails
<1>5. ConnInv(c)'
  BY <1>1, <1>2, <1>3, <1>4 DEF CallInv, ConnInv, tableVars
<1>6. ReqInv(c)'
  BY <1>1, <1>2, <1>3, <1>4 DEF CallInv, ReqInv, Asked, Early, Undoing, tableVars
<1>7. TxInv(c)'
  BY <1>1, <1>2, <1>3, <1>4 DEF CallInv, TxInv, InTxFrom, Undoing, tableVars
<1>8. EffectInv(c)'
  BY <1>1, <1>2, <1>3, <1>4 DEF CallInv, EffectInv, BackedUpWrite, Early, Undoing, tableVars
<1>9. JournalInv(c)'
  BY <1>1, <1>2, <1>3, <1>4 DEF CallInv, JournalInv, BackedUpWrite, Severing, Ended, tableVars
<1>10. RowsInv(c)'
  BY <1>1, <1>2, <1>3, <1>4 DEF CallInv, RowsInv, Held, tableVars
<1>11. DdlInv(c)'
  BY <1>1, <1>2, <1>3, <1>4 DEF CallInv, DdlInv, WithinPlan, Early, tableVars
<1>12. KilledInv(c)'
  BY <1>1, <1>2, <1>3, <1>4 DEF CallInv, KilledInv, Preparing, Ended, tableVars
<1>13. QED
  BY <1>1, <1>2, <1>3, <1>4, <1>5, <1>6, <1>7, <1>8, <1>9, <1>10, <1>11, <1>12, ClientStep DEF Own, CallInv

LEMMA SendRollbackInv == ASSUME IInv, NEW c \in Calls, SendRollback(c) PROVE IInv'
<1> USE DEF SendRollback, At
<1>1. /\ UNCHANGED <<stmt, timer, local, result, journal, backup, row, faults, tableVars, envVars>>
      /\ pc[c] = "rollback" /\ Text(c)' = Text(c) /\ CallInv(c) /\ TypeOK
  BY DEF Keep, env, auditVars, Text, IInv
<1>2. pc' \in [Calls -> PcStates] /\ pc'[c] = "rolling" /\ \A d \in Calls \ {c} : pc'[d] = pc[d]
  BY <1>1, GotoFacts DEF PcStates, Working
<1>3. /\ conn' \in [Calls -> Conns] /\ \A d \in Calls \ {c} : conn'[d] = conn[d]
      /\ conn'[c].alive = conn[c].alive /\ conn'[c].tx = conn[c].tx /\ conn'[c].pend = conn[c].pend
      /\ conn[c].alive => conn'[c].req = "rollback" /\ conn'[c].ans = "wait"
      /\ ~conn[c].alive => conn'[c].req = conn[c].req /\ conn'[c].ans = "err"
  BY <1>1, SendFacts DEF Requests
<1>4. TypeOK'
  BY <1>1, <1>2, <1>3 DEF TypeOK, tableVars, envVars
<1> HIDE DEF SendRollback
<1>5. ConnInv(c)'
  BY <1>1, <1>2, <1>3, <1>4 DEF CallInv, ConnInv, tableVars
<1>6. ReqInv(c)'
  BY <1>1, <1>2, <1>3, <1>4 DEF CallInv, ReqInv, Asked, Early, Undoing, tableVars
<1>7. TxInv(c)'
  BY <1>1, <1>2, <1>3, <1>4 DEF CallInv, TxInv, InTxFrom, Undoing, tableVars
<1>8. EffectInv(c)'
  BY <1>1, <1>2, <1>3, <1>4 DEF CallInv, EffectInv, BackedUpWrite, Early, Undoing, tableVars
<1>9. JournalInv(c)'
  BY <1>1, <1>2, <1>3, <1>4 DEF CallInv, JournalInv, BackedUpWrite, Severing, Ended, tableVars
<1>10. RowsInv(c)'
  BY <1>1, <1>2, <1>3, <1>4 DEF CallInv, RowsInv, Held, tableVars
<1>11. DdlInv(c)'
  BY <1>1, <1>2, <1>3, <1>4 DEF CallInv, DdlInv, WithinPlan, Early, tableVars
<1>12. KilledInv(c)'
  BY <1>1, <1>2, <1>3, <1>4 DEF CallInv, KilledInv, Preparing, Ended, tableVars
<1>13. QED
  BY <1>1, <1>2, <1>3, <1>4, <1>5, <1>6, <1>7, <1>8, <1>9, <1>10, <1>11, <1>12, ClientStep DEF Own, CallInv

LEMMA RolledBackInv == ASSUME IInv, NEW c \in Calls, RolledBack(c) PROVE IInv'
<1> USE DEF RolledBack, At
<1>1. /\ UNCHANGED <<stmt, timer, local, backup, row, conn, tableVars, envVars>>
      /\ pc[c] \in {"rolling", "unrolling"} /\ Text(c)' = Text(c) /\ CallInv(c) /\ TypeOK
      /\ local[c].err \in Results /\ local[c].err # "ok"
  BY DEF env, Text, IInv, TypeOK, Locals, CallInv, KilledInv
<1>2. /\ journal' \in [Calls -> JournalStates \cup {"none"}] /\ faults' \in 0..MaxFaults
      /\ \A d \in Calls \ {c} : journal'[d] = journal[d]
      /\ \/ journal'[c] = journal[c]
         \/ journal'[c] = "uncertain"
         \/ journal'[c] = "failed" /\ pc[c] = "rolling"
  BY <1>1, JournalFacts DEF Verdict, JournalStates
<1>3. /\ pc' \in [Calls -> PcStates] /\ result' \in [Calls -> Results]
      /\ \A d \in Calls \ {c} : pc'[d] = pc[d] /\ result'[d] = result[d]
      /\ \/ pc'[c] = "returned" /\ timer[c] # "killed"
         \/ pc'[c] = "unwind" /\ result'[c] = result[c]
  BY <1>1, ResolveFacts DEF Results
<1>4. TypeOK'
  BY <1>1, <1>2, <1>3 DEF TypeOK, tableVars, envVars
<1>5. pc[c] = "rolling" => conn[c].req # "commit" /\ (BackedUpWrite(c) => c \notin applied)
  BY <1>1 DEF CallInv, ReqInv, EffectInv, Undoing
<1> HIDE DEF RolledBack
<1>6. ConnInv(c)'
  BY <1>1, <1>2, <1>3, <1>4, <1>5 DEF CallInv, ConnInv, tableVars
<1>7. ReqInv(c)'
  BY <1>1, <1>2, <1>3, <1>4, <1>5 DEF CallInv, ReqInv, Asked, Early, Undoing, tableVars
<1>8. TxInv(c)'
  BY <1>1, <1>2, <1>3, <1>4, <1>5 DEF CallInv, TxInv, InTxFrom, Undoing, tableVars
<1>9. EffectInv(c)'
  BY <1>1, <1>2, <1>3, <1>4, <1>5 DEF CallInv, EffectInv, BackedUpWrite, Early, Undoing, tableVars
<1>10. JournalInv(c)'
  BY <1>1, <1>2, <1>3, <1>4, <1>5 DEF CallInv, JournalInv, BackedUpWrite, Severing, Ended, tableVars
<1>11. RowsInv(c)'
  BY <1>1, <1>2, <1>3, <1>4, <1>5 DEF CallInv, RowsInv, Held, tableVars
<1>12. DdlInv(c)'
  BY <1>1, <1>2, <1>3, <1>4, <1>5 DEF CallInv, DdlInv, WithinPlan, Early, tableVars
<1>13. KilledInv(c)'
  BY <1>1, <1>2, <1>3, <1>4, <1>5 DEF CallInv, KilledInv, Preparing, Ended, tableVars
<1>14. QED
  BY <1>1, <1>2, <1>3, <1>4, <1>5, <1>6, <1>7, <1>8, <1>9, <1>10, <1>11, <1>12, <1>13, ClientStep DEF Own, CallInv

-----------------------------------------------------------------------------
(* The deadline, the verification, the report.                             *)

LEMMA DeadlineInv == ASSUME IInv, NEW c \in Calls, Deadline(c) \/ Kill(c) PROVE IInv'
<1> USE DEF Deadline, Kill
<1>1. /\ UNCHANGED <<stmt, pc, local, result, journal, backup, row, faults, conn, tableVars, envVars>>
      /\ pc[c] \in Working /\ Text(c)' = Text(c) /\ CallInv(c) /\ TypeOK
  BY DEF env, auditVars, Text, IInv
<1>2. /\ timer' \in [Calls -> {"off", "armed", "killing", "killed", "unkilled"}]
      /\ \A d \in Calls \ {c} : timer'[d] = timer[d]
  BY <1>1 DEF TypeOK
<1>3. TypeOK'
  BY <1>1, <1>2 DEF TypeOK, tableVars, envVars
<1>4. pc[c] \notin Preparing \cup Ended
  BY <1>1 DEF Working, Preparing, Ended
<1>5. result[c] = "none"
  BY <1>1, <1>4 DEF CallInv, KilledInv
<1> HIDE DEF Deadline, Kill
<1>6. ConnInv(c)'
  BY <1>1, <1>2, <1>3, <1>4, <1>5 DEF CallInv, ConnInv, tableVars
<1>7. ReqInv(c)'
  BY <1>1, <1>2, <1>3, <1>4, <1>5 DEF CallInv, ReqInv, Asked, Early, Undoing, tableVars
<1>8. TxInv(c)'
  BY <1>1, <1>2, <1>3, <1>4, <1>5 DEF CallInv, TxInv, InTxFrom, Undoing, tableVars
<1>9. EffectInv(c)'
  BY <1>1, <1>2, <1>3, <1>4, <1>5 DEF CallInv, EffectInv, BackedUpWrite, Early, Undoing, tableVars
<1>10. JournalInv(c)'
  BY <1>1, <1>2, <1>3, <1>4, <1>5 DEF CallInv, JournalInv, BackedUpWrite, Severing, Ended, tableVars
<1>11. RowsInv(c)'
  BY <1>1, <1>2, <1>3, <1>4, <1>5 DEF CallInv, RowsInv, Held, tableVars
<1>12. DdlInv(c)'
  BY <1>1, <1>2, <1>3, <1>4, <1>5 DEF CallInv, DdlInv, WithinPlan, Early, tableVars
<1>13. KilledInv(c)'
  BY <1>1, <1>2, <1>3, <1>4, <1>5 DEF CallInv, KilledInv, Preparing, Ended, tableVars
<1>14. QED
  BY <1>1, <1>2, <1>3, <1>4, <1>5, <1>6, <1>7, <1>8, <1>9, <1>10, <1>11, <1>12, <1>13, ClientStep DEF Own, CallInv

LEMMA GraceInv == ASSUME IInv, NEW c \in Calls, Grace(c) PROVE IInv'
<1> USE DEF Grace
<1>1. /\ UNCHANGED <<stmt, timer, local, journal, backup, row, faults, tableVars, envVars>>
      /\ pc[c] \in Working /\ Text(c)' = Text(c) /\ CallInv(c) /\ TypeOK
  BY DEF Keep, env, auditVars, Text, IInv
<1>2. /\ pc' \in [Calls -> PcStates] /\ result' \in [Calls -> Results]
      /\ pc'[c] = "returned" /\ result'[c] = "uncertain"
      /\ \A d \in Calls \ {c} : pc'[d] = pc[d] /\ result'[d] = result[d]
  BY <1>1, ReturnFacts DEF Results
<1>3. /\ conn' \in [Calls -> Conns] /\ \A d \in Calls \ {c} : conn'[d] = conn[d]
      /\ ~conn'[c].alive /\ conn'[c].ans = "err" /\ conn'[c].tx = conn[c].tx
      /\ conn'[c].pend = conn[c].pend /\ conn'[c].req = conn[c].req
  BY <1>1, SeverFacts
<1>4. TypeOK'
  BY <1>1, <1>2, <1>3 DEF TypeOK, tableVars, envVars
<1>5. pc[c] \notin Severing \cup Ended
  BY <1>1 DEF Working, Severing, Ended
<1> HIDE DEF Grace
<1>6. ConnInv(c)'
  BY <1>1, <1>2, <1>3, <1>4, <1>5 DEF CallInv, ConnInv, tableVars
<1>7. ReqInv(c)'
  BY <1>1, <1>2, <1>3, <1>4, <1>5 DEF CallInv, ReqInv, Asked, Early, Undoing, tableVars
<1>8. TxInv(c)'
  BY <1>1, <1>2, <1>3, <1>4, <1>5 DEF CallInv, TxInv, InTxFrom, Undoing, tableVars
<1>9. EffectInv(c)'
  BY <1>1, <1>2, <1>3, <1>4, <1>5 DEF CallInv, EffectInv, BackedUpWrite, Early, Undoing, tableVars
<1>10. JournalInv(c)'
  BY <1>1, <1>2, <1>3, <1>4, <1>5 DEF CallInv, JournalInv, BackedUpWrite, Severing, Ended, tableVars
<1>11. RowsInv(c)'
  BY <1>1, <1>2, <1>3, <1>4, <1>5 DEF CallInv, RowsInv, Held, tableVars
<1>12. DdlInv(c)'
  BY <1>1, <1>2, <1>3, <1>4, <1>5 DEF CallInv, DdlInv, WithinPlan, Early, tableVars
<1>13. KilledInv(c)'
  BY <1>1, <1>2, <1>3, <1>4, <1>5 DEF CallInv, KilledInv, Preparing, Ended, tableVars
<1>14. QED
  BY <1>1, <1>2, <1>3, <1>4, <1>5, <1>6, <1>7, <1>8, <1>9, <1>10, <1>11, <1>12, <1>13, ClientStep DEF Own, CallInv

(* The two requests that follow a killed statement. *)
LEMMA UnwindInv ==
  ASSUME IInv, NEW c \in Calls, Interrupted(c) \/ Unwound(c) PROVE IInv'
<1> USE DEF Interrupted, Unwound, Unwind, At
<1>1. /\ UNCHANGED <<stmt, timer, local, result, journal, backup, row, faults, tableVars, envVars>>
      /\ pc[c] \in {"unwind", "unwinding"} /\ Text(c)' = Text(c) /\ CallInv(c) /\ TypeOK
  BY DEF Keep, env, auditVars, Text, IInv
<1>2. \E to \in {"unwinding", "verifying"}, r \in {"rollback", "verify"} : Goto(c, to) /\ Send(c, r)
  OBVIOUS
<1>3. PICK to \in {"unwinding", "verifying"}, r \in {"rollback", "verify"} : Goto(c, to) /\ Send(c, r)
  BY <1>2
<1>4. pc' \in [Calls -> PcStates] /\ pc'[c] = to /\ \A d \in Calls \ {c} : pc'[d] = pc[d]
  BY <1>1, <1>3, GotoFacts DEF PcStates, Severing
<1>5. /\ conn' \in [Calls -> Conns] /\ \A d \in Calls \ {c} : conn'[d] = conn[d]
      /\ conn'[c].alive = conn[c].alive /\ conn'[c].tx = conn[c].tx /\ conn'[c].pend = conn[c].pend
      /\ conn[c].alive => conn'[c].req = r /\ conn'[c].ans = "wait"
      /\ ~conn[c].alive => conn'[c].req = conn[c].req /\ conn'[c].ans = "err"
  BY <1>1, <1>3, SendFacts DEF Requests
<1>6. TypeOK'
  BY <1>1, <1>4, <1>5 DEF TypeOK, tableVars, envVars
<1> HIDE DEF Interrupted, Unwound
<1>7. ConnInv(c)'
  BY <1>1, <1>4, <1>5, <1>6 DEF CallInv, ConnInv, tableVars
<1>8. ReqInv(c)'
  BY <1>1, <1>4, <1>5, <1>6 DEF CallInv, ReqInv, Asked, Early, Undoing, tableVars
<1>9. TxInv(c)'
  BY <1>1, <1>4, <1>5, <1>6 DEF CallInv, TxInv, InTxFrom, Undoing, tableVars
<1>10. EffectInv(c)'
  BY <1>1, <1>4, <1>5, <1>6 DEF CallInv, EffectInv, BackedUpWrite, Early, Undoing, tableVars
<1>11. JournalInv(c)'
  BY <1>1, <1>4, <1>5, <1>6 DEF CallInv, JournalInv, BackedUpWrite, Severing, Ended, tableVars
<1>12. RowsInv(c)'
  BY <1>1, <1>4, <1>5, <1>6 DEF CallInv, RowsInv, Held, tableVars
<1>13. DdlInv(c)'
  BY <1>1, <1>4, <1>5, <1>6 DEF CallInv, DdlInv, WithinPlan, Early, tableVars
<1>14. KilledInv(c)'
  BY <1>1, <1>4, <1>5, <1>6 DEF CallInv, KilledInv, Preparing, Ended, tableVars
<1>15. QED
  BY <1>1, <1>4, <1>5, <1>6, <1>7, <1>8, <1>9, <1>10, <1>11, <1>12, <1>13, <1>14, ClientStep DEF Own, CallInv

LEMMA VerifiedInv == ASSUME IInv, NEW c \in Calls, Verified(c) PROVE IInv'
<1> USE DEF Verified, At, Answered
<1>1. /\ UNCHANGED <<stmt, timer, local, journal, backup, row, faults, tableVars, envVars>>
      /\ pc[c] = "verifying" /\ Text(c)' = Text(c) /\ CallInv(c) /\ TypeOK
  BY DEF Keep, env, auditVars, Text, IInv
<1>2. /\ pc' \in [Calls -> PcStates] /\ result' \in [Calls -> Results]
      /\ pc'[c] = "returned" /\ \A d \in Calls \ {c} : pc'[d] = pc[d] /\ result'[d] = result[d]
      /\ \/ result'[c] = "timeout" /\ conn[c].ans = "ok" /\ ~conn[c].tx /\ UNCHANGED conn
         \/ result'[c] = "uncertain" /\ Sever(c)
  BY <1>1, ReturnFacts DEF Results
<1>3. /\ conn' \in [Calls -> Conns] /\ \A d \in Calls \ {c} : conn'[d] = conn[d]
      /\ conn'[c].tx = conn[c].tx /\ conn'[c].pend = conn[c].pend /\ conn'[c].req = conn[c].req
      /\ \/ /\ result'[c] = "timeout" /\ conn'[c].req = "none" /\ ~conn[c].tx
            /\ conn'[c].alive = conn[c].alive /\ conn'[c].ans = conn[c].ans
         \/ result'[c] = "uncertain" /\ ~conn'[c].alive /\ conn'[c].ans = "err"
  <2>1. CASE result'[c] = "uncertain" /\ Sever(c)
    BY <1>1, <2>1, SeverFacts
  <2>2. CASE result'[c] = "timeout" /\ conn[c].ans = "ok" /\ ~conn[c].tx /\ UNCHANGED conn
    BY <1>1, <2>2 DEF CallInv, ConnInv, TypeOK
  <2>3. QED
    BY <1>2, <2>1, <2>2
<1>4. TypeOK'
  BY <1>1, <1>2, <1>3 DEF TypeOK, tableVars, envVars
<1> HIDE DEF Verified
<1>5. ConnInv(c)'
  BY <1>1, <1>2, <1>3, <1>4 DEF CallInv, ConnInv, tableVars
<1>6. ReqInv(c)'
  BY <1>1, <1>2, <1>3, <1>4 DEF CallInv, ReqInv, Asked, Early, Undoing, tableVars
<1>7. TxInv(c)'
  BY <1>1, <1>2, <1>3, <1>4 DEF CallInv, TxInv, InTxFrom, Undoing, tableVars
<1>8. EffectInv(c)'
  BY <1>1, <1>2, <1>3, <1>4 DEF CallInv, EffectInv, BackedUpWrite, Early, Undoing, tableVars
<1>9. JournalInv(c)'
  BY <1>1, <1>2, <1>3, <1>4 DEF CallInv, JournalInv, BackedUpWrite, Severing, Ended, tableVars
<1>10. RowsInv(c)'
  BY <1>1, <1>2, <1>3, <1>4 DEF CallInv, RowsInv, Held, tableVars
<1>11. DdlInv(c)'
  BY <1>1, <1>2, <1>3, <1>4 DEF CallInv, DdlInv, WithinPlan, Early, tableVars
<1>12. KilledInv(c)'
  BY <1>1, <1>2, <1>3, <1>4 DEF CallInv, KilledInv, Preparing, Ended, tableVars
<1>13. QED
  BY <1>1, <1>2, <1>3, <1>4, <1>5, <1>6, <1>7, <1>8, <1>9, <1>10, <1>11, <1>12, ClientStep DEF Own, CallInv

LEMMA AuditInv == ASSUME IInv, NEW c \in Calls, Audit(c) PROVE IInv'
<1> USE DEF Audit
<1>1. /\ UNCHANGED <<stmt, timer, local, result, journal, backup, conn, tableVars, envVars>>
      /\ pc[c] = "returned" /\ Text(c)' = Text(c) /\ CallInv(c) /\ TypeOK
  BY DEF env, Text, IInv
<1>2. pc' \in [Calls -> PcStates] /\ pc'[c] = "audited" /\ \A d \in Calls \ {c} : pc'[d] = pc[d]
  BY <1>1, GotoFacts DEF PcStates, Reporting
<1>3. /\ row' \in [Calls -> {"none", "approved", "execution_error"}]
      /\ \A d \in Calls \ {c} : row'[d] = row[d] 
      /\ faults' \in 0..MaxFaults
  BY <1>1, FaultFacts DEF TypeOK
<1>4. TypeOK'
  BY <1>1, <1>2, <1>3 DEF TypeOK, tableVars, envVars
<1> HIDE DEF Audit
<1>5. ConnInv(c)'
  BY <1>1, <1>2, <1>3, <1>4 DEF CallInv, ConnInv, tableVars
<1>6. ReqInv(c)'
  BY <1>1, <1>2, <1>3, <1>4 DEF CallInv, ReqInv, Asked, Early, Undoing, tableVars
<1>7. TxInv(c)'
  BY <1>1, <1>2, <1>3, <1>4 DEF CallInv, TxInv, InTxFrom, Undoing, tableVars
<1>8. EffectInv(c)'
  BY <1>1, <1>2, <1>3, <1>4 DEF CallInv, EffectInv, BackedUpWrite, Early, Undoing, tableVars
<1>9. JournalInv(c)'
  BY <1>1, <1>2, <1>3, <1>4 DEF CallInv, JournalInv, BackedUpWrite, Severing, Ended, tableVars
<1>10. RowsInv(c)'
  BY <1>1, <1>2, <1>3, <1>4 DEF CallInv, RowsInv, Held, tableVars
<1>11. DdlInv(c)'
  BY <1>1, <1>2, <1>3, <1>4 DEF CallInv, DdlInv, WithinPlan, Early, tableVars
<1>12. KilledInv(c)'
  BY <1>1, <1>2, <1>3, <1>4 DEF CallInv, KilledInv, Preparing, Ended, tableVars
<1>13. QED
  BY <1>1, <1>2, <1>3, <1>4, <1>5, <1>6, <1>7, <1>8, <1>9, <1>10, <1>11, <1>12, ClientStep DEF Own, CallInv

LEMMA FinalizeInv == ASSUME IInv, NEW c \in Calls, Finalize(c) PROVE IInv'
<1> USE DEF Finalize
<1>1. /\ UNCHANGED <<stmt, timer, local, result, backup, row, conn, tableVars, envVars>>
      /\ pc[c] = "audited" /\ Text(c)' = Text(c) /\ CallInv(c) /\ TypeOK
  BY DEF env, Text, IInv
<1>2. pc' \in [Calls -> PcStates] /\ pc'[c] = "done" /\ \A d \in Calls \ {c} : pc'[d] = pc[d]
  BY <1>1, GotoFacts DEF PcStates
<1>3. /\ journal' \in [Calls -> JournalStates \cup {"none"}] /\ faults' \in 0..MaxFaults
      /\ \A d \in Calls \ {c} : journal'[d] = journal[d]
      /\ \/ journal'[c] = journal[c]
         \/ journal[c] = "mutation_committed" /\ journal'[c] = "audit_finalized" /\ row[c] = "approved"
  BY <1>1, JournalFacts, OnlyCommittedFinalised DEF TypeOK, JournalStates
<1>4. TypeOK'
  BY <1>1, <1>2, <1>3 DEF TypeOK, tableVars, envVars
<1> HIDE DEF Finalize
<1>5. ConnInv(c)'
  BY <1>1, <1>2, <1>3, <1>4 DEF CallInv, ConnInv, tableVars
<1>6. ReqInv(c)'
  BY <1>1, <1>2, <1>3, <1>4 DEF CallInv, ReqInv, Asked, Early, Undoing, tableVars
<1>7. TxInv(c)'
  BY <1>1, <1>2, <1>3, <1>4 DEF CallInv, TxInv, InTxFrom, Undoing, tableVars
<1>8. EffectInv(c)'
  BY <1>1, <1>2, <1>3, <1>4 DEF CallInv, EffectInv, BackedUpWrite, Early, Undoing, tableVars
<1>9. JournalInv(c)'
  BY <1>1, <1>2, <1>3, <1>4 DEF CallInv, JournalInv, BackedUpWrite, Severing, Ended, tableVars
<1>10. RowsInv(c)'
  BY <1>1, <1>2, <1>3, <1>4 DEF CallInv, RowsInv, Held, tableVars
<1>11. DdlInv(c)'
  BY <1>1, <1>2, <1>3, <1>4 DEF CallInv, DdlInv, WithinPlan, Early, tableVars
<1>12. KilledInv(c)'
  BY <1>1, <1>2, <1>3, <1>4 DEF CallInv, KilledInv, Preparing, Ended, tableVars
<1>13. QED
  BY <1>1, <1>2, <1>3, <1>4, <1>5, <1>6, <1>7, <1>8, <1>9, <1>10, <1>11, <1>12, ClientStep DEF Own, CallInv

-----------------------------------------------------------------------------
(* The server's steps that touch no table.                                 *)

LEMMA ReplyInv ==
  ASSUME IInv, NEW c \in Calls, NEW a \in {"ok", "err"}, NEW tx \in BOOLEAN, NEW pend \in SUBSET Tables,
         Reply(c, a, tx, pend), UNCHANGED <<serverless, tableVars>>,
         ConnInv(c)', TxInv(c)', EffectInv(c)', RowsInv(c)',
         conn[c].req # "none", tx => conn[c].tx \/ conn[c].req = "begin"
  PROVE  IInv'
<1>1. /\ UNCHANGED <<stmt, pc, timer, local, result, journal, backup, row, faults, tableVars, envVars>>
      /\ Text(c)' = Text(c) /\ CallInv(c) /\ TypeOK
  BY DEF serverless, clientVars, auditVars, envVars, Text, IInv
<1>2. /\ conn' \in [Calls -> Conns] /\ \A d \in Calls \ {c} : conn'[d] = conn[d]
      /\ conn'[c].alive = conn[c].alive /\ conn'[c].tx = tx /\ conn'[c].pend = pend
      /\ conn'[c].req = "none"
  BY <1>1, ReplyFacts DEF Answers
<1>3. TypeOK'
  BY <1>1, <1>2 DEF TypeOK, tableVars, envVars
<1>4. ReqInv(c)'
  BY <1>1, <1>2, <1>3 DEF CallInv, ReqInv, Asked, Early, Undoing, tableVars
<1>5. JournalInv(c)'
  BY <1>1, <1>2, <1>3 DEF CallInv, JournalInv, BackedUpWrite, Severing, Ended, tableVars
<1>6. DdlInv(c)'
  BY <1>1, <1>2, <1>3 DEF CallInv, DdlInv, WithinPlan, Early, tableVars
<1>7. KilledInv(c)'
  BY <1>1, <1>2, <1>3 DEF CallInv, KilledInv, Preparing, Ended, tableVars
<1>8. QED
  BY <1>1, <1>2, <1>3, <1>4, <1>5, <1>6, <1>7, ClientStep DEF Own, CallInv

LEMMA ServeBeginInv == ASSUME IInv, NEW c \in Calls, ServeBegin(c) PROVE IInv'
<1>1. /\ UNCHANGED <<stmt, pc, local, result, journal, backup, row, tableVars>>
      /\ UNCHANGED <<serverless, tableVars>>
      /\ conn[c].req = "begin" /\ Text(c)' = Text(c) /\ CallInv(c) /\ TypeOK
  BY DEF ServeBegin, serverless, clientVars, auditVars, Text, IInv
<1>2. PICK tx \in BOOLEAN, none \in SUBSET Tables : tx = TRUE /\ none = {} /\ Reply(c, "ok", tx, none)
  <2>1. WITNESS TRUE \in BOOLEAN, {} \in SUBSET Tables
  <2>2. QED
    BY DEF ServeBegin
<1>3. /\ conn'[c].alive = conn[c].alive /\ conn'[c].tx /\ conn'[c].pend = {} /\ conn'[c].req = "none"
      /\ conn[c].alive => conn'[c].ans = "ok"
      /\ ~conn[c].alive => conn'[c].ans = conn[c].ans
  BY <1>1, <1>2, ReplyFacts DEF Answers
<1>4. ~conn[c].alive => conn[c].ans = "err"
  BY <1>1 DEF CallInv, ConnInv
<1>5. conn[c].alive => pc[c] \notin (Early \ {"begin"}) \cup {"exec", "commit"}
  BY <1>1 DEF CallInv, ReqInv, Asked, Early
<1>6. ConnInv(c)'
  BY <1>1, <1>3, <1>4 DEF CallInv, ConnInv, tableVars
<1>7. TxInv(c)'
  BY <1>1, <1>3, <1>4, <1>5 DEF CallInv, TxInv, InTxFrom, Undoing, Early, tableVars
<1>8. EffectInv(c)'
  BY <1>1, <1>3, <1>4, <1>5 DEF CallInv, EffectInv, BackedUpWrite, tableVars
<1>9. RowsInv(c)'
  BY <1>1, <1>3, <1>4, <1>5 DEF CallInv, RowsInv, Held, Early, tableVars
<1>10. QED
  BY <1>1, <1>2, <1>6, <1>7, <1>8, <1>9, ReplyInv

LEMMA ServeOtherInv == ASSUME IInv, NEW c \in Calls, ServeOther(c) PROVE IInv'
<1> USE DEF ServeOther
<1> DEFINE tx == conn[c].tx /\ Text(c).cat # "admin"
<1>1. /\ UNCHANGED <<stmt, pc, local, result, journal, backup, row, tableVars>>
      /\ conn[c].req = "stmt" /\ Text(c)' = Text(c) /\ CallInv(c) /\ TypeOK /\ tx \in BOOLEAN
      /\ Text(c).cat \notin {"write", "ddl"} /\ Reply(c, "ok", tx, {})
  BY DEF serverless, clientVars, auditVars, Text, IInv
<1>2. /\ conn'[c].alive = conn[c].alive /\ conn'[c].tx = tx /\ conn'[c].pend = {} /\ conn'[c].req = "none"
      /\ conn[c].alive => conn'[c].ans = "ok"
      /\ ~conn[c].alive => conn'[c].ans = conn[c].ans
  <2> HIDE DEF tx
  <2>1. QED
    BY <1>1, ReplyFacts DEF Answers
<1>3. ~conn[c].alive => conn[c].ans = "err"
  BY <1>1 DEF CallInv, ConnInv
<1>4. conn[c].alive => pc[c] \notin Early \cup {"commit"}
  BY <1>1 DEF CallInv, ReqInv, Asked, Early
<1> HIDE DEF ServeOther
<1>5. ConnInv(c)'
  BY <1>1, <1>2, <1>3 DEF CallInv, ConnInv, tableVars
<1>6. TxInv(c)'
  BY <1>1, <1>2, <1>3, <1>4 DEF CallInv, TxInv, InTxFrom, Undoing, Early, tableVars
<1>7. EffectInv(c)'
  BY <1>1, <1>2, <1>3, <1>4 DEF CallInv, EffectInv, BackedUpWrite, tableVars
<1>8. RowsInv(c)'
  BY <1>1 DEF RowsInv
<1>9. UNCHANGED <<serverless, tableVars>> /\ (tx => conn[c].tx)
  BY DEF ServeOther
<1> HIDE DEF tx
<1>10. QED
  BY <1>1, <1>5, <1>6, <1>7, <1>8, <1>9, ReplyInv

(* Neither an answered verification nor an error changes the transaction. *)
LEMMA ServeVerifyInv ==
  ASSUME IInv, NEW c \in Calls, ServeVerify(c) \/ ServeError(c) PROVE IInv'
<1> USE DEF ServeVerify, ServeError
<1>1. /\ UNCHANGED <<stmt, pc, local, result, journal, backup, row, tableVars>>
      /\ Text(c)' = Text(c) /\ CallInv(c) /\ TypeOK /\ conn[c].req # "none"
      /\ conn[c].tx \in BOOLEAN /\ conn[c].pend \in SUBSET Tables /\ UNCHANGED <<serverless, tableVars>>
      /\ \/ conn[c].req = "verify" /\ Reply(c, "ok", conn[c].tx, conn[c].pend)
         \/ Reply(c, "err", conn[c].tx, conn[c].pend)
  BY DEF serverless, clientVars, auditVars, Text, IInv, TypeOK, Conns
<1>2. PICK a \in {"ok", "err"} : /\ a = "ok" => conn[c].req = "verify"
                                 /\ Reply(c, a, conn[c].tx, conn[c].pend)
  BY <1>1
<1>3. /\ conn'[c].alive = conn[c].alive /\ conn'[c].tx = conn[c].tx /\ conn'[c].pend = conn[c].pend
      /\ conn'[c].req = "none"
      /\ conn[c].alive => conn'[c].ans = a
      /\ ~conn[c].alive => conn'[c].ans = conn[c].ans
  BY <1>1, <1>2, ReplyFacts DEF Answers
<1>4. (~conn[c].alive => conn[c].ans = "err") /\ (conn[c].alive => conn[c].ans = "wait")
  BY <1>1 DEF CallInv, ConnInv
<1>5. conn[c].alive /\ a = "ok" => pc[c] \notin Early \cup {"exec", "commit"}
  BY <1>1, <1>2 DEF CallInv, ReqInv, Asked, Early
<1> HIDE DEF ServeVerify, ServeError
<1>6. ConnInv(c)'
  BY <1>1, <1>3, <1>4 DEF CallInv, ConnInv, tableVars
<1>7. TxInv(c)'
  BY <1>1, <1>2, <1>3, <1>4, <1>5 DEF CallInv, TxInv, InTxFrom, Undoing, Early, tableVars
<1>8. EffectInv(c)'
  BY <1>1, <1>2, <1>3, <1>4, <1>5 DEF CallInv, EffectInv, BackedUpWrite, tableVars
<1>9. RowsInv(c)'
  BY <1>1, <1>2, <1>3, <1>4, <1>5 DEF CallInv, RowsInv, Held, Early, tableVars
<1>10. QED
  BY <1>1, <1>2, <1>6, <1>7, <1>8, <1>9, ReplyInv

LEMMA BreaksInv == ASSUME IInv, NEW c \in Calls, Breaks(c) PROVE IInv'
<1> USE DEF Breaks
<1>1. /\ UNCHANGED <<stmt, pc, timer, local, result, journal, backup, row, faults, tableVars, envVars>>
      /\ conn[c].ans = "wait" /\ Text(c)' = Text(c) /\ CallInv(c) /\ TypeOK
  BY DEF serverless, clientVars, auditVars, envVars, Text, IInv
<1>2. /\ conn' \in [Calls -> Conns] /\ \A d \in Calls \ {c} : conn'[d] = conn[d]
      /\ ~conn'[c].alive /\ conn'[c].ans = "err" /\ conn'[c].tx = conn[c].tx
      /\ conn'[c].pend = conn[c].pend /\ conn'[c].req = conn[c].req
  BY <1>1, SeverFacts
<1>3. TypeOK'
  BY <1>1, <1>2 DEF TypeOK, tableVars, envVars
<1> HIDE DEF Breaks
<1>4. ConnInv(c)'
  BY <1>1, <1>2, <1>3 DEF CallInv, ConnInv, tableVars
<1>5. ReqInv(c)'
  BY <1>1, <1>2, <1>3 DEF CallInv, ReqInv, Asked, Early, Undoing, tableVars
<1>6. TxInv(c)'
  BY <1>1, <1>2, <1>3 DEF CallInv, TxInv, InTxFrom, Undoing, tableVars
<1>7. EffectInv(c)'
  BY <1>1, <1>2, <1>3 DEF CallInv, EffectInv, BackedUpWrite, Early, Undoing, tableVars
<1>8. JournalInv(c)'
  BY <1>1, <1>2, <1>3 DEF CallInv, JournalInv, BackedUpWrite, Severing, Ended, tableVars
<1>9. RowsInv(c)'
  BY <1>1, <1>2, <1>3 DEF CallInv, RowsInv, Held, tableVars
<1>10. DdlInv(c)'
  BY <1>1, <1>2, <1>3 DEF CallInv, DdlInv, WithinPlan, Early, tableVars
<1>11. KilledInv(c)'
  BY <1>1, <1>2, <1>3 DEF CallInv, KilledInv, Preparing, Ended, tableVars
<1>12. QED
  BY <1>1, <1>2, <1>3, <1>4, <1>5, <1>6, <1>7, <1>8, <1>9, <1>10, <1>11, ClientStep DEF Own, CallInv

-----------------------------------------------------------------------------
(* The server's steps on the tables: what c's session may change while the *)
(* others hold their locks.                                                *)

Others(c) ==
  \A d \in Calls \ {c} :
    /\ conn'[d] = conn[d] /\ before'[d] = before[d] /\ ((d \in applied') <=> (d \in applied))
    /\ \A t \in Tables : /\ (lock'[t] = d) <=> (lock[t] = d)
                         /\ lock[t] = d => content'[t] = content[t]

LEMMA ServerStep ==
  ASSUME IInv, NEW c \in Calls, UNCHANGED serverless, Others(c), TypeOK', CallInv(c)'
  PROVE  IInv'
<1>1. \A d \in Calls \ {c} : Same(d)
  BY DEF Others, Same, serverless, clientVars, auditVars
<1>2. \A d \in Calls \ {c} : CallInv(d)'
  BY <1>1, Frame DEF IInv
<1>3. QED
  BY <1>2 DEF IInv

LEMMA ServeExistsInv == ASSUME IInv, NEW c \in Calls, ServeExists(c) PROVE IInv'
<1>1. /\ UNCHANGED <<stmt, pc, timer, local, result, journal, backup, row, faults, tableVars, envVars>>
      /\ conn[c].req = "exists" /\ Text(c)' = Text(c) /\ CallInv(c) /\ TypeOK
  BY DEF ServeExists, serverless, clientVars, auditVars, envVars, Text, IInv
<1>2. /\ conn \in [Calls -> Conns] /\ content \in [Tables -> Contents]
      /\ local[c].todo \subseteq Tables /\ local[c].todo # {}
  BY <1>1 DEF TypeOK, Locals, CallInv, ReqInv
<1>3. /\ conn' \in [Calls -> Conns] /\ \A d \in Calls \ {c} : conn'[d] = conn[d]
      /\ conn'[c].alive = conn[c].alive /\ conn'[c].tx = conn[c].tx /\ conn'[c].pend = conn[c].pend
      /\ conn'[c].req = "none"
      /\ conn[c].alive => conn'[c].ans = "ok"
      /\ ~conn[c].alive => conn'[c].ans = conn[c].ans
  <2>1. content[First(local[c].todo)] \in Contents
    BY <1>2, FirstIn
  <2>2. QED
    BY <1>1, <2>1, FoundFacts DEF ServeExists
<1>4. TypeOK'
  BY <1>1, <1>3 DEF TypeOK, tableVars, envVars
<1>5. ~conn[c].alive => conn[c].ans = "err"
  BY <1>1 DEF CallInv, ConnInv
<1>6. conn[c].alive => pc[c] \notin {"idle", "setup", "begin", "journal", "arm", "capture", "send", "exec", "commit"}
  BY <1>1 DEF CallInv, ReqInv, Asked, Early
<1> HIDE DEF ServeExists
<1>7. ConnInv(c)'
  BY <1>1, <1>3, <1>4, <1>5, <1>6 DEF CallInv, ConnInv, tableVars
<1>8. ReqInv(c)'
  BY <1>1, <1>3, <1>4, <1>5, <1>6 DEF CallInv, ReqInv, Asked, Early, Undoing, tableVars
<1>9. TxInv(c)'
  BY <1>1, <1>3, <1>4, <1>5, <1>6 DEF CallInv, TxInv, InTxFrom, Undoing, tableVars
<1>10. EffectInv(c)'
  BY <1>1, <1>3, <1>4, <1>5, <1>6 DEF CallInv, EffectInv, BackedUpWrite, Early, Undoing, tableVars
<1>11. JournalInv(c)'
  BY <1>1, <1>3, <1>4, <1>5, <1>6 DEF CallInv, JournalInv, BackedUpWrite, Severing, Ended, tableVars
<1>12. RowsInv(c)'
  BY <1>1, <1>3, <1>4, <1>5, <1>6 DEF CallInv, RowsInv, Held, tableVars
<1>13. DdlInv(c)'
  BY <1>1, <1>3, <1>4, <1>5, <1>6 DEF CallInv, DdlInv, WithinPlan, Early, tableVars
<1>14. KilledInv(c)'
  BY <1>1, <1>3, <1>4, <1>5, <1>6 DEF CallInv, KilledInv, Preparing, Ended, tableVars
<1>15. QED
  BY <1>1, <1>3, <1>4, <1>5, <1>6, <1>7, <1>8, <1>9, <1>10, <1>11, <1>12, <1>13, <1>14, ClientStep DEF Own, CallInv

LEMMA ServeCaptureInv == ASSUME IInv, NEW c \in Calls, ServeCapture(c) PROVE IInv'
<1> DEFINE t == First(local[c].todo)
<1>1. /\ UNCHANGED <<stmt, pc, timer, local, result, journal, backup, row, faults, content, applied, before, envVars>>
      /\ conn[c].req = "capture" /\ t \in local[c].todo /\ Text(c)' = Text(c) /\ CallInv(c) /\ TypeOK
      /\ UNCHANGED serverless
  BY FirstIn DEF ServeCapture, serverless, clientVars, auditVars, envVars, Text, IInv
<1>2. /\ conn \in [Calls -> Conns] /\ content \in [Tables -> Contents] /\ t \in Tables
      /\ lock \in [Tables -> Calls \cup {None}]
  BY <1>1 DEF TypeOK, Locals
<1>3. /\ conn' \in [Calls -> Conns] /\ \A d \in Calls \ {c} : conn'[d] = conn[d]
      /\ conn'[c].alive = conn[c].alive /\ conn'[c].tx = conn[c].tx /\ conn'[c].pend = conn[c].pend
      /\ conn'[c].req = "none" /\ conn'[c].image = content[t]
      /\ conn[c].alive => conn'[c].ans = "ok"
      /\ ~conn[c].alive => conn'[c].ans = conn[c].ans
  BY <1>1, <1>2, FoundFacts DEF ServeCapture
<1>4. /\ lock' \in [Tables -> Calls \cup {None}]
      /\ \A u \in Tables : lock[u] = c => lock'[u] = c
      /\ \A u \in Tables : lock'[u] # lock[u] =>
           lock[u] = None /\ lock'[u] = c /\ Text(c).spec = "rows" /\ conn[c].tx
      /\ Text(c).spec = "rows" /\ conn[c].tx => lock'[t] = c
  BY <1>2 DEF ServeCapture, Free
<1>5. TypeOK'
  BY <1>1, <1>3, <1>4 DEF TypeOK, envVars
<1>6. (~conn[c].alive => conn[c].ans = "err") /\ (Text(c).spec = "rows" => Text(c).cat = "write")
  BY <1>1, StatementFacts DEF CallInv, ConnInv
<1>7. /\ conn[c].alive => pc[c] \notin {"idle", "setup", "begin", "journal", "preflight", "arm", "send", "exec", "commit"}
      /\ pc[c] = "capture" /\ conn[c].alive /\ Text(c).spec = "rows" => conn[c].tx
  BY <1>1 DEF CallInv, ReqInv, TxInv, InTxFrom, Asked, Early
<1>8. Others(c)
  BY <1>1, <1>2, <1>3, <1>4, ExecAssumption DEF Others
<1>9. Text(c).targets \subseteq Tables
  BY <1>1, StatementFacts
<1>10. RowsInv(c)'
  <2>1. Held(c) => Held(c)'
    BY <1>1, <1>4, <1>9 DEF Held
  <2>2. /\ Text(c).spec = "rows" /\ pc[c] = "capture" /\ conn[c].alive => lock'[t] = c
        /\ t = First(local'[c].todo)
    BY <1>1, <1>4, <1>7
  <2> HIDE DEF t
  <2>3. \A u \in Text(c).targets : lock[u] = c => lock'[u] = c
    BY <1>4, <1>9
  <2>4. QED
    BY <1>1, <1>3, <1>7, <2>1, <2>2, <2>3 DEF CallInv, RowsInv
<1> HIDE DEF t
<1>11. ConnInv(c)'
  BY <1>1, <1>3, <1>4, <1>5, <1>6, <1>7, <1>8, <1>9 DEF CallInv, ConnInv, tableVars
<1>12. ReqInv(c)'
  BY <1>1, <1>3, <1>4, <1>5, <1>6, <1>7, <1>8, <1>9 DEF CallInv, ReqInv, Asked, Early, Undoing, tableVars
<1>13. TxInv(c)'
  BY <1>1, <1>3, <1>4, <1>5, <1>6, <1>7, <1>8, <1>9 DEF CallInv, TxInv, InTxFrom, Undoing, tableVars
<1>14. EffectInv(c)'
  BY <1>1, <1>3, <1>4, <1>5, <1>6, <1>7, <1>8, <1>9 DEF CallInv, EffectInv, BackedUpWrite, Early, Undoing, tableVars
<1>15. JournalInv(c)'
  BY <1>1, <1>3, <1>4, <1>5, <1>6, <1>7, <1>8, <1>9 DEF CallInv, JournalInv, BackedUpWrite, Severing, Ended, tableVars
<1>16. DdlInv(c)'
  BY <1>1, <1>3, <1>4, <1>5, <1>6, <1>7, <1>8, <1>9 DEF CallInv, DdlInv, WithinPlan, Early, tableVars
<1>17. KilledInv(c)'
  BY <1>1, <1>3, <1>4, <1>5, <1>6, <1>7, <1>8, <1>9 DEF CallInv, KilledInv, Preparing, Ended, tableVars
<1>18. QED
  BY <1>1, <1>3, <1>4, <1>5, <1>6, <1>7, <1>8, <1>9, <1>10, <1>11, <1>12, <1>13, <1>14, <1>15, <1>16, <1>17, ServerStep DEF CallInv

(* A change by c leaves the rows that others hold. *)
LEMMA EffectFacts ==
  ASSUME TypeOK, NEW c \in Calls, NEW T \in SUBSET Tables, NEW new \in Contents,
         TakesEffect(c, T, new)
  PROVE  /\ content' \in [Tables -> Contents] /\ applied' \in SUBSET Calls
         /\ before' \in [Calls -> [Tables -> Contents \cup {None}]]
         /\ \A t \in Tables \ T : content'[t] = content[t]
         /\ \A d \in Calls \ {c} : before'[d] = before[d]
         /\ \A t \in Tables : before'[c][t] = IF t \in T THEN content[t] ELSE before[c][t]
         /\ applied' = applied \cup {c}
<1>1. /\ content \in [Tables -> Contents] /\ applied \in SUBSET Calls
      /\ before \in [Calls -> [Tables -> Contents \cup {None}]]
  BY DEF TypeOK
<1>2. content' \in [Tables -> Contents] /\ \A t \in Tables \ T : content'[t] = content[t]
  BY <1>1 DEF TakesEffect
<1> DEFINE b == [t \in Tables |-> IF t \in T THEN content[t] ELSE before[c][t]]
<1>3. before' = [before EXCEPT ![c] = b] /\ b \in [Tables -> Contents \cup {None}]
  BY <1>1 DEF TakesEffect
<1>4. /\ before' \in [Calls -> [Tables -> Contents \cup {None}]] /\ before'[c] = b
      /\ \A d \in Calls \ {c} : before'[d] = before[d]
  BY <1>1, <1>3
<1>5. QED
  BY <1>1, <1>2, <1>4 DEF TakesEffect

(* What c held is free, the rest is as it was. *)
LEMMA UnlockedFacts ==
  ASSUME TypeOK, NEW c \in Calls, lock' = Unlocked(c)
  PROVE  /\ lock' \in [Tables -> Calls \cup {None}]
         /\ \A t \in Tables : lock'[t] # c /\ \A d \in Calls \ {c} : (lock'[t] = d) <=> (lock[t] = d)
BY ExecAssumption DEF TypeOK, Unlocked

LEMMA ServeRollbackInv == ASSUME IInv, NEW c \in Calls, ServeRollback(c) PROVE IInv'
<1>1. /\ UNCHANGED <<stmt, pc, timer, local, result, journal, backup, row, faults, content, applied, before, envVars>>
      /\ conn[c].req = "rollback" /\ Text(c)' = Text(c) /\ CallInv(c) /\ TypeOK
      /\ UNCHANGED serverless
  BY DEF ServeRollback, serverless, clientVars, auditVars, envVars, Text, IInv
<1>2. PICK tx \in BOOLEAN, none \in SUBSET Tables : tx = FALSE /\ none = {} /\ Reply(c, "ok", tx, none)
  <2>1. WITNESS FALSE \in BOOLEAN, {} \in SUBSET Tables
  <2>2. QED
    BY DEF ServeRollback
<1>3. /\ conn' \in [Calls -> Conns] /\ \A d \in Calls \ {c} : conn'[d] = conn[d]
      /\ conn'[c].alive = conn[c].alive /\ ~conn'[c].tx /\ conn'[c].pend = {} /\ conn'[c].req = "none"
      /\ conn[c].alive => conn'[c].ans = "ok"
      /\ ~conn[c].alive => conn'[c].ans = conn[c].ans
  BY <1>1, <1>2, ReplyFacts DEF Answers
<1>4. /\ lock' \in [Tables -> Calls \cup {None}]
      /\ \A t \in Tables : lock'[t] # c /\ \A d \in Calls \ {c} : (lock'[t] = d) <=> (lock[t] = d)
  BY <1>1, UnlockedFacts DEF ServeRollback
<1>5. TypeOK'
  BY <1>1, <1>3, <1>4 DEF TypeOK, envVars
<1>6. ~conn[c].alive => conn[c].ans = "err"
  BY <1>1 DEF CallInv, ConnInv
<1>7. conn[c].alive => pc[c] \notin {"idle", "setup", "begin", "journal", "preflight", "arm", "capture",
                                     "send", "exec", "commit"}
  BY <1>1 DEF CallInv, ReqInv, Asked, Early
<1>8. Others(c)
  BY <1>1, <1>3, <1>4 DEF Others
<1>9. ConnInv(c)'
  BY <1>1, <1>3, <1>4, <1>5, <1>6, <1>7, <1>8 DEF CallInv, ConnInv, tableVars
<1>10. ReqInv(c)'
  BY <1>1, <1>3, <1>4, <1>5, <1>6, <1>7, <1>8 DEF CallInv, ReqInv, Asked, Early, Undoing, tableVars
<1>11. TxInv(c)'
  BY <1>1, <1>3, <1>4, <1>5, <1>6, <1>7, <1>8 DEF CallInv, TxInv, InTxFrom, Undoing, tableVars
<1>12. EffectInv(c)'
  BY <1>1, <1>3, <1>4, <1>5, <1>6, <1>7, <1>8 DEF CallInv, EffectInv, BackedUpWrite, Early, Undoing, tableVars
<1>13. JournalInv(c)'
  BY <1>1, <1>3, <1>4, <1>5, <1>6, <1>7, <1>8 DEF CallInv, JournalInv, BackedUpWrite, Severing, Ended, tableVars
<1>14. RowsInv(c)'
  BY <1>1, <1>3, <1>4, <1>5, <1>6, <1>7, <1>8 DEF CallInv, RowsInv, Held, tableVars
<1>15. DdlInv(c)'
  BY <1>1, <1>3, <1>4, <1>5, <1>6, <1>7, <1>8 DEF CallInv, DdlInv, WithinPlan, Early, tableVars
<1>16. KilledInv(c)'
  BY <1>1, <1>3, <1>4, <1>5, <1>6, <1>7, <1>8 DEF CallInv, KilledInv, Preparing, Ended, tableVars
<1>17. QED
  BY <1>1, <1>3, <1>4, <1>5, <1>6, <1>7, <1>8, <1>9, <1>10, <1>11, <1>12, <1>13, <1>14, <1>15, <1>16, ServerStep DEF CallInv

LEMMA CleanupInv == ASSUME IInv, NEW c \in Calls, Cleanup(c) PROVE IInv'
<1>1. /\ UNCHANGED <<stmt, pc, timer, local, result, journal, backup, row, faults, content, applied, before, envVars>>
      /\ ~conn[c].alive \/ pc[c] \in {"done", "dead"}
      /\ Text(c)' = Text(c) /\ CallInv(c) /\ TypeOK /\ UNCHANGED serverless
  BY DEF Cleanup, serverless, clientVars, auditVars, envVars, Text, IInv
<1>2. /\ conn' \in [Calls -> Conns] /\ \A d \in Calls \ {c} : conn'[d] = conn[d]
      /\ conn'[c].alive = conn[c].alive /\ ~conn'[c].tx /\ conn'[c].pend = {} /\ conn'[c].req = "none"
      /\ conn'[c].ans = conn[c].ans
  <2>1. conn \in [Calls -> Conns]
    BY <1>1 DEF TypeOK
  <2> DEFINE k == [conn[c] EXCEPT !.req = "none", !.tx = FALSE, !.pend = {}]
  <2>2. conn' = [conn EXCEPT ![c] = k]
    BY DEF Cleanup
  <2>3. /\ k \in Conns /\ k.alive = conn[c].alive /\ ~k.tx /\ k.pend = {} /\ k.req = "none"
        /\ k.ans = conn[c].ans
    BY <2>1 DEF Conns, Requests
  <2> HIDE DEF k
  <2>4. QED
    BY <2>1, <2>2, <2>3
<1>3. /\ lock' \in [Tables -> Calls \cup {None}]
      /\ \A t \in Tables : lock'[t] # c /\ \A d \in Calls \ {c} : (lock'[t] = d) <=> (lock[t] = d)
  BY <1>1, UnlockedFacts DEF Cleanup
<1>4. TypeOK'
  BY <1>1, <1>2, <1>3 DEF TypeOK, envVars
<1>5. ~conn[c].alive => conn[c].ans = "err"
  BY <1>1 DEF CallInv, ConnInv
<1>6. Others(c)
  BY <1>1, <1>2, <1>3 DEF Others
<1>7. ConnInv(c)'
  BY <1>1, <1>2, <1>3, <1>4, <1>5, <1>6 DEF CallInv, ConnInv, tableVars
<1>8. ReqInv(c)'
  BY <1>1, <1>2, <1>3, <1>4, <1>5, <1>6 DEF CallInv, ReqInv, Asked, Early, Undoing, tableVars
<1>9. TxInv(c)'
  BY <1>1, <1>2, <1>3, <1>4, <1>5, <1>6 DEF CallInv, TxInv, InTxFrom, Undoing, tableVars
<1>10. EffectInv(c)'
  BY <1>1, <1>2, <1>3, <1>4, <1>5, <1>6 DEF CallInv, EffectInv, BackedUpWrite, Early, Undoing, tableVars
<1>11. JournalInv(c)'
  BY <1>1, <1>2, <1>3, <1>4, <1>5, <1>6 DEF CallInv, JournalInv, BackedUpWrite, Severing, Ended, tableVars
<1>12. RowsInv(c)'
  BY <1>1, <1>2, <1>3, <1>4, <1>5, <1>6 DEF CallInv, RowsInv, Held, tableVars
<1>13. DdlInv(c)'
  BY <1>1, <1>2, <1>3, <1>4, <1>5, <1>6 DEF CallInv, DdlInv, WithinPlan, Early, tableVars
<1>14. KilledInv(c)'
  BY <1>1, <1>2, <1>3, <1>4, <1>5, <1>6 DEF CallInv, KilledInv, Preparing, Ended, tableVars
<1>15. QED
  BY <1>1, <1>2, <1>3, <1>4, <1>5, <1>6, <1>7, <1>8, <1>9, <1>10, <1>11, <1>12, <1>13, <1>14, ServerStep DEF CallInv

LEMMA ServeWriteInv == ASSUME IInv, NEW c \in Calls, ServeWrite(c) PROVE IInv'
<1> DEFINE T == Text(c).targets
<1>1. /\ UNCHANGED <<stmt, pc, timer, local, result, journal, backup, row, faults, envVars>>
      /\ conn[c].req = "stmt" /\ Text(c).cat = "write" /\ Text(c)' = Text(c) /\ CallInv(c) /\ TypeOK
      /\ Free(c, T) /\ UNCHANGED serverless /\ T \in SUBSET Tables
  BY StatementFacts DEF ServeWrite, serverless, clientVars, auditVars, envVars, Text, IInv
<1>2. (~conn[c].alive => conn[c].ans = "err") /\ pc[c] \notin Early /\ (BackedUpWrite(c) => conn[c].tx /\ c \notin applied)
  BY <1>1 DEF CallInv, ConnInv, ReqInv, TxInv, EffectInv, BackedUpWrite
<1>3. conn[c].alive => pc[c] \notin {"idle", "setup", "begin", "journal", "preflight", "arm", "capture",
                                     "send", "commit"}
  BY <1>1 DEF CallInv, ReqInv, Asked, Early
<1>4. CASE conn[c].tx
  <2>1. PICK tx \in BOOLEAN : tx = TRUE /\ Reply(c, "ok", tx, T)
    <3>1. WITNESS TRUE \in BOOLEAN
    <3>2. QED
      BY <1>4 DEF ServeWrite
  <2>2. /\ conn' \in [Calls -> Conns] /\ \A d \in Calls \ {c} : conn'[d] = conn[d]
        /\ conn'[c].alive = conn[c].alive /\ conn'[c].tx /\ conn'[c].pend = T /\ conn'[c].req = "none"
        /\ conn[c].alive => conn'[c].ans = "ok"
        /\ ~conn[c].alive => conn'[c].ans = conn[c].ans
    BY <1>1, <2>1, ReplyFacts DEF Answers
  <2>3. UNCHANGED <<content, applied, before>>
    BY <1>4 DEF ServeWrite
  <2>4. /\ lock' \in [Tables -> Calls \cup {None}]
        /\ \A t \in Tables : lock'[t] = IF t \in T THEN c ELSE lock[t]
    BY <1>1, <1>4 DEF ServeWrite, TypeOK
  <2>5. TypeOK'
    BY <1>1, <2>2, <2>3, <2>4 DEF TypeOK, envVars
  <2>6. Others(c)
    BY <1>1, <2>2, <2>3, <2>4, ExecAssumption DEF Others, Free
  <2>7. Text(c).spec = "rows" => Held(c) /\ Held(c)'
    BY <1>1, <2>3, <2>4 DEF CallInv, RowsInv, Held
  <2>8. ConnInv(c)'
    BY <1>1, <1>2, <1>3, <1>4, <2>2, <2>3, <2>4, <2>5, <2>6, <2>7 DEF CallInv, ConnInv, tableVars
  <2>9. ReqInv(c)'
    BY <1>1, <1>2, <1>3, <1>4, <2>2, <2>3, <2>4, <2>5, <2>6, <2>7 DEF CallInv, ReqInv, Asked, Early, Undoing, tableVars
  <2>10. TxInv(c)'
    BY <1>1, <1>2, <1>3, <1>4, <2>2, <2>3, <2>4, <2>5, <2>6, <2>7 DEF CallInv, TxInv, InTxFrom, Undoing, tableVars
  <2>11. EffectInv(c)'
    BY <1>1, <1>2, <1>3, <1>4, <2>2, <2>3, <2>4, <2>5, <2>6, <2>7 DEF CallInv, EffectInv, BackedUpWrite, Early, Undoing, tableVars
  <2>12. JournalInv(c)'
    BY <1>1, <1>2, <1>3, <1>4, <2>2, <2>3, <2>4, <2>5, <2>6, <2>7 DEF CallInv, JournalInv, BackedUpWrite, Severing, Ended, tableVars
  <2>13. RowsInv(c)'
    BY <1>1, <1>2, <1>3, <1>4, <2>2, <2>3, <2>4, <2>5, <2>6, <2>7 DEF CallInv, RowsInv, Held, tableVars
  <2>14. DdlInv(c)'
    BY <1>1, <1>2, <1>3, <1>4, <2>2, <2>3, <2>4, <2>5, <2>6, <2>7 DEF CallInv, DdlInv, WithinPlan, Early, tableVars
  <2>15. KilledInv(c)'
    BY <1>1, <1>2, <1>3, <1>4, <2>2, <2>3, <2>4, <2>5, <2>6, <2>7 DEF CallInv, KilledInv, Preparing, Ended, tableVars
  <2>16. QED
    BY <1>1, <1>2, <1>3, <1>4, <2>2, <2>3, <2>4, <2>5, <2>6, <2>7, <2>8, <2>9, <2>10, <2>11, <2>12, <2>13, <2>14, <2>15, ServerStep DEF CallInv
<1>5. CASE ~conn[c].tx
  <2>1. PICK tx \in BOOLEAN, none \in SUBSET Tables : tx = FALSE /\ none = {} /\ Reply(c, "ok", tx, none)
    <3>1. WITNESS FALSE \in BOOLEAN, {} \in SUBSET Tables
    <3>2. QED
      BY <1>5 DEF ServeWrite
  <2>2. /\ conn' \in [Calls -> Conns] /\ \A d \in Calls \ {c} : conn'[d] = conn[d]
        /\ conn'[c].alive = conn[c].alive /\ ~conn'[c].tx /\ conn'[c].pend = {} /\ conn'[c].req = "none"
        /\ conn[c].alive => conn'[c].ans = "ok"
        /\ ~conn[c].alive => conn'[c].ans = conn[c].ans
    BY <1>1, <2>1, ReplyFacts DEF Answers
  <2>3. /\ content' \in [Tables -> Contents] /\ applied' \in SUBSET Calls
        /\ before' \in [Calls -> [Tables -> Contents \cup {None}]]
        /\ \A t \in Tables \ T : content'[t] = content[t]
        /\ \A d \in Calls \ {c} : before'[d] = before[d]
        /\ applied' = applied \cup {c} /\ lock' = lock
    <3>1. TakesEffect(c, T, c) /\ UNCHANGED lock /\ c \in Contents
      BY <1>5 DEF ServeWrite, Contents
    <3> HIDE DEF T
    <3>2. QED
      BY <1>1, <3>1, EffectFacts
  <2>4. TypeOK'
    BY <1>1, <2>2, <2>3 DEF TypeOK, envVars
  <2>5. Others(c)
    BY <1>1, <2>2, <2>3, ExecAssumption DEF Others, Free
  <2>6. ~BackedUpWrite(c) /\ ~BackedUpWrite(c)' /\ Text(c).spec # "rows"
    BY <1>1, <1>2, <1>5 DEF BackedUpWrite
  <2>7. ConnInv(c)'
    BY <1>1, <1>2, <1>3, <1>5, <2>2, <2>3, <2>4, <2>5, <2>6 DEF CallInv, ConnInv, tableVars
  <2>8. ReqInv(c)'
    BY <1>1, <1>2, <1>3, <1>5, <2>2, <2>3, <2>4, <2>5, <2>6 DEF CallInv, ReqInv, Asked, Early, Undoing, tableVars
  <2>9. TxInv(c)'
    BY <1>1, <1>2, <1>3, <1>5, <2>2, <2>3, <2>4, <2>5, <2>6 DEF CallInv, TxInv, InTxFrom, Undoing, tableVars
  <2>10. EffectInv(c)'
    BY <1>1, <1>2, <1>3, <1>5, <2>2, <2>3, <2>4, <2>5, <2>6 DEF CallInv, EffectInv, BackedUpWrite, Early, Undoing, tableVars
  <2>11. JournalInv(c)'
    BY <1>1, <1>2, <1>3, <1>5, <2>2, <2>3, <2>4, <2>5, <2>6 DEF CallInv, JournalInv, BackedUpWrite, Severing, Ended, tableVars
  <2>12. RowsInv(c)'
    BY <1>1, <1>2, <1>3, <1>5, <2>2, <2>3, <2>4, <2>5, <2>6 DEF CallInv, RowsInv, Held, tableVars
  <2>13. DdlInv(c)'
    BY <1>1, <1>2, <1>3, <1>5, <2>2, <2>3, <2>4, <2>5, <2>6 DEF CallInv, DdlInv, WithinPlan, Early, tableVars
  <2>14. KilledInv(c)'
    BY <1>1, <1>2, <1>3, <1>5, <2>2, <2>3, <2>4, <2>5, <2>6 DEF CallInv, KilledInv, Preparing, Ended, tableVars
  <2>15. QED
    BY <1>1, <1>2, <1>3, <1>5, <2>2, <2>3, <2>4, <2>5, <2>6, <2>7, <2>8, <2>9, <2>10, <2>11, <2>12, <2>13, <2>14, ServerStep DEF CallInv
<1>6. QED
  BY <1>4, <1>5

LEMMA ServeDdlInv == ASSUME IInv, NEW c \in Calls, ServeDdl(c) PROVE IInv'
<1> DEFINE present == {t \in local[c].send : content[t] # Absent}
<1>1. /\ UNCHANGED <<stmt, pc, timer, local, result, journal, backup, row, faults, envVars>>
      /\ conn[c].req = "stmt" /\ Text(c).cat = "ddl" /\ Text(c)' = Text(c) /\ CallInv(c) /\ TypeOK
      /\ Free(c, present) /\ TakesEffect(c, present, Absent) /\ UNCHANGED serverless
      /\ present \in SUBSET Tables /\ Absent \in Contents /\ lock' = Unlocked(c)
  BY DEF ServeDdl, serverless, clientVars, auditVars, envVars, Text, IInv, TypeOK, Locals, Contents
<1>2. PICK tx \in BOOLEAN, none \in SUBSET Tables : tx = FALSE /\ none = {} /\ Reply(c, "ok", tx, none)
  <2>1. WITNESS FALSE \in BOOLEAN, {} \in SUBSET Tables
  <2>2. QED
    BY DEF ServeDdl
<1>3. /\ conn' \in [Calls -> Conns] /\ \A d \in Calls \ {c} : conn'[d] = conn[d]
      /\ conn'[c].alive = conn[c].alive /\ ~conn'[c].tx /\ conn'[c].pend = {} /\ conn'[c].req = "none"
      /\ conn[c].alive => conn'[c].ans = "ok"
      /\ ~conn[c].alive => conn'[c].ans = conn[c].ans
  BY <1>1, <1>2, ReplyFacts DEF Answers
<1>4. /\ lock' \in [Tables -> Calls \cup {None}]
      /\ \A t \in Tables : lock'[t] # c /\ \A d \in Calls \ {c} : (lock'[t] = d) <=> (lock[t] = d)
  BY <1>1, UnlockedFacts
<1>5. /\ content' \in [Tables -> Contents] /\ applied' \in SUBSET Calls
      /\ before' \in [Calls -> [Tables -> Contents \cup {None}]]
      /\ \A t \in Tables \ present : content'[t] = content[t]
      /\ \A d \in Calls \ {c} : before'[d] = before[d]
      /\ \A t \in Tables : before'[c][t] # None => t \in present \/ before[c][t] # None
      /\ applied' = applied \cup {c}
  <2> HIDE DEF present
  <2>1. QED
    BY <1>1, EffectFacts
<1>6. TypeOK'
  BY <1>1, <1>3, <1>4, <1>5 DEF TypeOK, envVars
<1>7. Others(c)
  <2> HIDE DEF present
  <2>1. QED
    BY <1>1, <1>3, <1>4, <1>5, ExecAssumption DEF Others, Free
<1>8. (~conn[c].alive => conn[c].ans = "err") /\ pc[c] \notin Early
  BY <1>1 DEF CallInv, ConnInv, ReqInv
<1>9. conn[c].alive => pc[c] \notin {"idle", "setup", "begin", "journal", "preflight", "arm", "capture",
                                     "send", "commit"}
  BY <1>1 DEF CallInv, ReqInv, Asked, Early
<1>10. present \subseteq local[c].found /\ WithinPlan(c)
  BY <1>1 DEF CallInv, DdlInv
<1>11. DdlInv(c)'
  <2>1. local[c].found \subseteq Text(c).targets
    BY <1>1 DEF CallInv, DdlInv
  <2>2. \A t \in Tables : before'[c][t] # None => t \in local[c].found /\ (Text(c).planned => t \in Text(c).plan)
    BY <1>1, <1>5, <1>10 DEF CallInv, DdlInv, WithinPlan
  <2>3. QED
    BY <1>1, <1>3, <1>8, <2>1, <2>2, <1>10 DEF CallInv, DdlInv, WithinPlan, Early
<1> HIDE DEF present
<1>12. ConnInv(c)'
  BY <1>1, <1>3, <1>4, <1>5, <1>6, <1>7, <1>8, <1>9 DEF CallInv, ConnInv, tableVars
<1>13. ReqInv(c)'
  BY <1>1, <1>3, <1>4, <1>5, <1>6, <1>7, <1>8, <1>9 DEF CallInv, ReqInv, Asked, Early, Undoing, tableVars
<1>14. TxInv(c)'
  BY <1>1, <1>3, <1>4, <1>5, <1>6, <1>7, <1>8, <1>9 DEF CallInv, TxInv, InTxFrom, Undoing, tableVars
<1>15. EffectInv(c)'
  BY <1>1, <1>3, <1>4, <1>5, <1>6, <1>7, <1>8, <1>9 DEF CallInv, EffectInv, BackedUpWrite, Early, Undoing, tableVars
<1>16. JournalInv(c)'
  BY <1>1, <1>3, <1>4, <1>5, <1>6, <1>7, <1>8, <1>9 DEF CallInv, JournalInv, BackedUpWrite, Severing, Ended, tableVars
<1>17. RowsInv(c)'
  BY <1>1, <1>3, <1>4, <1>5, <1>6, <1>7, <1>8, <1>9 DEF CallInv, RowsInv, Held, tableVars
<1>18. KilledInv(c)'
  BY <1>1, <1>3, <1>4, <1>5, <1>6, <1>7, <1>8, <1>9 DEF CallInv, KilledInv, Preparing, Ended, tableVars
<1>19. QED
  BY <1>1, <1>3, <1>4, <1>5, <1>6, <1>7, <1>8, <1>9, <1>11, <1>12, <1>13, <1>14, <1>15, <1>16, <1>17, <1>18, ServerStep DEF CallInv

(* The COMMIT of a write with a backup replaces what the backup holds. *)
LEMMA ServeCommitInv == ASSUME IInv, NEW c \in Calls, ServeCommit(c) PROVE IInv'
<1> DEFINE T == conn[c].pend
<1>1. /\ UNCHANGED <<stmt, pc, timer, local, result, journal, backup, row, faults, envVars>>
      /\ conn[c].req = "commit" /\ Text(c)' = Text(c) /\ CallInv(c) /\ TypeOK
      /\ UNCHANGED serverless /\ T \in SUBSET Tables /\ c \in Contents /\ lock' = Unlocked(c)
      /\ \/ T # {} /\ TakesEffect(c, T, c)
         \/ T = {} /\ UNCHANGED <<content, before, applied>>
  BY DEF ServeCommit, serverless, clientVars, auditVars, envVars, Text, IInv, TypeOK, Conns, Contents
<1>2. PICK tx \in BOOLEAN, none \in SUBSET Tables : tx = FALSE /\ none = {} /\ Reply(c, "ok", tx, none)
  <2>1. WITNESS FALSE \in BOOLEAN, {} \in SUBSET Tables
  <2>2. QED
    BY DEF ServeCommit
<1>3. /\ conn' \in [Calls -> Conns] /\ \A d \in Calls \ {c} : conn'[d] = conn[d]
      /\ conn'[c].alive = conn[c].alive /\ ~conn'[c].tx /\ conn'[c].pend = {} /\ conn'[c].req = "none"
      /\ conn[c].alive => conn'[c].ans = "ok"
      /\ ~conn[c].alive => conn'[c].ans = conn[c].ans
  BY <1>1, <1>2, ReplyFacts DEF Answers
<1>4. /\ lock' \in [Tables -> Calls \cup {None}]
      /\ \A t \in Tables : lock'[t] # c /\ \A d \in Calls \ {c} : (lock'[t] = d) <=> (lock[t] = d)
  BY <1>1, UnlockedFacts
<1>5. /\ content' \in [Tables -> Contents] /\ applied' \in SUBSET Calls
      /\ before' \in [Calls -> [Tables -> Contents \cup {None}]]
      /\ \A t \in Tables \ T : content'[t] = content[t]
      /\ \A d \in Calls \ {c} : before'[d] = before[d]
      /\ \A t \in Tables : before'[c][t] = IF t \in T THEN content[t] ELSE before[c][t]
      /\ applied' = IF T # {} THEN applied \cup {c} ELSE applied
  <2> HIDE DEF T
  <2>1. CASE T # {} /\ TakesEffect(c, T, c)
    BY <1>1, <2>1, EffectFacts
  <2>2. CASE T = {} /\ UNCHANGED <<content, before, applied>>
    BY <1>1, <2>2 DEF TypeOK
  <2>3. QED
    BY <1>1, <2>1, <2>2
<1>6. TypeOK'
  BY <1>1, <1>3, <1>4, <1>5 DEF TypeOK, envVars
<1>7. (~conn[c].alive => conn[c].ans = "err") /\ (T # {} => Text(c).cat = "write" /\ T = Text(c).targets)
      /\ \A t \in T : lock[t] = c
  BY <1>1 DEF CallInv, ConnInv
<1>8. /\ pc[c] \notin Early \cup Undoing \cup {"exec"}
      /\ pc[c] \notin InTxFrom \cup {"begin"}
      /\ journal[c] # "failed" \/ ~BackedUpWrite(c)
  BY <1>1 DEF CallInv, ReqInv, JournalInv, Early, InTxFrom, Undoing
<1>9. Others(c)
  BY <1>1, <1>3, <1>4, <1>5, <1>7 DEF Others
<1>10. EffectInv(c)'
  <2>1. BackedUpWrite(c) /\ conn[c].pend = {} /\ pc[c] = "commit" /\ conn[c].alive => FALSE
    BY <1>1, StatementFacts DEF CallInv, EffectInv, BackedUpWrite
  <2>2. BackedUpWrite(c) /\ c \notin applied' => before'[c] = before[c] /\ c \notin applied
    <3>1. CASE T # {}
      BY <1>5, <3>1
    <3>2. CASE T = {}
      BY <1>1, <1>5, <3>2 DEF TypeOK
    <3>3. QED
      BY <3>1, <3>2
  <2>3. QED
    BY <1>1, <1>3, <1>5, <1>7, <1>8, <2>1, <2>2 DEF CallInv, EffectInv, BackedUpWrite, Early, Undoing
<1>11. RowsInv(c)'
  <2>1. SUFFICES ASSUME Text(c).cat = "write", Text(c).spec = "rows" PROVE RowsInv(c)'
    BY <1>1 DEF RowsInv
  <2>2. c \in applied' => backup[c] = before'[c]
    <3>1. CASE T = {}
      <4>1. before'[c] = before[c]
        BY <1>1, <1>5, <3>1 DEF TypeOK
      <4>2. QED
        BY <1>1, <1>5, <2>1, <3>1, <4>1 DEF CallInv, RowsInv
    <3>2. CASE T # {}
      <4>1. c \notin applied /\ before[c] = NoImages
        BY <1>1, <2>1, <3>2 DEF CallInv, EffectInv, BackedUpWrite
      <4>2. /\ \A t \in T : content[t] = backup[c][t]
            /\ \A t \in Tables \ T : backup[c][t] = None
        BY <1>1, <1>7, <2>1, <3>2 DEF CallInv, RowsInv, Held
      <4>3. \A t \in Tables : before'[c][t] = backup[c][t]
        BY <1>5, <4>1, <4>2 DEF NoImages
      <4>4. backup[c] \in [Tables -> Contents \cup {None}] /\ before'[c] \in [Tables -> Contents \cup {None}]
        BY <1>1, <1>5 DEF TypeOK
      <4>5. QED
        BY <4>3, <4>4
    <3>3. QED
      BY <3>1, <3>2
  <2>3. \A t \in Tables \ Text(c).targets : backup[c][t] = None
    BY <1>1, <2>1 DEF CallInv, RowsInv
  <2>4. QED
    BY <1>1, <1>3, <1>8, <2>2, <2>3 DEF RowsInv, Early
<1>12. DdlInv(c)'
  <2>1. Text(c).cat = "ddl" => before'[c] = before[c]
    BY <1>1, <1>5, <1>7 DEF TypeOK
  <2>2. QED
    BY <1>1, <1>3, <1>8, <2>1 DEF CallInv, DdlInv, WithinPlan, Early
<1> HIDE DEF T
<1>13. ConnInv(c)'
  BY <1>1, <1>3, <1>4, <1>5, <1>6, <1>7, <1>8, <1>9 DEF CallInv, ConnInv, tableVars
<1>14. ReqInv(c)'
  BY <1>1, <1>3, <1>4, <1>5, <1>6, <1>7, <1>8, <1>9 DEF CallInv, ReqInv, Asked, Early, Undoing, tableVars
<1>15. TxInv(c)'
  BY <1>1, <1>3, <1>4, <1>5, <1>6, <1>7, <1>8, <1>9 DEF CallInv, TxInv, InTxFrom, Undoing, tableVars
<1>16. JournalInv(c)'
  BY <1>1, <1>3, <1>4, <1>5, <1>6, <1>7, <1>8, <1>9 DEF CallInv, JournalInv, BackedUpWrite, Severing, Ended, tableVars
<1>17. KilledInv(c)'
  BY <1>1, <1>3, <1>4, <1>5, <1>6, <1>7, <1>8, <1>9 DEF CallInv, KilledInv, Preparing, Ended, tableVars
<1>18. QED
  BY <1>1, <1>3, <1>4, <1>5, <1>6, <1>7, <1>8, <1>9, <1>10, <1>11, <1>12, <1>13, <1>14, <1>15, <1>16, <1>17, ServerStep DEF CallInv

-----------------------------------------------------------------------------
(* Everyone else, and the whole.                                           *)

LEMMA OtherWritesInv == ASSUME IInv, NEW t \in Tables, OtherWrites(t) PROVE IInv'
<1>1. /\ UNCHANGED <<stmt, pc, timer, local, result, journal, backup, row, faults, conn, lock, applied, before, crashes>>
      /\ lock[t] = None /\ writes < MaxWrites /\ writes' = writes + 1 /\ TypeOK
  BY DEF OtherWrites, clientVars, auditVars, IInv
<1>2. content' \in [Tables -> Contents] /\ \A u \in Tables \ {t} : content'[u] = content[u]
  BY <1>1 DEF OtherWrites, TypeOK, Contents
<1>3. TypeOK'
  BY <1>1, <1>2, ExecAssumption DEF TypeOK
<1>4. \A d \in Calls : Same(d)
  BY <1>1, <1>2, ExecAssumption DEF Same
<1>5. QED
  BY <1>3, <1>4, Frame DEF IInv

LEMMA CrashInv == ASSUME IInv, Crash PROVE IInv'
<1>1. /\ UNCHANGED <<stmt, timer, local, result, journal, backup, row, faults, tableVars, writes>>
      /\ TypeOK /\ conn \in [Calls -> Conns] /\ pc \in [Calls -> PcStates]
  BY DEF Crash, auditVars, tableVars, IInv, TypeOK
<1>2. crashes' \in 0..MaxCrashes
  <2>1. crashes \in 0..MaxCrashes /\ MaxCrashes \in Nat
    BY <1>1, ExecAssumption DEF TypeOK
  <2>2. crashes < MaxCrashes /\ crashes' = crashes + 1
    BY DEF Crash
  <2>3. QED
    BY <2>1, <2>2
<1>3. ASSUME NEW c \in Calls
      PROVE  /\ pc'[c] \in PcStates /\ conn'[c] \in Conns
             /\ \/ pc'[c] = pc[c] /\ conn'[c] = conn[c]
                \/ /\ pc'[c] = "dead" /\ ~conn'[c].alive /\ conn'[c].ans = "err"
                   /\ conn'[c].req = conn[c].req /\ conn'[c].tx = conn[c].tx /\ conn'[c].pend = conn[c].pend
  <2>1. CASE pc[c] \in {"idle", "done"}
    BY <1>1, <2>1 DEF Crash
  <2>2. CASE pc[c] \notin {"idle", "done"}
    <3>1. pc'[c] = "dead" /\ conn'[c] = [conn[c] EXCEPT !.alive = FALSE, !.ans = "err"]
      BY <1>1, <2>2 DEF Crash
    <3>2. conn[c] \in Conns
      BY <1>1
    <3>3. QED
      BY <3>1, <3>2 DEF Conns, Answers, PcStates
  <2>3. QED
    BY <2>1, <2>2
<1>4. TypeOK'
  <2>1. pc' \in [Calls -> PcStates] /\ conn' \in [Calls -> Conns]
    BY <1>3 DEF Crash
  <2>2. QED
    BY <1>1, <1>2, <2>1 DEF TypeOK, tableVars
<1>5. ASSUME NEW c \in Calls PROVE CallInv(c)'
  <2>1. CASE pc'[c] = pc[c] /\ conn'[c] = conn[c]
    BY <1>1, <2>1, Frame DEF IInv, Same, tableVars
  <2>2. CASE ~(pc'[c] = pc[c] /\ conn'[c] = conn[c])
    <3>1. /\ UNCHANGED <<stmt, timer, local, result, journal, backup, row, tableVars>>
          /\ pc'[c] = "dead" /\ ~conn'[c].alive /\ conn'[c].ans = "err"
          /\ conn'[c].req = conn[c].req /\ conn'[c].tx = conn[c].tx /\ conn'[c].pend = conn[c].pend
          /\ Text(c)' = Text(c) /\ CallInv(c)
      BY <1>1, <1>3, <2>2 DEF Text, IInv
    <3>2. ConnInv(c)'
      BY <3>1 DEF CallInv, ConnInv, tableVars
    <3>3. ReqInv(c)'
      BY <3>1 DEF CallInv, ReqInv, Asked, Early, Undoing, tableVars
    <3>4. TxInv(c)'
      BY <3>1 DEF CallInv, TxInv, InTxFrom, Undoing, tableVars
    <3>5. EffectInv(c)'
      BY <3>1 DEF CallInv, EffectInv, BackedUpWrite, Early, Undoing, tableVars
    <3>6. JournalInv(c)'
      BY <3>1 DEF CallInv, JournalInv, BackedUpWrite, Severing, Ended, tableVars
    <3>7. RowsInv(c)'
      BY <3>1 DEF CallInv, RowsInv, Held, tableVars
    <3>8. DdlInv(c)'
      BY <3>1 DEF CallInv, DdlInv, WithinPlan, Early, tableVars
    <3>9. KilledInv(c)'
      BY <3>1 DEF CallInv, KilledInv, Preparing, Ended, tableVars
    <3>10. QED
      BY <3>2, <3>3, <3>4, <3>5, <3>6, <3>7, <3>8, <3>9 DEF CallInv
  <2>3. QED
    BY <2>1, <2>2
<1>6. QED
  BY <1>4, <1>5 DEF IInv

LEMMA InitInv == ASSUME Init PROVE IInv
<1>1. /\ NoImages \in [Tables -> Contents \cup {None}] /\ {Orig, Absent} \subseteq Contents
      /\ MaxWrites \in Nat /\ MaxFaults \in Nat /\ MaxCrashes \in Nat
  BY ExecAssumption DEF NoImages, Contents
<1>2. \A c \in Calls :
        /\ stmt[c] \in Statements /\ stmt[c].targets \subseteq Tables
        /\ stmt[c].cat \in {"write", "ddl"} => stmt[c].targets # {}
  <2>1. \A c \in Calls : stmt[c] \in Statements
    BY DEF Init
  <2>2. \A s \in Statements : s.targets \subseteq Tables /\ (s.cat \in {"write", "ddl"} => s.targets # {})
    BY ExecAssumption DEF StatementType
  <2>3. QED
    BY <2>1, <2>2
<1>3. TypeOK
  <2>1. local \in [Calls -> Locals]
    BY <1>2 DEF Init, Locals, Results
  <2>2. conn \in [Calls -> Conns]
    BY <1>1 DEF Init, Conns, Requests, Answers
  <2>3. stmt \in [Calls -> Statements] /\ content \in [Tables -> Contents]
    BY <1>1 DEF Init
  <2>4. pc \in [Calls -> PcStates] /\ result \in [Calls -> Results]
    BY DEF Init, PcStates, Preparing, Results
  <2>5. /\ backup \in [Calls -> [Tables -> Contents \cup {None}]]
        /\ before \in [Calls -> [Tables -> Contents \cup {None}]]
    BY <1>1 DEF Init
  <2>6. /\ timer \in [Calls -> {"off", "armed", "killing", "killed", "unkilled"}]
        /\ journal \in [Calls -> JournalStates \cup {"none"}]
        /\ row \in [Calls -> {"none", "approved", "execution_error"}]
        /\ lock \in [Tables -> Calls \cup {None}] /\ applied \in SUBSET Calls
    BY DEF Init
  <2>7. writes \in 0..MaxWrites /\ faults \in 0..MaxFaults /\ crashes \in 0..MaxCrashes
    BY <1>1 DEF Init
  <2>8. QED
    BY <2>1, <2>2, <2>3, <2>4, <2>5, <2>6, <2>7 DEF TypeOK
<1>4. ASSUME NEW c \in Calls PROVE CallInv(c)
  <2>1. /\ pc[c] = "idle" /\ timer[c] = "off" /\ result[c] = "none" /\ journal[c] = "none"
        /\ backup[c] = NoImages /\ before[c] = NoImages /\ c \notin applied
        /\ ~local[c].inTx /\ local[c].found = {} /\ local[c].send = stmt[c].targets
        /\ local[c].err = "none"
        /\ conn[c].alive /\ conn[c].req = "none" /\ conn[c].ans = "none" /\ ~conn[c].tx /\ conn[c].pend = {}
    BY DEF Init
  <2>2. \A t \in Tables : lock[t] # c /\ NoImages[t] = None
    BY ExecAssumption DEF Init, NoImages
  <2>3. ConnInv(c) /\ ReqInv(c) /\ TxInv(c)
    BY <2>1, <2>2 DEF ConnInv, ReqInv, Asked, TxInv, Early, InTxFrom, Undoing
  <2>4. EffectInv(c) /\ JournalInv(c) /\ KilledInv(c)
    BY <2>1 DEF EffectInv, JournalInv, KilledInv, BackedUpWrite, Undoing
  <2>5. RowsInv(c) /\ DdlInv(c)
    BY <1>2, <2>1, <2>2 DEF RowsInv, DdlInv, Text
  <2>6. QED
    BY <2>3, <2>4, <2>5 DEF CallInv
<1>5. QED
  BY <1>3, <1>4 DEF IInv

LEMMA StepInv == ASSUME IInv, [Next]_vars PROVE IInv'
<1>1. ASSUME NEW c \in Calls, Start(c) \/ Step(c) PROVE IInv'
  BY <1>1, StartInv, SetUpInv, BeginInv, OpenJournalInv, PreflightAskInv, PreflightDoneInv, CaptureInv,
     CaptureTableInv, CapturedInv, ExecuteInv, ExecutedInv, CommittedInv, CommitFailsInv, SendRollbackInv,
     RolledBackInv, DeadlineInv, GraceInv, UnwindInv, VerifiedInv, AuditInv, FinalizeInv DEF Step
<1>2. ASSUME NEW c \in Calls, Serve(c) PROVE IInv'
  BY <1>2, ServeBeginInv, ServeExistsInv, ServeCaptureInv, ServeWriteInv, ServeDdlInv, ServeOtherInv,
     ServeCommitInv, ServeRollbackInv, ServeVerifyInv DEF Serve
<1>3. CASE UNCHANGED vars
  <2>1. TypeOK' /\ \A d \in Calls : Same(d)
    BY <1>3 DEF vars, clientVars, auditVars, tableVars, envVars, IInv, TypeOK, Same
  <2>2. QED
    BY <2>1, Frame DEF IInv
<1>4. QED
  BY <1>1, <1>2, <1>3, BreaksInv, CleanupInv, OtherWritesInv, CrashInv DEF Next

-----------------------------------------------------------------------------

(* The invariant holds of every state a behaviour reaches. *)
THEOREM ExecInvariant == Spec => []IInv
  BY InitInv, StepInv, PTL DEF Spec

(* Every variable keeps its type. *)
THEOREM ExecTypeCorrect == Spec => []TypeOK
<1>1. IInv => TypeOK
  BY DEF IInv
<1>2. QED
  BY <1>1, ExecInvariant, PTL

(* However the calls, the other sessions, the kills and the crashes        *)
(* interleave, the stored backup of a write is the content it replaced.    *)
THEOREM ExecBackupIsPreImage == Spec => []BackupIsPreImage
<1>1. IInv => BackupIsPreImage
  BY DEF IInv, TypeOK, CallInv, RowsInv, BackupIsPreImage
<1>2. QED
  BY <1>1, ExecInvariant, PTL

(* A journal row never contradicts the server about a write with a backup. *)
THEOREM ExecJournalTruthful == Spec => []JournalTruthful
<1>1. IInv => JournalTruthful
  BY DEF IInv, CallInv, JournalInv, JournalTruthful
<1>2. QED
  BY <1>1, ExecInvariant, PTL

(* A write that took effect is approved in the audit log, recoverable, or  *)
(* marked uncertain, if its journal row could be opened at all.            *)
THEOREM ExecAppliedLeavesTrace == Spec => []AppliedLeavesTrace
<1>1. ASSUME IInv, NEW c \in applied, BackedUpWrite(c)
      PROVE  row[c] = "approved" \/ recoverable(c) \/ journal[c] \in {"none", "uncertain"}
  <2>1. c \in Calls /\ journal[c] \in JournalStates \cup {"none"}
    BY <1>1 DEF IInv, TypeOK
  <2>2. journal[c] # "failed" /\ (journal[c] = "audit_finalized" => row[c] = "approved")
    BY <1>1, <2>1 DEF IInv, CallInv, JournalInv
  <2>3. QED
    BY <2>1, <2>2 DEF recoverable, Terminal
<1>2. IInv => AppliedLeavesTrace
  BY <1>1 DEF AppliedLeavesTrace
<1>3. QED
  BY <1>2, ExecInvariant, PTL

(* A connection goes back to the pool after a killed statement without a   *)
(* transaction and without a lock.                                         *)
THEOREM ExecReusedClean == Spec => []ReusedClean
<1>1. IInv => ReusedClean
  BY DEF IInv, CallInv, KilledInv, ConnInv, ReusedClean
<1>2. QED
  BY <1>1, ExecInvariant, PTL

(* A DROP removes only tables that its preflight found and its plan named. *)
THEOREM ExecDroppedWasApproved == Spec => []DroppedWasApproved
<1>1. IInv => DroppedWasApproved
  BY DEF IInv, TypeOK, CallInv, DdlInv, DroppedWasApproved
<1>2. QED
  BY <1>1, ExecInvariant, PTL

=============================================================================
