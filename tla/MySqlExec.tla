------------------------------ MODULE MySqlExec ------------------------------
(***************************************************************************)
(* Statements on a MySQL server: execute_mysql_statement of                *)
(* src/src/sql/mysql.rs with its pre-image backup, its operation journal,  *)
(* the overall deadline and KILL QUERY, and what run_sql does with the     *)
(* result.  Several calls run at once, on connections of their own, over   *)
(* one server whose tables other sessions write, create and drop.          *)
(*                                                                         *)
(* A table's content is the name of who wrote it last.  The server is the  *)
(* external part: it answers a request, refuses it, lets the connection    *)
(* break before or after it served it, or never answers at all.  A DDL     *)
(* statement of the model is a DROP.  SET SESSION, whose result the code   *)
(* ignores, is left out, and the order of the targets in a statement's     *)
(* text is the one CHOOSE has.                                             *)
(***************************************************************************)
EXTENDS Naturals

CONSTANTS Calls,      (* statements under way, one each                      *)
          Tables,
          Statements, (* the statements a call may bring                     *)
          Orig, Other, Absent, None, (* model values                         *)
          MaxWrites,  (* bound: writes by other sessions                     *)
          MaxFaults,  (* bound: failed writes of the audit database          *)
          MaxCrashes  (* bound: deaths of the server process                 *)

Categories == {"read", "write", "ddl", "admin", "tx_ctrl"}
Specs      == {"unneeded", "fails", "none", "hint", "rows", "combined"}

(* What classifier, extractor and plan say of a statement.  The spec is    *)
(* "unneeded" when its ast_type is outside is_backup_required.             *)
StatementType ==
  [cat : Categories, spec : Specs, targets : SUBSET Tables, ifExists : BOOLEAN,
   rewritable : BOOLEAN, planned : BOOLEAN, plan : SUBSET Tables]

ASSUME ExecAssumption ==
  /\ Statements \subseteq StatementType
  /\ \A s \in Statements :
       /\ s.cat \in {"write", "ddl"} => s.targets # {}
       /\ s.cat \notin {"write", "ddl"} => s.spec = "unneeded"
       /\ s.spec = "rows" => s.cat = "write"
  /\ MaxWrites \in Nat /\ MaxFaults \in Nat /\ MaxCrashes \in Nat
  /\ None \notin Calls /\ {Orig, Other, Absent} \cap (Calls \cup {None}) = {}

VARIABLES stmt,    (* the statement of each call                             *)
          pc,      (* where its future is                                    *)
          timer,   (* the deadline around its work future                    *)
          local,   (* its locals                                             *)
          result,  (* what execute_mysql_statement returned                  *)
          journal, (* the state of its journal row                           *)
          backup,  (* the pre-images it stored in the audit database         *)
          row,     (* its row in the audit log                               *)
          faults,
          conn,    (* its connection, the client's and the server's end      *)
          content, (* the tables                                             *)
          lock,    (* who holds a table's row locks                          *)
          applied, (* history: calls whose change took effect                *)
          before,  (* history: the content that change replaced              *)
          writes, crashes

clientVars == <<stmt, pc, timer, local, result>>
auditVars  == <<journal, backup, row, faults>>
tableVars  == <<content, lock, applied, before>>
envVars    == <<writes, crashes>>
vars       == <<clientVars, auditVars, conn, tableVars, envVars>>

Contents == Calls \cup {Orig, Other, Absent}

JournalStates ==
  {"planned", "backup_capturing", "backup_durable", "mutation_executing",
   "mutation_committed", "audit_finalized", "failed", "uncertain"}
Terminal == {"audit_finalized", "failed", "uncertain"}

(* The future before the deadline is armed, and under it. *)
Preparing == {"idle", "setup", "begin", "journal", "preflight", "arm"}
Working   == {"capture", "send", "exec", "commit", "rollback", "rolling", "unrolling"}
(* Severing the connection after the deadline; then run_sql's part. *)
Severing  == {"unwind", "unwinding", "verifying"}
Reporting == {"returned", "audited", "finalized"}
PcStates  == Preparing \cup Working \cup Severing \cup Reporting \cup {"done", "dead"}

Results  == {"none", "ok", "noop", "timeout", "uncertain", "error"}
Requests == {"none", "begin", "exists", "capture", "stmt", "commit", "rollback", "verify"}
Answers  == {"none", "wait", "ok", "err"}

Locals ==
  [inTx : BOOLEAN, id : BOOLEAN, todo : SUBSET Tables, found : SUBSET Tables,
   send : SUBSET Tables, err : Results]
Conns ==
  [alive : BOOLEAN, req : Requests, ans : Answers, image : Contents,
   tx : BOOLEAN, pend : SUBSET Tables]

TypeOK ==
  /\ stmt \in [Calls -> Statements] /\ pc \in [Calls -> PcStates]
  /\ timer \in [Calls -> {"off", "armed", "killing", "killed", "unkilled"}]
  /\ local \in [Calls -> Locals] /\ result \in [Calls -> Results]
  /\ journal \in [Calls -> JournalStates \cup {"none"}]
  /\ backup \in [Calls -> [Tables -> Contents \cup {None}]]
  /\ row \in [Calls -> {"none", "approved", "execution_error"}]
  /\ conn \in [Calls -> Conns]
  /\ content \in [Tables -> Contents] /\ lock \in [Tables -> Calls \cup {None}]
  /\ applied \in SUBSET Calls
  /\ before \in [Calls -> [Tables -> Contents \cup {None}]]
  /\ writes \in 0..MaxWrites /\ faults \in 0..MaxFaults /\ crashes \in 0..MaxCrashes

NoImages == [t \in Tables |-> None]

Init ==
  /\ stmt \in [Calls -> Statements]
  /\ pc = [c \in Calls |-> "idle"] /\ timer = [c \in Calls |-> "off"]
  /\ local = [c \in Calls |->
       [inTx |-> FALSE, id |-> FALSE, todo |-> {}, found |-> {},
        send |-> stmt[c].targets, err |-> "none"]]
  /\ result = [c \in Calls |-> "none"]
  /\ journal = [c \in Calls |-> "none"] /\ backup = [c \in Calls |-> NoImages]
  /\ row = [c \in Calls |-> "none"] /\ faults = 0
  /\ conn = [c \in Calls |->
       [alive |-> TRUE, req |-> "none", ans |-> "none", image |-> Absent,
        tx |-> FALSE, pend |-> {}]]
  /\ content \in [Tables -> {Orig, Absent}] /\ lock = [t \in Tables |-> None]
  /\ applied = {} /\ before = [c \in Calls |-> NoImages]
  /\ writes = 0 /\ crashes = 0

-----------------------------------------------------------------------------
(* The client's end of a connection.                                       *)

Text(c) == stmt[c]
First(T) == CHOOSE t \in T : TRUE

(* A request on a broken connection fails at once. *)
Send(c, r) ==
  conn' = [conn EXCEPT ![c].req = IF conn[c].alive THEN r ELSE @,
                       ![c].ans = IF conn[c].alive THEN "wait" ELSE "err"]

(* A connection that is not handed back to the pool. *)
Sever(c) == conn' = [conn EXCEPT ![c].alive = FALSE, ![c].ans = "err"]

Answered(c, a) == conn[c].ans = a

(* The work future is not polled while the kill is awaited. *)
Polled(c) == timer[c] # "killing"

At(c, from) == pc[c] = from /\ Polled(c)

Goto(c, to) == pc' = [pc EXCEPT ![c] = to]

Return(c, r) == Goto(c, "returned") /\ result' = [result EXCEPT ![c] = r]

-----------------------------------------------------------------------------
(* The journal row of a mutation; every caller ignores a failure.          *)

Transitions ==
  ({"planned"}                 \X {"backup_capturing", "failed"}) \cup
  ({"backup_capturing"}        \X {"backup_durable", "mutation_executing", "failed"}) \cup
  ({"backup_durable"}          \X {"mutation_executing", "failed"}) \cup
  ({"mutation_executing"}      \X {"mutation_committed", "failed", "uncertain"}) \cup
  ({"mutation_committed"}      \X {"audit_finalized", "uncertain"})

Fault == faults < MaxFaults /\ faults' = faults + 1

(* Mutant: the executor finalises the journal before any audit row exists. *)
Moved_Finalized(c, s) ==
  IF <<journal[c], s>> \in Transitions
  THEN [journal EXCEPT ![c] = IF s = "mutation_committed" THEN "audit_finalized" ELSE s]
  ELSE journal

Moved(c, s) ==
  IF <<journal[c], s>> \in Transitions
  THEN [journal EXCEPT ![c] = s]
  ELSE journal

JournalTo(c, s) ==
  \/ journal' = Moved(c, s) /\ UNCHANGED faults
  \/ journal[c] # "none" /\ Fault /\ UNCHANGED journal

Mutating(c) == Text(c).cat \in {"write", "ddl", "admin"}

recoverable(c) ==
  \/ journal[c] \in JournalStates \ Terminal
  \/ journal[c] = "mutation_committed" /\ row[c] = "none"

-----------------------------------------------------------------------------
(* Preparation.                                                            *)

env == <<stmt, envVars>>
Keep == UNCHANGED <<env, timer, auditVars, tableVars>>

Start(c) ==
  /\ At(c, "idle")
  /\ \/ \E r \in {"uncertain", "error"} : Return(c, r)
     \/ Goto(c, "setup") /\ UNCHANGED result
  /\ UNCHANGED <<local, conn>> /\ Keep

(* The checkout and SELECT CONNECTION_ID, under the setup's own timeout. *)
SetUp(c) ==
  /\ At(c, "setup")
  /\ \/ \E r \in {"timeout", "error"} : Return(c, r) /\ UNCHANGED <<local, conn>>
     \/ \E known \in BOOLEAN :
          /\ local' = [local EXCEPT ![c].id = known]
          /\ IF Text(c).cat = "tx_ctrl"
             THEN Goto(c, "journal") /\ UNCHANGED conn
             ELSE Goto(c, "begin") /\ Send(c, "begin")
          /\ UNCHANGED result
  /\ Keep

(* Mutant: a write with a backup goes on in autocommit too. *)
BeginRefused_Proceeds(c) ==
  IF Text(c).cat = "read" THEN Return(c, "error")
  ELSE Goto(c, "journal") /\ UNCHANGED result

BeginRefused(c) ==
  IF Text(c).cat = "read" THEN Return(c, "error")
  ELSE IF Text(c).spec # "unneeded" THEN Return(c, "uncertain")
  ELSE Goto(c, "journal") /\ UNCHANGED result

Begin(c) ==
  /\ At(c, "begin")
  /\ \/ /\ Answered(c, "ok")
        /\ Goto(c, "journal") /\ local' = [local EXCEPT ![c].inTx = TRUE]
        /\ UNCHANGED result
     \/ Answered(c, "err") /\ BeginRefused(c) /\ UNCHANGED local
  /\ UNCHANGED conn /\ Keep

(* The preflight asks for each target of a DDL statement in turn. *)
OpenJournal(c) ==
  /\ At(c, "journal")
  /\ IF Mutating(c)
     THEN \/ journal' = [journal EXCEPT ![c] = "planned"] /\ UNCHANGED faults
          \/ Fault /\ UNCHANGED journal
     ELSE UNCHANGED <<journal, faults>>
  /\ IF Text(c).cat = "ddl"
     THEN /\ Goto(c, "preflight") /\ Send(c, "exists")
          /\ local' = [local EXCEPT ![c].todo = Text(c).targets]
     ELSE Goto(c, "arm") /\ UNCHANGED <<local, conn>>
  /\ UNCHANGED <<env, timer, result, backup, row, tableVars>>

NotFound(c, r) ==
  /\ JournalTo(c, "failed") /\ Return(c, r)
  /\ UNCHANGED <<local, conn>>

PreflightAsk(c) ==
  /\ At(c, "preflight") /\ local[c].todo # {}
  /\ \/ /\ Answered(c, "ok")
        /\ LET t == First(local[c].todo) IN
            /\ local' = [local EXCEPT ![c].todo = @ \ {t},
                 ![c].found = IF conn[c].image # Absent THEN @ \cup {t} ELSE @]
            /\ IF local[c].todo = {t} THEN UNCHANGED conn ELSE Send(c, "exists")
        /\ UNCHANGED <<pc, result, journal, faults>>
     \/ Answered(c, "err") /\ NotFound(c, "error")
  /\ UNCHANGED <<env, timer, backup, row, tableVars>>

(* Every target that exists is one the approved plan named. *)
WithinPlan(c) == Text(c).planned => local[c].found \subseteq Text(c).plan

(* Mutant: the statement is sent with its absent targets. *)
Subset_Original(c) == Text(c).targets

Subset(c) == local[c].found

PreflightDone(c) ==
  /\ At(c, "preflight") /\ local[c].todo = {}
  /\ LET found   == local[c].found
         missing == Text(c).targets \ found IN
     \/ /\ missing = {} /\ WithinPlan(c)
        /\ Goto(c, "arm") /\ UNCHANGED <<result, local, journal, faults>>
     \/ /\ missing # {} /\ found # {} /\ Text(c).ifExists
        /\ WithinPlan(c) /\ Text(c).rewritable
        /\ local' = [local EXCEPT ![c].send = Subset(c)]
        /\ Goto(c, "arm") /\ UNCHANGED <<result, journal, faults>>
     \/ /\ found # {} /\ (missing # {} => Text(c).ifExists)
        /\ ~WithinPlan(c) \/ (missing # {} /\ ~Text(c).rewritable)
        /\ NotFound(c, "error")
     \/ missing # {} /\ ~Text(c).ifExists /\ NotFound(c, "error")
     \/ found = {} /\ Text(c).ifExists /\ NotFound(c, "noop")
  /\ UNCHANGED <<env, timer, conn, backup, row, tableVars>>

-----------------------------------------------------------------------------
(* The work future: backup, statement, commit.                             *)

(* The end of the work future, by the state of the deadline around it: in  *)
(* time; interrupted, to be rolled back and verified; completed during the *)
(* kill; or after a kill that failed.                                      *)
Resolve(c, r) ==
  \/ timer[c] = "armed"              /\ Return(c, r)
  \/ timer[c] = "killed" /\ r = "ok" /\ Return(c, "timeout")
  \/ timer[c] = "killed" /\ r # "ok" /\ Goto(c, "unwind") /\ UNCHANGED result
  \/ timer[c] = "unkilled"           /\ Return(c, "uncertain")

(* The work failed: ROLLBACK once the connection is free, if there is a    *)
(* transaction.                                                            *)
Fail(c, r) ==
  /\ local' = [local EXCEPT ![c].err = r]
  /\ Goto(c, IF local[c].inTx THEN "rollback" ELSE "rolling")
  /\ UNCHANGED <<result, conn>>

ToCapture(c) ==
  IF Text(c).spec = "combined" THEN {First(local[c].send)} ELSE local[c].send

Capture(c) ==
  /\ At(c, "arm")
  /\ timer' = [timer EXCEPT ![c] = "armed"]
  /\ IF Mutating(c) THEN JournalTo(c, "backup_capturing") ELSE UNCHANGED <<journal, faults>>
  /\ \/ /\ Text(c).spec \in {"rows", "combined"}
        /\ local' = [local EXCEPT ![c].todo = ToCapture(c)]
        /\ Goto(c, "capture") /\ Send(c, "capture") /\ UNCHANGED result
     \/ Text(c).spec = "fails" /\ Fail(c, "error")
     \/ /\ Text(c).spec \in {"unneeded", "none", "hint"}
        /\ Goto(c, "send") /\ UNCHANGED <<local, conn, result>>
  /\ UNCHANGED <<env, backup, row, tableVars>>

(* A table's rows are read and stored in the audit database; reading,      *)
(* overflow under "abort" and storing may fail, and then nothing is sent.  *)
CaptureTable(c) ==
  /\ At(c, "capture") /\ local[c].todo # {}
  /\ \/ /\ Answered(c, "ok")
        /\ LET t == First(local[c].todo) IN
            /\ backup' = [backup EXCEPT ![c][t] = conn[c].image]
            /\ local' = [local EXCEPT ![c].todo = @ \ {t}]
            /\ IF local[c].todo = {t} THEN UNCHANGED conn ELSE Send(c, "capture")
        /\ UNCHANGED <<pc, result, faults>>
     \/ /\ Answered(c, "ok") /\ Fail(c, "error")
        /\ UNCHANGED <<backup, faults>>
     \/ Answered(c, "err") /\ Fail(c, "error") /\ UNCHANGED <<backup, faults>>
  /\ UNCHANGED <<env, timer, journal, row, tableVars>>

Captured(c) ==
  /\ At(c, "capture") /\ local[c].todo = {}
  /\ JournalTo(c, "backup_durable") /\ Goto(c, "send")
  /\ UNCHANGED <<env, timer, local, result, backup, row, conn, tableVars>>

Execute(c) ==
  /\ At(c, "send")
  /\ IF Mutating(c) THEN JournalTo(c, "mutation_executing") ELSE UNCHANGED <<journal, faults>>
  /\ Goto(c, "exec") /\ Send(c, "stmt")
  /\ UNCHANGED <<env, timer, local, result, backup, row, tableVars>>

Executed(c) ==
  /\ At(c, "exec")
  /\ \/ /\ Answered(c, "ok") /\ Goto(c, "commit")
        /\ IF local[c].inTx THEN Send(c, "commit") ELSE UNCHANGED conn
        /\ UNCHANGED <<local, result>>
     \/ Answered(c, "err") /\ Fail(c, "error")
     \/ Answered(c, "wait") /\ Fail(c, "timeout")
  /\ Keep

Committed(c) ==
  /\ At(c, "commit") /\ Answered(c, "ok")
  /\ IF Mutating(c) THEN JournalTo(c, "mutation_committed") ELSE UNCHANGED <<journal, faults>>
  /\ Resolve(c, "ok")
  /\ UNCHANGED <<env, timer, local, backup, row, conn, tableVars>>

CommitFails(c) ==
  /\ At(c, "commit") /\ Answered(c, "err")
  /\ Goto(c, "unrolling") /\ Send(c, "rollback")
  /\ UNCHANGED <<local, result>> /\ Keep

SendRollback(c) ==
  /\ At(c, "rollback") /\ ~Answered(c, "wait")
  /\ Goto(c, "rolling") /\ Send(c, "rollback")
  /\ UNCHANGED <<local, result>> /\ Keep

(* Mutant: a failed COMMIT is journalled like a failed statement. *)
Verdict_Failed(c) == "failed"

Verdict(c) == IF pc[c] = "unrolling" THEN "uncertain" ELSE "failed"

RolledBack(c) ==
  /\ \E from \in {"rolling", "unrolling"} : At(c, from)
  /\ local[c].inTx => ~Answered(c, "wait")
  /\ JournalTo(c, Verdict(c))
  /\ Resolve(c, IF pc[c] = "rolling" THEN local[c].err ELSE "error")
  /\ UNCHANGED <<env, timer, local, backup, row, conn, tableVars>>

-----------------------------------------------------------------------------
(* The deadline.                                                           *)

(* Mutant: only reads run under the deadline. *)
Deadline_Reads(c) ==
  /\ pc[c] \in Working /\ timer[c] = "armed" /\ Text(c).cat = "read"
  /\ timer' = [timer EXCEPT ![c] = "killing"]
  /\ UNCHANGED <<env, pc, local, result, conn, auditVars, tableVars>>

Deadline(c) ==
  /\ pc[c] \in Working /\ timer[c] = "armed"
  /\ timer' = [timer EXCEPT ![c] = "killing"]
  /\ UNCHANGED <<env, pc, local, result, conn, auditVars, tableVars>>

(* KILL QUERY on a control connection, within five seconds. *)
Kill(c) ==
  /\ timer[c] = "killing" /\ pc[c] \in Working
  /\ \E t \in IF local[c].id THEN {"killed", "unkilled"} ELSE {"unkilled"} :
       timer' = [timer EXCEPT ![c] = t]
  /\ UNCHANGED <<env, pc, local, result, conn, auditVars, tableVars>>

(* Five seconds later the work is dropped where it stands. *)
Grace(c) ==
  /\ timer[c] \in {"killed", "unkilled"} /\ pc[c] \in Working
  /\ Return(c, "uncertain") /\ Sever(c)
  /\ UNCHANGED local /\ Keep

(* Mutant: an interrupted connection is handed back as it is. *)
Unwind_Unchecked(c) == Return(c, "timeout") /\ UNCHANGED conn

Unwind(c) ==
  IF local[c].inTx
  THEN Goto(c, "unwinding") /\ Send(c, "rollback") /\ UNCHANGED result
  ELSE Goto(c, "verifying") /\ Send(c, "verify") /\ UNCHANGED result

Interrupted(c) ==
  /\ At(c, "unwind") /\ ~Answered(c, "wait")
  /\ Unwind(c)
  /\ UNCHANGED local /\ Keep

Unwound(c) ==
  /\ At(c, "unwinding") /\ ~Answered(c, "wait")
  /\ Goto(c, "verifying") /\ Send(c, "verify")
  /\ UNCHANGED <<local, result>> /\ Keep

(* in_transaction = 0, or the connection is closed. *)
Verified(c) ==
  /\ At(c, "verifying")
  /\ \/ Answered(c, "ok") /\ ~conn[c].tx /\ Return(c, "timeout") /\ UNCHANGED conn
     \/ /\ Answered(c, "err") \/ (Answered(c, "ok") /\ conn[c].tx)
        /\ Return(c, "uncertain") /\ Sever(c)
  /\ UNCHANGED local /\ Keep

-----------------------------------------------------------------------------
(* What run_sql does with the result.                                      *)

Audit(c) ==
  /\ pc[c] = "returned"
  /\ \/ /\ row' = [row EXCEPT ![c] =
             IF result[c] \in {"ok", "noop"} THEN "approved" ELSE "execution_error"]
        /\ UNCHANGED faults
     \/ Fault /\ UNCHANGED row
  /\ Goto(c, "audited")
  /\ UNCHANGED <<env, timer, local, result, journal, backup, conn, tableVars>>

Finalize(c) ==
  /\ pc[c] = "audited"
  /\ IF row[c] = "approved" THEN JournalTo(c, "audit_finalized")
     ELSE UNCHANGED <<journal, faults>>
  /\ Goto(c, "done")
  /\ UNCHANGED <<env, timer, local, result, backup, row, conn, tableVars>>

-----------------------------------------------------------------------------
(* The server (external).                                                  *)

serverless == <<clientVars, auditVars, envVars>>

Free(c, T) == \A t \in T : lock[t] \in {None, c}

Unlocked(c) == [t \in Tables |-> IF lock[t] = c THEN None ELSE lock[t]]

(* The reply to c's request, and its transaction from then on. *)
Reply(c, a, tx, pend) ==
  conn' = [conn EXCEPT ![c] = [@ EXCEPT !.req = "none", !.tx = tx, !.pend = pend,
                                        !.ans = IF conn[c].alive THEN a ELSE conn[c].ans]]

(* The rows or the schema entry c asked for. *)
Found(c, v) ==
  conn' = [conn EXCEPT ![c] = [@ EXCEPT !.req = "none", !.image = v,
                                        !.ans = IF conn[c].alive THEN "ok" ELSE conn[c].ans]]

(* c's change to the tables T becomes the committed content. *)
TakesEffect(c, T, new) ==
  /\ content' = [t \in Tables |-> IF t \in T THEN new ELSE content[t]]
  /\ before' = [before EXCEPT ![c] = [t \in Tables |-> IF t \in T THEN content[t] ELSE @[t]]]
  /\ applied' = applied \cup {c}

ServeBegin(c) ==
  /\ conn[c].req = "begin"
  /\ Reply(c, "ok", TRUE, {})
  /\ UNCHANGED <<serverless, tableVars>>

ServeExists(c) ==
  /\ conn[c].req = "exists"
  /\ Found(c, content[First(local[c].todo)])
  /\ UNCHANGED <<serverless, tableVars>>

(* SELECT ... FOR UPDATE for the rows of a write; a plain SELECT before a  *)
(* DROP.  Row locks last no longer than the transaction.                   *)
ServeCapture(c) ==
  /\ conn[c].req = "capture" /\ local[c].todo # {}
  /\ LET t == First(local[c].todo) IN
      /\ content[t] # Absent /\ Found(c, content[t])
      /\ IF Text(c).spec = "rows"
         THEN /\ Free(c, {t})
              /\ lock' = IF conn[c].tx THEN [lock EXCEPT ![t] = c] ELSE lock
         ELSE UNCHANGED lock
  /\ UNCHANGED <<serverless, content, applied, before>>

ServeWrite(c) ==
  /\ conn[c].req = "stmt" /\ Text(c).cat = "write"
  /\ Free(c, Text(c).targets) /\ \A t \in Text(c).targets : content[t] # Absent
  /\ IF conn[c].tx
     THEN /\ lock' = [t \in Tables |-> IF t \in Text(c).targets THEN c ELSE lock[t]]
          /\ Reply(c, "ok", TRUE, Text(c).targets)
          /\ UNCHANGED <<content, before, applied>>
     ELSE /\ TakesEffect(c, Text(c).targets, c) /\ UNCHANGED lock
          /\ Reply(c, "ok", FALSE, {})
  /\ UNCHANGED serverless

(* DDL commits the transaction it finds open and takes effect at once. *)
ServeDdl(c) ==
  /\ conn[c].req = "stmt" /\ Text(c).cat = "ddl"
  /\ LET present == {t \in local[c].send : content[t] # Absent} IN
      /\ Text(c).ifExists \/ present = local[c].send
      /\ Free(c, present)
      /\ TakesEffect(c, present, Absent)
  /\ lock' = Unlocked(c) /\ Reply(c, "ok", FALSE, {})
  /\ UNCHANGED serverless

ServeOther(c) ==
  /\ conn[c].req = "stmt" /\ Text(c).cat \in {"read", "admin", "tx_ctrl"}
  /\ Reply(c, "ok", conn[c].tx /\ Text(c).cat # "admin", {})
  /\ UNCHANGED <<serverless, tableVars>>

ServeCommit(c) ==
  /\ conn[c].req = "commit"
  /\ IF conn[c].pend # {} THEN TakesEffect(c, conn[c].pend, c)
     ELSE UNCHANGED <<content, before, applied>>
  /\ lock' = Unlocked(c) /\ Reply(c, "ok", FALSE, {})
  /\ UNCHANGED serverless

ServeRollback(c) ==
  /\ conn[c].req = "rollback"
  /\ lock' = Unlocked(c) /\ Reply(c, "ok", FALSE, {})
  /\ UNCHANGED <<serverless, content, before, applied>>

ServeVerify(c) ==
  /\ conn[c].req = "verify"
  /\ Reply(c, "ok", conn[c].tx, conn[c].pend)
  /\ UNCHANGED <<serverless, tableVars>>

(* Refused, interrupted, or given up in a deadlock: nothing of it remains. *)
ServeError(c) ==
  /\ conn[c].req # "none"
  /\ Reply(c, "err", conn[c].tx, conn[c].pend)
  /\ UNCHANGED <<serverless, tableVars>>

Serve(c) ==
  \/ ServeBegin(c) \/ ServeExists(c) \/ ServeCapture(c) \/ ServeWrite(c) \/ ServeDdl(c)
  \/ ServeOther(c) \/ ServeCommit(c) \/ ServeRollback(c) \/ ServeVerify(c)
  \/ ServeError(c)

(* The client loses the connection; the server may still serve the request. *)
Breaks(c) ==
  /\ conn[c].alive /\ conn[c].ans = "wait"
  /\ Sever(c)
  /\ UNCHANGED <<serverless, tableVars>>

(* The server ends a session that is gone, and the pool resets a           *)
(* connection it gets back.                                                *)
Cleanup(c) ==
  /\ ~conn[c].alive \/ pc[c] \in {"done", "dead"}
  /\ conn[c].req # "none" \/ conn[c].tx \/ \E t \in Tables : lock[t] = c
  /\ conn' = [conn EXCEPT ![c].req = "none", ![c].tx = FALSE, ![c].pend = {}]
  /\ lock' = Unlocked(c)
  /\ UNCHANGED <<serverless, content, before, applied>>

-----------------------------------------------------------------------------
(* Everyone else.                                                          *)

OtherWrites(t) ==
  /\ writes < MaxWrites /\ lock[t] = None
  /\ \E v \in {Other, Absent} \ {content[t]} : content' = [content EXCEPT ![t] = v]
  /\ writes' = writes + 1
  /\ UNCHANGED <<clientVars, auditVars, conn, lock, applied, before, crashes>>

(* The process dies with every call in it. *)
Crash ==
  /\ crashes < MaxCrashes /\ crashes' = crashes + 1
  /\ pc' = [c \in Calls |-> IF pc[c] \in {"idle", "done"} THEN pc[c] ELSE "dead"]
  /\ conn' = [c \in Calls |-> IF pc[c] \in {"idle", "done"} THEN conn[c]
                              ELSE [conn[c] EXCEPT !.alive = FALSE, !.ans = "err"]]
  /\ UNCHANGED <<stmt, timer, local, result, auditVars, tableVars, writes>>

Step(c) ==
  \/ SetUp(c) \/ Begin(c) \/ OpenJournal(c) \/ PreflightAsk(c) \/ PreflightDone(c)
  \/ Capture(c) \/ CaptureTable(c) \/ Captured(c) \/ Execute(c) \/ Executed(c)
  \/ Committed(c) \/ CommitFails(c) \/ SendRollback(c) \/ RolledBack(c)
  \/ Deadline(c) \/ Kill(c) \/ Grace(c)
  \/ Interrupted(c) \/ Unwound(c) \/ Verified(c)
  \/ Audit(c) \/ Finalize(c)

Next ==
  \/ \E c \in Calls : Start(c) \/ Step(c) \/ Serve(c) \/ Breaks(c) \/ Cleanup(c)
  \/ \E t \in Tables : OtherWrites(t)
  \/ Crash

Spec == Init /\ [][Next]_vars

(* The executor polls each call's future and its timers; nothing is asked  *)
(* of the server or the network.                                           *)
FairSpec == Spec /\ \A c \in Calls : WF_vars(Step(c))

-----------------------------------------------------------------------------

BackedUpWrite(c) == Text(c).cat = "write" /\ Text(c).spec # "unneeded"

(* The backup of a write that took effect is exactly what the write        *)
(* replaced, in every table it changed: nobody wrote between the capture   *)
(* and the commit (the FOR UPDATE locks live as long as the transaction).  *)
BackupIsPreImage ==
  \A c \in applied : Text(c).cat = "write" /\ Text(c).spec = "rows" =>
    backup[c] = before[c]

(* The journal never says the opposite of the server about a write with a  *)
(* backup: one journalled as failed has not changed and will not change a  *)
(* table, one journalled as committed has.                                 *)
JournalTruthful ==
  \A c \in Calls : BackedUpWrite(c) =>
    /\ journal[c] = "failed" =>
         c \notin applied /\ (conn[c].req # "commit" \/ conn[c].pend = {})
    /\ journal[c] \in {"mutation_committed", "audit_finalized"} => c \in applied

(* Whatever was killed, lost, refused or died on the way: a write that     *)
(* changed a table has its audit row, or is in the recovery surface, or is *)
(* marked uncertain, unless the journal could not be opened at all.        *)
AppliedLeavesTrace ==
  \A c \in applied : BackedUpWrite(c) /\ pc[c] \in {"done", "dead"} =>
    \/ row[c] = "approved" \/ recoverable(c)
    \/ journal[c] \in {"none", "uncertain"}

(* A connection that goes back to the pool after a killed statement has    *)
(* no transaction open and holds no lock.                                  *)
ReusedClean ==
  \A c \in Calls :
    result[c] = "timeout" /\ timer[c] = "killed" /\ conn[c].alive =>
      /\ ~conn[c].tx /\ conn[c].pend = {}
      /\ \A t \in Tables : lock[t] # c

(* A DROP removes only tables its preflight found, and, when it was        *)
(* approved from a plan, only tables of the plan: a table created since is *)
(* never dropped.                                                          *)
DroppedWasApproved ==
  \A c \in applied : Text(c).cat = "ddl" =>
    LET dropped == {t \in Tables : before[c][t] # None} IN
      /\ dropped \subseteq local[c].found
      /\ Text(c).planned => dropped \subseteq Text(c).plan

(* Backup, statement and commit end within the deadline, the kill and the  *)
(* grace period, whatever the server or the network do.                    *)
WorkBounded == \A c \in Calls : pc[c] \in Working ~> pc[c] \notin Working

=============================================================================
