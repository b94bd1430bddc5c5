-------------------------------- MODULE Gate --------------------------------
(***************************************************************************)
(* The operation gate: run_sql of src/src/app/gate.rs, called concurrently *)
(* by the tool handlers of one server process, over the shared approval    *)
(* engine, the config file (which any process may edit), the user behind   *)
(* the approval sink, and the audit log.                                   *)
(*                                                                         *)
(* The text of a statement is abstracted to the session key it resolves to *)
(* (connection, category, table set); the two-layer resolution under one   *)
(* config is abstracted to the policy the config has for that key.  The    *)
(* executor behind `execute` is the database it talks to: it reports       *)
(* success or an error, and an error does not say whether the statement    *)
(* took effect.                                                            *)
(***************************************************************************)
EXTENDS Naturals, Sequences, ApprovalEngine

CONSTANTS Calls,      (* run_sql invocations; call r's one-time digest is r *)
          KeyOf,      (* the session key of each call's statement           *)
          MaxRev,     (* bound: config revisions explored                   *)
          MaxRestarts (* bound: server restarts explored                    *)

Actions  == {"allow", "confirm", "deny"}
Policies == [action : Actions, touch : BOOLEAN]

ASSUME GateAssumption ==
  /\ Digests = Calls
  /\ KeyOf \in [Calls -> Keys]
  /\ MaxRev \in Nat /\ MaxRestarts \in Nat

VARIABLES cfg,      (* the config file: revision, connections, policies     *)
          epoch,    (* server process generation                            *)
          pc,       (* control state of each call                           *)
          seen,     (* the config a call loaded first                       *)
          born,     (* the process generation a call runs in                *)
          auth,     (* calls whose Touch ID prompt succeeded                *)
          choice,   (* what the sink returned                               *)
          scope,    (* approval_scope                                       *)
          effect,   (* how often the database applied the call's statement  *)
          result,   (* what run_sql returned                                *)
          rows,     (* audit rows of the call's request id                  *)
          lost      (* calls one of whose audit writes failed               *)

callVars == <<pc, seen, born, auth, choice, scope, effect, result, rows, lost>>
vars     == <<engineVars, cfg, epoch, callVars>>

Configs  == [rev : 0..MaxRev, conns : SUBSET Keys, policy : [Keys -> Policies]]

PcStates == {"idle", "decide", "session", "ask", "revalidate", "consume",
             "execute", "succeeded", "errored", "done", "dead"}
Choices  == {"none", "once", "session", "decline", "unavailable"}
Outcomes == {"approved", "declined", "unavailable", "denied", "execution_error"}
Refusals == {"config_error", "no_connection", "rejected", "denied", "touch_failed",
             "unavailable", "declined", "expired", "no_password"}
Results  == {"none", "ok", "ok_unaudited", "error"} \cup Refusals

TypeOK ==
  /\ EngineTypeOK
  /\ cfg \in Configs /\ epoch \in 0..MaxRestarts
  /\ pc \in [Calls -> PcStates] /\ seen \in [Calls -> Configs]
  /\ born \in [Calls -> 0..MaxRestarts] /\ auth \in SUBSET Calls
  /\ choice \in [Calls -> Choices]
  /\ scope \in [Calls -> {"none", "once", "session"}]
  /\ effect \in [Calls -> Nat] /\ result \in [Calls -> Results]
  /\ rows \in [Calls -> Seq(Outcomes)] /\ lost \in SUBSET Calls

Init ==
  /\ EngineInit
  /\ cfg \in [rev : {0}, conns : {Keys}, policy : [Keys -> Policies]]
  /\ epoch = 0
  /\ pc = [r \in Calls |-> "idle"] /\ seen = [r \in Calls |-> cfg]
  /\ born = [r \in Calls |-> 0] /\ auth = {}
  /\ choice = [r \in Calls |-> "none"] /\ scope = [r \in Calls |-> "none"]
  /\ effect = [r \in Calls |-> 0] /\ result = [r \in Calls |-> "none"]
  /\ rows = [r \in Calls |-> <<>>] /\ lost = {}

-----------------------------------------------------------------------------
PolicyIn(c, r) == c.policy[KeyOf[r]]
Policy(r)      == PolicyIn(seen[r], r)
Resolvable(c, r) == KeyOf[r] \in c.conns

Goes(r, from, to) == pc[r] = from /\ pc' = [pc EXCEPT ![r] = to]

Returns(r, from, res) ==
  /\ Goes(r, from, "done")
  /\ result' = [result EXCEPT ![r] = res]

(* audit(): one row, or a failed write that is only reported on stderr. *)
Audit(r, o) ==
  \/ rows' = [rows EXCEPT ![r] = Append(@, o)] /\ UNCHANGED lost
  \/ lost' = lost \cup {r} /\ UNCHANGED rows

Unaudited == UNCHANGED <<rows, lost>>

-----------------------------------------------------------------------------
(* Loading, classification, the policy decision.                           *)

Load(r) ==
  /\ Resolvable(cfg, r)
  /\ Goes(r, "idle", "decide")
  /\ seen' = [seen EXCEPT ![r] = cfg]
  /\ born' = [born EXCEPT ![r] = epoch]
  /\ Unaudited
  /\ UNCHANGED <<engineVars, cfg, epoch, auth, choice, scope, effect, result>>

(* An unreadable config, an unknown connection, an unclassifiable statement *)
(* or a non-read statement given to `query`: an error before any audit row. *)
RefuseEarly(r) ==
  /\ \E res \in {"config_error", "no_connection", "rejected"} :
       /\ res = "no_connection" => ~Resolvable(cfg, r)
       /\ Returns(r, "idle", res)
  /\ born' = [born EXCEPT ![r] = epoch]
  /\ Unaudited
  /\ UNCHANGED <<engineVars, cfg, epoch, seen, auth, choice, scope, effect>>

DecideDeny(r) ==
  /\ Policy(r).action = "deny"
  /\ Returns(r, "decide", "denied")
  /\ Audit(r, "denied")
  /\ UNCHANGED <<engineVars, cfg, epoch, seen, born, auth, choice, scope, effect>>

DecideAllow(r) ==
  /\ Policy(r).action = "allow"
  /\ Goes(r, "decide", "revalidate")
  /\ Unaudited
  /\ UNCHANGED <<engineVars, cfg, epoch, seen, born, auth, choice, scope, effect, result>>

(* Touch ID comes before any session grant is looked up. *)
Authenticate(r) ==
  /\ Policy(r).action = "confirm"
  /\ Goes(r, "decide", "session")
  /\ auth' = IF Policy(r).touch THEN auth \cup {r} ELSE auth
  /\ Unaudited
  /\ UNCHANGED <<engineVars, cfg, epoch, seen, born, choice, scope, effect, result>>

(* Mutant: an unavailable Touch ID is skipped (fail open). *)
TouchIdFails_Open(r) ==
  /\ Policy(r).action = "confirm" /\ Policy(r).touch
  /\ Goes(r, "decide", "session")
  /\ Unaudited
  /\ UNCHANGED <<engineVars, cfg, epoch, seen, born, auth, choice, scope, effect, result>>

TouchIdFails(r) ==
  /\ Policy(r).action = "confirm" /\ Policy(r).touch
  /\ Returns(r, "decide", "touch_failed")
  /\ Audit(r, "denied")
  /\ UNCHANGED <<engineVars, cfg, epoch, seen, born, auth, choice, scope, effect>>

-----------------------------------------------------------------------------
(* Session grants and the approval sink.                                   *)

SessionHit(r) ==
  /\ Goes(r, "session", "revalidate")
  /\ SessionCovers(KeyOf[r])
  /\ scope' = [scope EXCEPT ![r] = "session"]
  /\ Unaudited
  /\ UNCHANGED <<cfg, epoch, seen, born, auth, choice, effect, result>>

SessionMiss(r) ==
  /\ Goes(r, "session", "ask")
  /\ SessionMisses(KeyOf[r])
  /\ Unaudited
  /\ UNCHANGED <<cfg, epoch, seen, born, auth, choice, scope, effect, result>>

Chosen(r, ch) == choice' = [choice EXCEPT ![r] = ch]

(* Mutant: an unanswered prompt is audited as a decline. *)
SinkUnavailable_AsDecline(r) ==
  /\ Returns(r, "ask", "unavailable")
  /\ Chosen(r, "unavailable")
  /\ Audit(r, "declined")
  /\ UNCHANGED <<engineVars, cfg, epoch, seen, born, auth, scope, effect>>

SinkUnavailable(r) ==
  /\ Returns(r, "ask", "unavailable")
  /\ Chosen(r, "unavailable")
  /\ Audit(r, "unavailable")
  /\ UNCHANGED <<engineVars, cfg, epoch, seen, born, auth, scope, effect>>

SinkDeclines(r) ==
  /\ Returns(r, "ask", "declined")
  /\ Chosen(r, "decline")
  /\ Audit(r, "declined")
  /\ UNCHANGED <<engineVars, cfg, epoch, seen, born, auth, scope, effect>>

SinkGrantsSession(r) ==
  /\ Goes(r, "ask", "revalidate")
  /\ Chosen(r, "session")
  /\ GrantSession(KeyOf[r])
  /\ scope' = [scope EXCEPT ![r] = "session"]
  /\ Unaudited
  /\ UNCHANGED <<cfg, epoch, seen, born, auth, effect, result>>

SinkGrantsOnce(r) ==
  /\ Goes(r, "ask", "revalidate")
  /\ Chosen(r, "once")
  /\ GrantOnce(r)
  /\ scope' = [scope EXCEPT ![r] = "once"]
  /\ Unaudited
  /\ UNCHANGED <<cfg, epoch, seen, born, auth, effect, result>>

-----------------------------------------------------------------------------
(* Revalidation and consumption.                                           *)

(* Mutant: a changed config only has to know the connection. *)
StillValid_AnyAction(r) == cfg.rev = seen[r].rev \/ Resolvable(cfg, r)

StillValid(r) ==
  \/ cfg.rev = seen[r].rev
  \/ /\ Resolvable(cfg, r)
     /\ PolicyIn(cfg, r).action = Policy(r).action

Revalidate(r) ==
  /\ StillValid(r)
  /\ Goes(r, "revalidate", "consume")
  /\ Unaudited
  /\ UNCHANGED <<engineVars, cfg, epoch, seen, born, auth, choice, scope, effect, result>>

(* The approval is not consumed: it stays in the engine. *)
PolicyChanged(r) ==
  /\ ~StillValid(r) /\ Resolvable(cfg, r)
  /\ Returns(r, "revalidate", "denied")
  /\ Audit(r, "denied")
  /\ UNCHANGED <<engineVars, cfg, epoch, seen, born, auth, choice, scope, effect>>

(* The connection is gone, or the config cannot be read: no audit row. *)
RevalidationFails(r) ==
  /\ \E res \in {"config_error", "no_connection"} :
       /\ res = "no_connection" => cfg.rev # seen[r].rev /\ ~Resolvable(cfg, r)
       /\ Returns(r, "revalidate", res)
  /\ Unaudited
  /\ UNCHANGED <<engineVars, cfg, epoch, seen, born, auth, choice, scope, effect>>

NothingToConsume(r) ==
  /\ scope[r] # "once"
  /\ Goes(r, "consume", "execute")
  /\ Unaudited
  /\ UNCHANGED <<engineVars, cfg, epoch, seen, born, auth, choice, scope, effect, result>>

ConsumeApproval(r) ==
  /\ scope[r] = "once"
  /\ Goes(r, "consume", "execute")
  /\ ConsumeOk(r)
  /\ Unaudited
  /\ UNCHANGED <<cfg, epoch, seen, born, auth, choice, scope, effect, result>>

(* GateError::Expired is returned without an audit row. *)
ApprovalExpired(r) ==
  /\ scope[r] = "once"
  /\ Returns(r, "consume", "expired")
  /\ ConsumeFails(r)
  /\ Unaudited
  /\ UNCHANGED <<cfg, epoch, seen, born, auth, choice, scope, effect>>

-----------------------------------------------------------------------------
(* Execution and the audit of its outcome.                                 *)

Applied(r) == effect' = [effect EXCEPT ![r] = @ + 1]

NoPassword(r) ==
  /\ Returns(r, "execute", "no_password")
  /\ Audit(r, "denied")
  /\ UNCHANGED <<engineVars, cfg, epoch, seen, born, auth, choice, scope, effect>>

ExecuteOk(r) ==
  /\ Goes(r, "execute", "succeeded")
  /\ Applied(r)
  /\ Unaudited
  /\ UNCHANGED <<engineVars, cfg, epoch, seen, born, auth, choice, scope, result>>

(* Mutant: a failed execution is tried again. *)
ExecuteFails_Retried(r) ==
  /\ Goes(r, "execute", "consume")
  /\ Applied(r) \/ UNCHANGED effect
  /\ effect[r] < 3
  /\ Unaudited
  /\ UNCHANGED <<engineVars, cfg, epoch, seen, born, auth, choice, scope, result>>

(* A tunnel or executor error; a timeout may hide a committed statement. *)
ExecuteFails(r) ==
  /\ Goes(r, "execute", "errored")
  /\ Applied(r) \/ UNCHANGED effect
  /\ Unaudited
  /\ UNCHANGED <<engineVars, cfg, epoch, seen, born, auth, choice, scope, result>>

(* A failed audit write turns into a warning on a successful outcome. *)
ReportOk(r) ==
  /\ Audit(r, "approved")
  /\ Returns(r, "succeeded", IF lost' = lost THEN "ok" ELSE "ok_unaudited")
  /\ UNCHANGED <<engineVars, cfg, epoch, seen, born, auth, choice, scope, effect>>

ReportError(r) ==
  /\ Returns(r, "errored", "error")
  /\ Audit(r, "execution_error")
  /\ UNCHANGED <<engineVars, cfg, epoch, seen, born, auth, choice, scope, effect>>

-----------------------------------------------------------------------------
(* The environment: config edits, expiries, a restart of the server.       *)

(* ConfigStore::update: every write of the file bumps its revision. *)
Written(conns, policy) ==
  cfg' = [rev |-> cfg.rev + 1, conns |-> conns, policy |-> policy]

EditConfig ==
  /\ cfg.rev < MaxRev
  /\ \E k \in Keys :
       \/ \E p \in Policies :
            Written(cfg.conns \cup {k}, [cfg.policy EXCEPT ![k] = p])
       \/ Written(cfg.conns \ {k}, cfg.policy)
  /\ UNCHANGED <<engineVars, epoch, callVars>>

Expire ==
  /\ (\E d \in Digests : OneShotExpires(d)) \/ (\E k \in Keys : SessionExpires(k))
  /\ UNCHANGED <<cfg, epoch, callVars>>

(* Calls in flight die; the database may or may not have applied those it  *)
(* was executing.                                                          *)
Restart ==
  /\ epoch < MaxRestarts
  /\ epoch' = epoch + 1
  /\ EngineLost
  /\ \E A \in SUBSET {r \in Calls : pc[r] = "execute"} :
       effect' = [r \in Calls |-> IF r \in A THEN effect[r] + 1 ELSE effect[r]]
  /\ pc' = [r \in Calls |-> IF pc[r] \in {"idle", "done"} THEN pc[r] ELSE "dead"]
  /\ UNCHANGED <<cfg, seen, born, auth, choice, scope, result, rows, lost>>

-----------------------------------------------------------------------------
Sink(r) ==
  SinkUnavailable(r) \/ SinkDeclines(r) \/ SinkGrantsSession(r) \/ SinkGrantsOnce(r)

(* The steps run_sql takes on its own, after its first load. *)
Step(r) ==
  \/ DecideDeny(r) \/ DecideAllow(r) \/ Authenticate(r) \/ TouchIdFails(r)
  \/ SessionHit(r) \/ SessionMiss(r)
  \/ Revalidate(r) \/ PolicyChanged(r) \/ RevalidationFails(r)
  \/ NothingToConsume(r) \/ ConsumeApproval(r) \/ ApprovalExpired(r)
  \/ NoPassword(r) \/ ExecuteOk(r) \/ ExecuteFails(r)
  \/ ReportOk(r) \/ ReportError(r)

Environment == EditConfig \/ Expire \/ Restart

Next ==
  \/ \E r \in Calls : Load(r) \/ RefuseEarly(r) \/ Step(r) \/ Sink(r)
  \/ Environment

Spec == Init /\ [][Next]_vars

-----------------------------------------------------------------------------
(* A statement takes effect at most once, and only on an authority that    *)
(* was given for it: an allow rule, or a confirm rule together with a      *)
(* one-time choice for this very call or a session choice made in the same *)
(* server process for the same session key — and with Touch ID if the      *)
(* policy asked for it.                                                    *)
Authority(r) ==
  \/ Policy(r).action = "allow"
  \/ /\ Policy(r).action = "confirm"
     /\ Policy(r).touch => r \in auth
     /\ \/ choice[r] = "once"
        \/ \E q \in Calls : /\ choice[q] = "session"
                            /\ KeyOf[q] = KeyOf[r] /\ born[q] = born[r]

ExecutedOnAuthority == \A r \in Calls : effect[r] > 0 => Authority(r)

AppliedAtMostOnce == \A r \in Calls : effect[r] <= 1

(* A refused call changed nothing, even when approvals were granted before *)
(* it was refused.                                                         *)
RefusalsInert == \A r \in Calls : result[r] \in Refusals => effect[r] = 0

(* The audit log never confuses outcomes: at most one row per request, and *)
(* it says what happened (an unanswered prompt is not a decline, a refusal *)
(* is not an execution).                                                   *)
RowFor(r) ==
  CASE result[r] = "ok"          -> "approved"
    [] result[r] = "error"       -> "execution_error"
    [] result[r] = "unavailable" -> "unavailable"
    [] result[r] = "declined"    -> "declined"
    [] OTHER                     -> "denied"

AuditTruthful ==
  \A r \in Calls :
    /\ Len(rows[r]) <= 1
    /\ rows[r] # <<>> => pc[r] \in {"done", "dead"} /\ rows[r] = <<RowFor(r)>>

(* A clean success is audited; one that could not be is reported as such.  *)
SuccessAudited ==
  \A r \in Calls : /\ result[r] = "ok" => rows[r] = <<"approved">>
                   /\ result[r] = "ok_unaudited" => r \in lost

(* The prompt may stay open for long: a call whose policy action is not    *)
(* what it was when the call began stops at revalidation.                  *)
RevalidatedAction ==
  [][\A r \in Calls : pc[r] = "revalidate" /\ pc'[r] = "consume" =>
       PolicyIn(cfg, r).action = Policy(r).action]_vars

(* Session grants die with the process: a grant found in the engine was    *)
(* chosen in the running process.                                          *)
GrantsOfThisProcess ==
  \A k \in Keys : sessions[k] # "absent" =>
    \E q \in Calls : choice[q] = "session" /\ KeyOf[q] = k /\ born[q] = epoch

(***************************************************************************)
(* The gate implements GateContract.  A call is permitted from the answer  *)
(* that lets it pass on to the moment it executes; expired grants stay     *)
(* open in the contract, which only makes it promise less.                 *)
(***************************************************************************)
StageOf(r) ==
  CASE pc[r] = "idle"                                 -> "new"
    [] pc[r] \in {"decide", "session", "ask"}         -> "judged"
    [] pc[r] \in {"revalidate", "consume", "execute"} -> "permitted"
    [] pc[r] = "succeeded"                            -> "ran"
    [] pc[r] = "errored"                              -> "unsure"
    [] pc[r] = "dead"                                 -> "dead"
    [] pc[r] = "done" /\ result[r] \in Refusals       -> "refused"
    [] pc[r] = "done" /\ result[r] = "error"          -> "error"
    [] OTHER                                          -> "success"

OpenKeys ==
  {k \in Keys : \E q \in Calls : choice[q] = "session" /\ KeyOf[q] = k /\ born[q] = epoch}

StaleCalls ==
  {r \in Calls : StageOf(r) = "permitted" /\ scope[r] = "once" /\ oneShots[r] = "expired"}

Contract ==
  INSTANCE GateContract WITH
    stage <- [r \in Calls |-> StageOf(r)], demand <- [r \in Calls |-> Policy(r).action],
    answer <- [r \in Calls |-> IF choice[r] \in {"once", "session"} THEN choice[r] ELSE "none"],
    open <- OpenKeys, stale <- StaleCalls

(* Whatever the configuration, the user, the clocks and the server do, the *)
(* steps of run_sql are steps of its contract.                             *)
ContractKept == Contract!Spec
=============================================================================
