--------------------------------- MODULE Mrtr ---------------------------------
(***************************************************************************)
(* Approvals that make a round trip through the client (the "modern" flow):*)
(* the pending store of src/src/mcp/mrtr.rs and call_sql_modern of         *)
(* src/src/mcp/tools.rs on top of it.  A first call of a statement that    *)
(* needs confirmation gets an opaque token back; the client repeats the    *)
(* call with the token and the user's answer; the retry takes the token    *)
(* and runs the statement through the operation gate.                      *)
(*                                                                         *)
(* A token is the number of its issue: it is random in the code, so a      *)
(* client knows the tokens it was sent and no other.  The gate (see Gate)  *)
(* is one step here, with its own load of the config; what matters to this *)
(* module is that this load is not the one the token was checked against.  *)
(* The plan of a DROP statement is not modelled.                           *)
(***************************************************************************)
EXTENDS Naturals, Sequences, FiniteSets

CONSTANTS Calls,         (* tool calls, first ones and retries              *)
          Ops,           (* [tool, conn, target, sql] of the statements     *)
          Databases,     (* default databases the connections may have      *)
          MaxPending,    (* MAX_PENDING                                     *)
          MaxTombstones, (* MAX_TOMBSTONES                                  *)
          MaxTokens,     (* bound: tokens issued                            *)
          MaxRev,        (* bound: config revisions                         *)
          MaxRestarts    (* bound: server restarts                          *)

ASSUME MrtrAssumption ==
  /\ MaxPending \in Nat \ {0} /\ MaxTombstones \in Nat \ {0}
  /\ MaxTokens \in Nat /\ MaxRev \in Nat /\ MaxRestarts \in Nat

Tokens  == 1..MaxTokens
NoToken == 0
Actions == {"allow", "confirm", "deny"}
Configs == [rev : 0..MaxRev, action : Actions, db : Databases]

(* What the store keeps of a token: operation_digest covers sql, conn, db  *)
(* and rev; tool, conn and rev are also kept beside it.                    *)
Bindings == [op : Ops, db : Databases, rev : 0..MaxRev]

(* What a session grant is for; target is the category and table set. *)
Key(o, d) == <<o.conn, d, o.target>>
Keys == {Key(o, d) : o \in Ops, d \in Databases}

VARIABLES cfg,        (* the config file                                    *)
          restarts,   (* restarts so far                                    *)
          pending,    (* tokens in the pending store                        *)
          tombstones, (* consumed tokens remembered, oldest first           *)
          issued,     (* number of tokens issued                            *)
          bound,      (* the record of each issued token                    *)
          expired,    (* tokens whose TTL has run out                       *)
          granted,    (* keys with a session grant in the engine            *)
          consumed,   (* history: tokens taken                              *)
          late,       (* history: those already expired when taken          *)
          dropped,    (* history: tokens evicted or lost with the process   *)
          runs,       (* history: what each token let run, in order         *)
          pc, op, token, answer, seen, result

takenVars == <<consumed, late>>
storeVars == <<pending, tombstones, issued, bound, expired, dropped>>
callVars  == <<pc, op, token, answer, seen, result>>
vars      == <<cfg, restarts, storeVars, granted, takenVars, runs, callVars>>

PcStates == {"idle", "loaded", "direct", "take", "respond", "gate", "done", "dead"}
Answers  == {"none", "once", "session", "decline", "unavailable"}
Results  == {"none", "input_required", "ran", "denied", "declined", "unavailable",
             "invalid_state", "expired", "policy_changed", "already_consumed", "rejected", "failed"}

(* Types; the pending store and the tombstones never exceed their caps. *)
TypeOK ==
  /\ cfg \in Configs /\ restarts \in 0..MaxRestarts
  /\ pending \subseteq 1..issued /\ issued \in 0..MaxTokens
  /\ Cardinality(pending) <= MaxPending
  /\ tombstones \in Seq(1..issued) /\ Len(tombstones) <= MaxTombstones
  /\ bound \in Seq(Bindings) /\ Len(bound) = issued /\ expired \subseteq 1..issued
  /\ granted \subseteq Keys /\ consumed \subseteq 1..issued /\ late \subseteq consumed
  /\ dropped \subseteq 1..issued
  /\ runs \in [Tokens -> Seq(Bindings)]
  /\ pc \in [Calls -> PcStates] /\ op \in [Calls -> Ops]
  /\ token \in [Calls -> 0..issued] /\ answer \in [Calls -> Answers]
  /\ seen \in [Calls -> Configs] /\ result \in [Calls -> Results]

Init ==
  /\ cfg \in [rev : {0}, action : Actions, db : Databases] /\ restarts = 0
  /\ pending = {} /\ tombstones = <<>> /\ issued = 0 /\ bound = <<>>
  /\ expired = {} /\ granted = {} /\ consumed = {} /\ late = {} /\ dropped = {}
  /\ runs = [t \in Tokens |-> <<>>]
  /\ pc = [c \in Calls |-> "idle"] /\ op \in [Calls -> Ops]
  /\ token = [c \in Calls |-> NoToken] /\ answer = [c \in Calls |-> "none"]
  /\ seen = [c \in Calls |-> cfg] /\ result = [c \in Calls |-> "none"]

-----------------------------------------------------------------------------
Goes(c, from, to) == pc[c] = from /\ pc' = [pc EXCEPT ![c] = to]

Returns(c, from, res) ==
  /\ Goes(c, from, "done")
  /\ result' = [result EXCEPT ![c] = res]

(* The operation a call stands for under the config it loaded. *)
Binding(c) == [op |-> op[c], db |-> seen[c].db, rev |-> seen[c].rev]

(* A call arrives, its arguments are classified and resolved under one     *)
(* load of the config.                                                     *)
Load(c) ==
  /\ Goes(c, "idle", "loaded")
  /\ seen' = [seen EXCEPT ![c] = cfg]
  /\ \/ UNCHANGED <<token, answer>>
     \/ \E t \in 1..issued, a \in Answers :
          token' = [token EXCEPT ![c] = t] /\ answer' = [answer EXCEPT ![c] = a]
  /\ UNCHANGED <<cfg, restarts, storeVars, granted, takenVars, runs, op, result>>

(* No config, no such connection, no classification, or no DROP plan: the  *)
(* call ends before a token is looked at.                                  *)
Refuse(c) ==
  /\ \E from \in {"idle", "loaded"} : Returns(c, from, "rejected")
  /\ UNCHANGED <<cfg, restarts, storeVars, granted, takenVars, runs, op, token, answer, seen>>

(* Only statements to be confirmed use a token: the others go to the gate  *)
(* with a sink that answers nothing, whatever else the call carries.       *)
Decide(c) ==
  /\ Goes(c, "loaded",
          IF seen[c].action = "confirm" THEN "take" ELSE "direct")
  /\ UNCHANGED <<cfg, restarts, storeVars, granted, takenVars, runs,
                 op, token, answer, seen, result>>

(* The gate decides under a load of its own; it has its own failures too.  *)
GateDirect(c) ==
  /\ \/ Returns(c, "direct",
             CASE cfg.action = "allow" \/ (cfg.action = "confirm" /\ Key(op[c], cfg.db) \in granted) -> "ran"
               [] cfg.action = "deny" -> "denied"
               [] OTHER -> "unavailable")
     \/ Returns(c, "direct", "failed")
  /\ UNCHANGED <<cfg, restarts, storeVars, granted, takenVars, runs, op, token, answer, seen>>

-----------------------------------------------------------------------------
(* issue: the newest MaxPending tokens are kept.                           *)

Kept(S) == {t \in S : Cardinality({u \in S : u > t}) < MaxPending}

Issue(c) ==
  /\ token[c] = NoToken /\ issued < MaxTokens
  /\ Returns(c, "take", "input_required")
  /\ issued' = issued + 1
  /\ bound' = Append(bound, Binding(c))
  /\ pending' = Kept(pending \cup {issued + 1})
  /\ dropped' = dropped \cup (pending \ pending')
  /\ UNCHANGED <<cfg, restarts, tombstones, expired, granted, takenVars, runs,
                 op, token, answer, seen>>

(* No requestState, one that is too long, or too long an answer. *)
RejectRetry(c) ==
  /\ token[c] # NoToken
  /\ Returns(c, "take", "rejected")
  /\ UNCHANGED <<cfg, restarts, storeVars, granted, takenVars, runs, op, token, answer, seen>>

-----------------------------------------------------------------------------
(* take: look up, consume, then validate every binding.                    *)

(* Mutant: no tombstone is written. *)
Bury_Never(t) == UNCHANGED tombstones

Bury(t) ==
  LET s == Append(tombstones, t)
  IN  tombstones' = IF Len(s) > MaxTombstones THEN Tail(s) ELSE s

(* Mutant: a token stays in the store until its retry has succeeded. *)
Consume_Keep(c) ==
  /\ consumed' = consumed \cup {token[c]}
  /\ late' = late \cup ({token[c]} \cap expired)
  /\ Bury(token[c])
  /\ UNCHANGED <<pending, dropped>>

Consume(c) ==
  /\ pending' = pending \ {token[c]}
  /\ consumed' = consumed \cup {token[c]}
  /\ late' = late \cup ({token[c]} \cap expired)
  /\ Bury(token[c])
  /\ UNCHANGED dropped

(* Mutant: the reaping keeps the wrong side. *)
Reap_Live(S) == S \cap expired

Reap(S) == S \ expired

(* A token that is not pending: expired ones are reaped on the way. *)
TakeUnknown(c) ==
  /\ token[c] # NoToken /\ token[c] \notin pending
  /\ Returns(c, "take", IF \E i \in DOMAIN tombstones : tombstones[i] = token[c]
                        THEN "already_consumed" ELSE "invalid_state")
  /\ pending' = Reap(pending)
  /\ dropped' = dropped \cup (pending \ pending')
  /\ UNCHANGED <<cfg, restarts, tombstones, issued, bound, expired, granted, takenVars, runs,
                 op, token, answer, seen>>

(* Mutant: the expiry is not compared. *)
Verdict_NoExpiry(c) ==
  LET b == bound[token[c]]
  IN  IF b.op.tool # op[c].tool \/ b.op.conn # op[c].conn THEN "invalid_state"
      ELSE IF b.rev # seen[c].rev                         THEN "policy_changed"
      ELSE IF b # Binding(c)                              THEN "invalid_state"
      ELSE "valid"

(* Mutant: the digest is not compared. *)
Verdict_NoDigest(c) ==
  LET b == bound[token[c]]
  IN  IF token[c] \in expired                                  THEN "expired"
      ELSE IF b.op.tool # op[c].tool \/ b.op.conn # op[c].conn THEN "invalid_state"
      ELSE IF b.rev # seen[c].rev                              THEN "policy_changed"
      ELSE "valid"

Verdict(c) ==
  LET b == bound[token[c]]
  IN  IF token[c] \in expired                                  THEN "expired"
      ELSE IF b.op.tool # op[c].tool \/ b.op.conn # op[c].conn THEN "invalid_state"
      ELSE IF b.rev # seen[c].rev                              THEN "policy_changed"
      ELSE IF b # Binding(c)                                   THEN "invalid_state"
      ELSE "valid"

Take(c) ==
  /\ token[c] \in pending
  /\ IF Verdict(c) = "valid"
     THEN Goes(c, "take", "respond") /\ UNCHANGED result
     ELSE Returns(c, "take", Verdict(c))
  /\ Consume(c)
  /\ UNCHANGED <<cfg, restarts, issued, bound, expired, granted, runs, op, token, answer, seen>>

(* The response: none for "approval" is an error after the consumption. *)
Respond(c) ==
  /\ CASE answer[c] \in {"once", "session"} -> Goes(c, "respond", "gate") /\ UNCHANGED result
       [] answer[c] = "decline"             -> Returns(c, "respond", "declined")
       [] answer[c] = "unavailable"         -> Returns(c, "respond", "unavailable")
       [] answer[c] = "none"                -> Returns(c, "respond", "rejected")
  /\ UNCHANGED <<cfg, restarts, storeVars, granted, takenVars, runs, op, token, answer, seen>>

Runs(c) ==
  runs' = [runs EXCEPT ![token[c]] = Append(@, [op |-> op[c], db |-> cfg.db, rev |-> cfg.rev])]

GrantedNow(c) ==
  granted \cup (IF cfg.action = "confirm" /\ answer[c] = "session" THEN {Key(op[c], cfg.db)} ELSE {})

(* run_sql with the decided outcome as its sink, under its own config.  It *)
(* may fail before or after a session grant is recorded.                   *)
GateRun(c) ==
  /\ \/ /\ cfg.action = "deny"
        /\ Returns(c, "gate", "denied")
        /\ UNCHANGED <<granted, runs>>
     \/ /\ cfg.action # "deny"
        /\ Returns(c, "gate", "ran")
        /\ Runs(c)
        /\ granted' = GrantedNow(c)
     \/ /\ Returns(c, "gate", "failed")
        /\ granted' \in {granted, GrantedNow(c)}
        /\ UNCHANGED runs
  /\ UNCHANGED <<cfg, restarts, storeVars, takenVars, op, token, answer, seen>>

-----------------------------------------------------------------------------
(* The environment.                                                        *)

EditConfig ==
  /\ cfg.rev < MaxRev
  /\ \E a \in Actions, d \in Databases :
       cfg' = [rev |-> cfg.rev + 1, action |-> a, db |-> d]
  /\ UNCHANGED <<restarts, storeVars, granted, takenVars, runs, callVars>>

(* A token's TTL or a session grant runs out. *)
Expire ==
  /\ \/ /\ \E t \in 1..issued : expired' = expired \cup {t}
        /\ UNCHANGED granted
     \/ /\ \E k \in granted : granted' = granted \ {k}
        /\ UNCHANGED expired
  /\ UNCHANGED <<cfg, restarts, pending, tombstones, issued, bound, dropped,
                 takenVars, runs, callVars>>

(* The stores live in the process. *)
Restart ==
  /\ restarts < MaxRestarts
  /\ restarts' = restarts + 1
  /\ pending' = {} /\ tombstones' = <<>> /\ granted' = {}
  /\ dropped' = dropped \cup pending
  /\ pc' = [c \in Calls |-> IF pc[c] \in {"idle", "done"} THEN pc[c] ELSE "dead"]
  /\ UNCHANGED <<cfg, issued, bound, expired, takenVars, runs, op, token, answer, seen, result>>

Step(c) ==
  \/ Load(c) \/ Refuse(c) \/ Decide(c) \/ GateDirect(c) \/ Issue(c) \/ RejectRetry(c)
  \/ TakeUnknown(c) \/ Take(c) \/ Respond(c) \/ GateRun(c)

Next == (\E c \in Calls : Step(c)) \/ EditConfig \/ Expire \/ Restart

Spec == Init /\ [][Next]_vars

FairSpec == Spec /\ \A c \in Calls : WF_vars(Step(c))

-----------------------------------------------------------------------------
(* One token, one run — through retries, replays and restarts. *)
SingleUse == \A t \in Tokens : Len(runs[t]) <= 1

(* The statement that runs is the one the token was issued for. *)
ApprovedStatementOnly ==
  \A t \in Tokens : \A i \in DOMAIN runs[t] : runs[t][i].op = bound[t].op

(* A token that had expired when it was taken never runs anything. *)
ExpiredNeverRuns == \A t \in late : runs[t] = <<>>

(* A replay is told apart from an unknown token, unless so many tokens     *)
(* were consumed that its tombstone has gone, or the process restarted.    *)
ReplayReported ==
  [][\A c \in Calls :
       result'[c] = "invalid_state" /\ result[c] = "none" /\ token[c] \notin pending =>
         \/ token[c] \notin consumed \/ restarts > 0
         \/ Cardinality(consumed) > MaxTombstones]_vars

(* No approval is lost for nothing: a token that is neither pending nor    *)
(* consumed has expired, was pushed out by MaxPending younger ones, or     *)
(* died with its process.                                                  *)
NothingLost ==
  \A t \in (1..issued) \ (pending \cup consumed) :
    \/ t \in expired \/ restarts > 0 \/ issued >= t + MaxPending
=============================================================================
