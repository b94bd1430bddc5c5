----------------------------- MODULE GateContract -----------------------------
(***************************************************************************)
(* What run_sql of src/src/app/gate.rs promises to those who call it, with *)
(* no engine, no configuration file and no audit log: a call is judged,    *)
(* permitted by a rule, by its own answer or by an answer given for its    *)
(* key since the server started, and only then, and once, does its         *)
(* statement run; what the caller is told agrees with what happened.       *)
(***************************************************************************)
EXTENDS Naturals

CONSTANTS Calls, Keys, KeyOf

VARIABLES stage,   (* how far a call has come                                 *)
          demand,  (* what the policy asks for                                *)
          answer,  (* what the user answered to the call's own prompt         *)
          open,    (* keys answered for the session in this server process    *)
          stale,   (* calls whose own answer has run out                      *)
          effect   (* how often the statement took effect                     *)

vars == <<stage, demand, answer, open, stale, effect>>

Init ==
  /\ stage = [r \in Calls |-> "new"]
  /\ demand \in [Calls -> {"allow", "confirm", "deny"}]
  /\ answer = [r \in Calls |-> "none"]
  /\ open = {} /\ stale = {}
  /\ effect = [r \in Calls |-> 0]

Moves(r, from, to) == stage[r] \in from /\ stage' = [stage EXCEPT ![r] = to]

(* The policy is read once. *)
Judge(r) ==
  /\ Moves(r, {"new"}, "judged")
  /\ \E d \in {"allow", "confirm", "deny"} : demand' = [demand EXCEPT ![r] = d]
  /\ UNCHANGED <<answer, open, stale, effect>>

(* Without an answer only an allowing rule or an open key will do. *)
PermitUnasked(r) ==
  /\ Moves(r, {"judged"}, "permitted")
  /\ \/ demand[r] = "allow"
     \/ demand[r] = "confirm" /\ KeyOf[r] \in open
  /\ UNCHANGED <<demand, answer, open, stale, effect>>

PermitAsked(r) ==
  /\ Moves(r, {"judged"}, "permitted")
  /\ demand[r] = "confirm"
  /\ \/ answer' = [answer EXCEPT ![r] = "once"] /\ UNCHANGED open
     \/ answer' = [answer EXCEPT ![r] = "session"] /\ open' = open \cup {KeyOf[r]}
  /\ UNCHANGED <<demand, stale, effect>>

(* Until it runs a call may be refused, permitted or not. *)
Refuse(r) ==
  /\ Moves(r, {"new", "judged", "permitted"}, "refused")
  /\ stale' = stale \ {r}
  /\ UNCHANGED <<demand, answer, open, effect>>

(* An answer that ran out before it was used is good for nothing. *)
Lapse(r) ==
  /\ stage[r] = "permitted"
  /\ stale' = stale \cup {r}
  /\ UNCHANGED <<stage, demand, answer, open, effect>>

Run(r) ==
  /\ r \notin stale
  /\ \/ Moves(r, {"permitted"}, "ran") /\ effect' = [effect EXCEPT ![r] = @ + 1]
     \/ Moves(r, {"permitted"}, "unsure") /\ effect' \in {effect, [effect EXCEPT ![r] = @ + 1]}
  /\ UNCHANGED <<demand, answer, open, stale>>

Tell(r) ==
  /\ Moves(r, {"ran"}, "success") \/ Moves(r, {"unsure"}, "error")
  /\ UNCHANGED <<demand, answer, open, stale, effect>>

(* The server dies: of the permitted statements some took effect, the      *)
(* answers are forgotten, and no call under way goes on.                   *)
Die ==
  /\ \E A \in SUBSET {r \in Calls \ stale : stage[r] = "permitted"} :
       effect' = [r \in Calls |-> IF r \in A THEN effect[r] + 1 ELSE effect[r]]
  /\ stage' = [r \in Calls |->
                 IF stage[r] \in {"judged", "permitted", "ran", "unsure"} THEN "dead" ELSE stage[r]]
  /\ open' = {} /\ stale' = {}
  /\ UNCHANGED <<demand, answer>>

Next ==
  \/ \E r \in Calls :
       Judge(r) \/ PermitUnasked(r) \/ PermitAsked(r) \/ Refuse(r)
       \/ Lapse(r) \/ Run(r) \/ Tell(r)
  \/ Die

Spec == Init /\ [][Next]_vars
=============================================================================
