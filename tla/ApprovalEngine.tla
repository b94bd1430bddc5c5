---------------------------- MODULE ApprovalEngine ----------------------------
(***************************************************************************)
(* The in-memory approval state shared by all gate calls of one server     *)
(* process (ApprovalEngine in src/src/approval/mod.rs): one-time approvals *)
(* bound to an operation digest, and session grants for an exact           *)
(* (connection, category, table set).  Both maps are guarded by a mutex:   *)
(* each operation is one atomic step.                                      *)
(*                                                                         *)
(* An expiry instant is abstracted to whether it has passed: a live entry  *)
(* may turn "expired" at any time, and stays in its map until an operation *)
(* of the code removes it.  revoke_sessions and snapshot_sessions have no  *)
(* caller and are left out.                                                *)
(***************************************************************************)
CONSTANTS Digests,  (* operation digests, fresh per approval by their nonce *)
          Keys      (* canonical session keys                               *)

VARIABLES oneShots, (* one-time approvals by digest *)
          sessions  (* session grants by canonical key *)

engineVars == <<oneShots, sessions>>

EntryStates == {"absent", "live", "expired"}

EngineTypeOK ==
  /\ oneShots \in [Digests -> EntryStates]
  /\ sessions \in [Keys -> EntryStates]

EngineInit ==
  /\ oneShots = [d \in Digests |-> "absent"]
  /\ sessions = [k \in Keys |-> "absent"]

GrantOnce(d) ==
  /\ oneShots' = [oneShots EXCEPT ![d] = "live"]
  /\ UNCHANGED sessions

(* consume_once: the entry is removed whether it is still valid or not. *)
Consume(d) ==
  /\ oneShots' = [oneShots EXCEPT ![d] = "absent"]
  /\ UNCHANGED sessions

(* Mutant: the expiry instant is not compared. *)
ConsumeOk_Expired(d) == oneShots[d] # "absent" /\ Consume(d)

ConsumeOk(d) == oneShots[d] = "live" /\ Consume(d)

ConsumeFails(d) == oneShots[d] # "live" /\ Consume(d)

(* grant_session replaces an older grant and renews its expiry. *)
GrantSession(k) ==
  /\ sessions' = [sessions EXCEPT ![k] = "live"]
  /\ UNCHANGED oneShots

SessionCovers(k) == sessions[k] = "live" /\ UNCHANGED engineVars

(* session_covers drops an expired grant it meets. *)
SessionMisses(k) ==
  /\ sessions[k] # "live"
  /\ sessions' = [sessions EXCEPT ![k] = "absent"]
  /\ UNCHANGED oneShots

(* DEFAULT_ONE_SHOT_TTL and DEFAULT_SESSION_TTL running out. *)
OneShotExpires(d) ==
  /\ oneShots[d] = "live"
  /\ oneShots' = [oneShots EXCEPT ![d] = "expired"]
  /\ UNCHANGED sessions

SessionExpires(k) ==
  /\ sessions[k] = "live"
  /\ sessions' = [sessions EXCEPT ![k] = "expired"]
  /\ UNCHANGED oneShots

(* Mutant: session grants are kept across a restart. *)
EngineLost_GrantsKept ==
  /\ oneShots' = [d \in Digests |-> "absent"]
  /\ UNCHANGED sessions

(* The maps live in the process: a restart begins with none. *)
EngineLost ==
  /\ oneShots' = [d \in Digests |-> "absent"]
  /\ sessions' = [k \in Keys |-> "absent"]
=============================================================================
