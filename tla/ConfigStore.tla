------------------------------ MODULE ConfigStore ------------------------------
(***************************************************************************)
(* The config file and everything that edits it: ConfigStore of            *)
(* src/src/config/mod.rs (unlocked load, update under an inter-process     *)
(* lock with a compare-and-swap revision, persist through a temporary file *)
(* and a rename) and the tools of src/src/mcp/tools.rs built on it.        *)
(* Requests run concurrently, in one server process or in several.         *)
(*                                                                         *)
(* Every edit sets a field of its own, so the content of a connection is   *)
(* the set of edits it carries; the same holds for the retention settings. *)
(* A missing config file is the empty config at revision 0, as load has it.*)
(* An import brings one connection, with or without its password.          *)
(***************************************************************************)
EXTENDS Naturals

CONSTANTS Requests,  (* tool calls, each issued at most once *)
          Names,     (* connection names                     *)
          NoName     (* no default connection                *)

ASSUME ConfigAssumption == NoName \notin Names

VARIABLES file,      (* the config file, or Torn when half written            *)
          backup,    (* a copy of a version 1 file was written                *)
          lock,      (* requests that hold the inter-process lock             *)
          secrets,   (* names with a password in the secret store             *)
          pc, kind,  (* control state and tool of each request                *)
          name,      (* its connection name                                   *)
          copy,      (* what it read first: connection content or retention   *)
          readRev,   (* the revision it read that at                          *)
          expected,  (* the revision it passes to update                      *)
          landed,    (* the revision its write produced, 0 before             *)
          result     (* what the tool answered                                *)

reqVars == <<pc, kind, name, copy, readRev, expected, landed, result>>
vars    == <<file, backup, lock, secrets, reqVars>>

Torn == [torn |-> TRUE]

(* edit: set_policy, set_table_policy, clear_table_policy, select_database. *)
Kinds   == {"edit", "remove", "default", "clear", "retention", "add", "addMysql", "import"}
OneLoad == Kinds \ {"edit", "remove"}

PcStates == {"idle", "resolved", "reload", "locking", "locked", "writing", "written",
             "renamed", "storing", "done", "dead"}
Results  == {"none", "ok", "not_found", "conflict", "invalid", "failed", "no_secret"}

Configs ==
  [version : {1, 2}, rev : Nat, conns : UNION {[S -> SUBSET Requests] : S \in SUBSET Names},
   default : Names \cup {NoName}, retention : SUBSET Requests]

TypeOK ==
  /\ file \in Configs \cup {Torn} /\ backup \in BOOLEAN
  /\ lock \in SUBSET Requests /\ secrets \in SUBSET Names
  /\ pc \in [Requests -> PcStates] /\ kind \in [Requests -> Kinds]
  /\ name \in [Requests -> Names] /\ copy \in [Requests -> SUBSET Requests]
  /\ readRev \in [Requests -> Nat] /\ expected \in [Requests -> Nat]
  /\ landed \in [Requests -> Nat] /\ result \in [Requests -> Results]

Known(c) == DOMAIN c.conns

Empty == [x \in {} |-> {}]

(* No file, or a file written by version 1 or version 2 of the program. *)
Init ==
  /\ \/ file = [version |-> 2, rev |-> 0, conns |-> Empty, default |-> NoName, retention |-> {}]
     \/ \E S \in SUBSET Names, v \in {1, 2} : \E d \in S \cup {NoName} :
          file = [version |-> v, rev |-> 1, conns |-> [n \in S |-> {}], default |-> d,
                  retention |-> {}]
  /\ backup = FALSE /\ lock = {} /\ secrets = {n \in Names : n \in Known(file)}
  /\ pc = [r \in Requests |-> "idle"] /\ kind \in [Requests -> Kinds]
  /\ name \in [Requests -> Names] /\ copy = [r \in Requests |-> {}]
  /\ readRev = [r \in Requests |-> 0] /\ expected = [r \in Requests |-> 0]
  /\ landed = [r \in Requests |-> 0] /\ result = [r \in Requests |-> "none"]

-----------------------------------------------------------------------------
Goes(r, from, to) == pc[r] = from /\ pc' = [pc EXCEPT ![r] = to]

Answers(r, from, res) ==
  /\ Goes(r, from, "done")
  /\ result' = [result EXCEPT ![r] = res]

(* load: a version 1 file is migrated on the fly. *)
Load(c) == [c EXCEPT !.version = 2]

(* The first load of a tool that copies the connection it edits. *)
Resolve(r) ==
  /\ kind[r] \notin OneLoad /\ file # Torn /\ name[r] \in Known(file)
  /\ Goes(r, "idle", IF kind[r] = "remove" THEN "resolved" ELSE "reload")
  /\ copy' = [copy EXCEPT ![r] = file.conns[name[r]]]
  /\ readRev' = [readRev EXCEPT ![r] = file.rev]
  /\ UNCHANGED <<file, backup, lock, secrets, kind, name, expected, landed, result>>

(* remove_connection deletes the password before it touches the config. *)
DeleteSecret(r) ==
  /\ Goes(r, "resolved", "reload")
  /\ secrets' = secrets \ {name[r]}
  /\ UNCHANGED <<file, backup, lock, kind, name, copy, readRev, expected, landed, result>>

(* Its second load, only for the revision. *)
Reload(r) ==
  /\ file # Torn
  /\ Goes(r, "reload", "locking")
  /\ expected' = [expected EXCEPT ![r] = file.rev]
  /\ UNCHANGED <<file, backup, lock, secrets, kind, name, copy, readRev, landed, result>>

(* The only load of the other tools. *)
LoadOnce(r) ==
  /\ kind[r] \in OneLoad /\ file # Torn
  /\ kind[r] = "default" => name[r] \in Known(file)
  /\ Goes(r, "idle", "locking")
  /\ copy' = [copy EXCEPT ![r] = file.retention]
  /\ readRev' = [readRev EXCEPT ![r] = file.rev]
  /\ expected' = [expected EXCEPT ![r] = file.rev]
  /\ UNCHANGED <<file, backup, lock, secrets, kind, name, landed, result>>

(* No such connection, or no such rule for clear_table_policy. *)
NotFound(r) ==
  /\ file # Torn
  /\ kind[r] = "edit" \/ (kind[r] \in {"remove", "default"} /\ name[r] \notin Known(file))
  /\ Answers(r, "idle", "not_found")
  /\ UNCHANGED <<file, backup, lock, secrets, kind, name, copy, readRev, expected, landed>>

(* The file cannot be read, the first or the second time. *)
LoadFails(r) ==
  /\ pc[r] \in {"idle", "reload"}
  /\ Answers(r, pc[r], "failed")
  /\ UNCHANGED <<file, backup, lock, secrets, kind, name, copy, readRev, expected, landed>>

-----------------------------------------------------------------------------
(* update: lock, load, compare revisions, mutate, validate, persist.       *)

Acquire(r) == lock = {} /\ lock' = {r}

(* Mutant: only a request that has written gives the lock back. *)
Release_Forgotten(r) == lock' = IF pc[r] = "renamed" THEN lock \ {r} ELSE lock

Release(r) == lock' = lock \ {r}

Lock(r) ==
  /\ Acquire(r)
  /\ Goes(r, "locking", "locked")
  /\ UNCHANGED <<file, backup, secrets, kind, name, copy, readRev, expected, landed, result>>

(* Mutant: no tool looks at what update returned. *)
Failure_Swallowed(r, res) == "ok"

(* set_default_connection with an empty name ignores what update returned. *)
Failure(r, res) == IF kind[r] = "clear" THEN "ok" ELSE res

Conflict(r) ==
  /\ file # Torn /\ file.rev # expected[r]
  /\ Answers(r, "locked", Failure(r, "conflict"))
  /\ Release(r)
  /\ UNCHANGED <<file, backup, secrets, kind, name, copy, readRev, expected, landed>>

Upsert(c, n, content) ==
  [c EXCEPT !.conns = [m \in Known(c) \cup {n} |-> IF m = n THEN content ELSE c.conns[m]]]

Without(c, n) ==
  [c EXCEPT !.conns = [m \in Known(c) \ {n} |-> c.conns[m]],
            !.default = IF @ = n THEN NoName ELSE @]

(* Mutant: an edit does not carry over what the connection already had. *)
Mutated_Fresh(r, c) ==
  CASE kind[r] \in {"edit", "add", "addMysql", "import"} -> Upsert(c, name[r], {r})
    [] kind[r] = "remove"    -> Without(c, name[r])
    [] kind[r] = "default"   -> [c EXCEPT !.default = name[r]]
    [] kind[r] = "clear"     -> [c EXCEPT !.default = NoName]
    [] kind[r] = "retention" -> [c EXCEPT !.retention = copy[r] \cup {r}]

(* The closures the tools pass to update. *)
Mutated(r, c) ==
  CASE kind[r] = "edit"      -> Upsert(c, name[r], copy[r] \cup {r})
    [] kind[r] \in {"add", "addMysql", "import"} -> Upsert(c, name[r], {r})
    [] kind[r] = "remove"    -> Without(c, name[r])
    [] kind[r] = "default"   -> [c EXCEPT !.default = name[r]]
    [] kind[r] = "clear"     -> [c EXCEPT !.default = NoName]
    [] kind[r] = "retention" -> [c EXCEPT !.retention = copy[r] \cup {r}]

(* Mutant: the revision is not compared. *)
Unchanged_Unchecked(r) == file # Torn

Unchanged(r) == file # Torn /\ file.rev = expected[r]

(* The default connection must exist.  Validation of the connections' own  *)
(* fields may refuse any request.                                          *)
Valid(c) == c.default \in Known(c) \cup {NoName}

(* The import stores the passwords it finds inside its closure.            *)
MaybeImport(r) ==
  \/ UNCHANGED secrets
  \/ kind[r] = "import" /\ secrets' = secrets \cup {name[r]}

Refuse(r) ==
  /\ Unchanged(r)
  /\ Answers(r, "locked", Failure(r, "invalid"))
  /\ Release(r)
  /\ MaybeImport(r)
  /\ UNCHANGED <<file, backup, kind, name, copy, readRev, expected, landed>>

(* The branch that backs up a version 1 file looks at the version that     *)
(* load_locked has already set.                                            *)
Mutate(r) ==
  /\ Unchanged(r)
  /\ Valid(Mutated(r, Load(file)))
  /\ backup' = (backup \/ Load(file).version = 1)
  /\ MaybeImport(r)
  /\ Goes(r, "locked", "writing")
  /\ UNCHANGED <<file, lock, kind, name, copy, readRev, expected, landed, result>>

(* Mutant: the new content is written over the file itself. *)
WriteTmp_InPlace(r) ==
  /\ Goes(r, "writing", "written")
  /\ file' = Torn
  /\ UNCHANGED <<backup, lock, secrets, kind, name, copy, readRev, expected, landed, result>>

(* The temporary file is written and synced. *)
WriteTmp(r) ==
  /\ Goes(r, "writing", "written")
  /\ UNCHANGED <<file, backup, lock, secrets, kind, name, copy, readRev, expected, landed, result>>

(* Mutant: the closure's config is bumped a second time. *)
Bumped_Twice(c) == [c EXCEPT !.rev = @ + 2]

Bumped(c) == [c EXCEPT !.rev = @ + 1]

(* Under the lock the file is still the one that was loaded. *)
Rename(r) ==
  /\ Goes(r, "written", "renamed")
  /\ file' = Bumped(Mutated(r, Load(file)))
  /\ landed' = [landed EXCEPT ![r] = file.rev + 1]
  /\ UNCHANGED <<backup, lock, secrets, kind, name, copy, readRev, expected, result>>

(* The lock, the load under it or the write fails. *)
UpdateFails(r) ==
  /\ pc[r] \in {"locking", "locked", "writing", "written"}
  /\ Answers(r, pc[r], Failure(r, "failed"))
  /\ Release(r)
  /\ UNCHANGED <<file, backup, secrets, kind, name, copy, readRev, expected, landed>>

Updated(r) ==
  /\ Release(r)
  /\ IF kind[r] = "addMysql"
     THEN Goes(r, "renamed", "storing") /\ UNCHANGED result
     ELSE Answers(r, "renamed", "ok")
  /\ UNCHANGED <<file, backup, secrets, kind, name, copy, readRev, expected, landed>>

(* set_password deletes an older item before it stores the new one. *)
StoreSecret(r) ==
  /\ \/ Answers(r, "storing", "ok") /\ secrets' = secrets \cup {name[r]}
     \/ Answers(r, "storing", "no_secret") /\ secrets' = secrets \ {name[r]}
  /\ UNCHANGED <<file, backup, lock, kind, name, copy, readRev, expected, landed>>

-----------------------------------------------------------------------------
(* The process of a request dies; the kernel drops its lock. *)
Crash(r) ==
  /\ pc[r] \notin {"idle", "done", "dead"}
  /\ pc' = [pc EXCEPT ![r] = "dead"]
  /\ Release(r)
  /\ UNCHANGED <<file, backup, secrets, kind, name, copy, readRev, expected, landed, result>>

Begin(r) == Resolve(r) \/ LoadOnce(r) \/ NotFound(r) \/ LoadFails(r)

Step(r) ==
  \/ DeleteSecret(r) \/ Reload(r) \/ Lock(r) \/ Conflict(r) \/ Refuse(r) \/ Mutate(r)
  \/ WriteTmp(r) \/ Rename(r) \/ Updated(r) \/ StoreSecret(r)

Next == \E r \in Requests : Begin(r) \/ Step(r) \/ UpdateFails(r) \/ Crash(r)

Spec == Init /\ [][Next]_vars

(* A request that has begun runs to its end; failures may happen but never *)
(* have to, least of all to a request that waits for the lock.  The lock   *)
(* needs no fairness of its own: finitely many requests can overtake.      *)
FairSpec == Spec /\ \A r \in Requests : WF_vars(Step(r))

-----------------------------------------------------------------------------
(* A reader never meets a half-written file, wherever a writer stops.      *)
ConfigReadable == file # Torn

(* The compare-and-swap: a write replaces exactly the revision its request *)
(* named, and produces the next one — so a revision names one config.      *)
WritesSerialised ==
  [][file' # file =>
       \E r \in Requests : /\ pc[r] = "written" /\ pc'[r] = "renamed"
                           /\ file.rev = expected[r] /\ file'.rev = file.rev + 1]_vars

(* A retention change that was persisted is never lost: set_retention      *)
(* rewrites the whole section from the copy its compare-and-swap covers.   *)
RetentionKept ==
  \A r \in Requests : kind[r] = "retention" /\ landed[r] > 0 => r \in file.retention

(* The write of q carries edit e: it is e's own, or q had copied it. *)
Carries(q, e) == kind[q] = "edit" /\ name[q] = name[e] /\ e \in copy[q] \cup {q}

(* An edit of a connection only disappears when the connection is removed  *)
(* or saved anew, or under a copy older than a write that carried the edit *)
(* into the file: its own, or that of a request that brings it back after  *)
(* a removal because its copy still held it.                               *)
EditsLostToOldCopiesOnly ==
  [][\A e \in Requests :
       (/\ kind[e] = "edit"
        /\ name[e] \in Known(file) /\ e \in file.conns[name[e]]
        /\ ~ (name[e] \in Known(file') /\ e \in file'.conns[name[e]]))
       => \E r \in Requests :
            /\ landed'[r] # landed[r] /\ name[r] = name[e]
            /\ kind[r] = "edit" =>
                 \E q \in Requests : Carries(q, e) /\ readRev[r] < landed[q]]_vars

(* Every tool but the clearing of the default answers success only for a   *)
(* change that reached the file.                                           *)
SuccessPersisted ==
  \A r \in Requests : result[r] \in {"ok", "no_secret"} /\ kind[r] # "clear" => landed[r] > 0

(* No request waits forever for the lock, whoever crashed holding it.      *)
RequestsReturn ==
  \A r \in Requests : pc[r] \notin {"idle", "done", "dead"} ~> pc[r] \in {"done", "dead"}

-----------------------------------------------------------------------------
(* What the documentation claims and the code does not keep.               *)

(* "GUI, CLI, MCP cannot silently overwrite each other": an edit that was  *)
(* answered with success stays while its connection is neither removed nor *)
(* saved anew.                                                             *)
EditsKept ==
  [][\A e \in Requests :
       (/\ kind[e] = "edit" /\ result[e] = "ok"
        /\ name[e] \in Known(file) /\ e \in file.conns[name[e]]
        /\ name[e] \in Known(file'))
       => \/ e \in file'.conns[name[e]]
          \/ \E r \in Requests : landed'[r] # landed[r] /\ kind[r] # "edit"]_vars

================================================================================
