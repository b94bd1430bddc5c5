# A TLA+ model of sequel-ace-mcp

sequel-ace-mcp is an MCP server (Rust) through which an assistant runs SQL on a
user's saved connections. Every statement passes a gate: it is classified,
resolved against a two-layer policy (allow, confirm, deny), approved by the user
when the policy says confirm, executed with a backup of what it changes, and
audited. Several server processes, a GUI and a command line share one config
file, one audit database and the secret store.

This directory holds TLA+ modules of the parts whose correctness depends on the
order of events or on an algorithm with many cases, TLC configurations that
check them on small instances, and TLAPS proofs of the most important
properties. `PROJECT.json` maps each definition to the source lines it models,
lists the hazards of the code and names a mutant for every property.

## 1. Inventory

| Component (source) | State it keeps | Operations | What makes it correct |
|---|---|---|---|
| Approval IPC hub (`src/approval/ipc.rs`) | one pending slot with a oneshot sender | `ask`, `handle_connection` | a choice is never made up, is given for the ask that receives it, and no ask waits or blocks the slot for ever |
| Companion, GUI (`src/gui/`) | the request on screen | `run_one_round` | one answer per request shown |
| Approval engine (`src/approval/mod.rs`) | one-time approvals, session grants, both expiring, in memory | `grant_once`, `consume_once`, `grant_session`, `session_covers` | single use, exact scope, gone with the process |
| Operation gate (`src/app/gate.rs`) | one call's progress | `run_sql` | nothing executes without authority; the audit row and the answer tell what happened |
| Config store (`src/config/mod.rs`) | the JSON file, its revision, a lock file | `load`, `update`, `persist`, migration | always readable, writers serialised, no lost edits |
| Config tools (`src/mcp/tools.rs`) | none | add, remove, import, set/clear policy, select database, default, retention | success means persisted; secrets follow connections |
| MRTR exchange (`src/mcp/mrtr.rs`, `call_sql_modern`) | pending tokens, tombstones | `issue`, `take`, `parse_response` | a token runs one statement, the one it was issued for, before its TTL |
| Legacy confirmation (`src/mcp/confirm.rs`) | none | elicitation, fallback to the hub | no prompt is a refusal, not a consent |
| SQL classifier (`src/policy/classifier.rs`) | none | `classify_statement` | every table a statement touches is found, whatever it is nested in |
| Policy model, resolver (`src/policy/model.rs`, `resolver.rs`) | none | `merged_with`, `resolve` | deny wins; the strictest table decides |
| MySQL executor, cancellation, DDL preflight (`src/sql/mysql.rs`, `cancel.rs`, `ddl.rs`) | transaction, deadline, kill | `execute_mysql_statement` | the backup is the pre-image; what is reported is the database's outcome; a killed connection comes back clean |
| Mutation journal (`src/backup/journal.rs`) | a row per mutation | `create`, `transition`, `recoverable` | a crash leaves a recoverable row, and no row claims the opposite of the server |
| SQLite executor (`src/sql/sqlite.rs`) | transaction | `execute_sqlite_statement` | the same, on a local file |
| Extractor, backups, restore (`src/backup/`) | backup rows | capture, plan, replay | what was changed can be put back |
| Audit log, retention (`src/audit/`) | rows chained by hash | append, verify, clean up | every change to a row is noticed, no legitimate operation is reported as one |
| SSH tunnels (`src/sql/ssh.rs`) | cache, in-flight guards, sessions, listeners | `tunnel_endpoint`, `establish`, `retire` | one establishment per identity, no lease checked against an old `known_hosts` |
| Connection pools (`src/sql/pool.rs`) | cache keyed by connection, revision, generation | `verified_pool`, `evict_by_generation` | a call runs on a pool opened as the call was configured |
| Known hosts (`src/sql/known_hosts.rs`) | none | load, verify, decide | a revoked or another key is never accepted |
| Touch ID, Keychain (`src/vault/`) | a 15-minute window; the secrets | authenticate, get/set/delete | fail closed |
| Input limits, digest, redactor, importer, history, Docker bridge, CLI | little or none | pure functions and I/O | see section 6 |

How they interact. A tool call (`mcp/tools.rs`) runs `run_sql` on a blocking
thread with a *sink*: for a legacy client the elicitation of `confirm.rs`, which
falls back to the hub's `ask`; for a modern client first an MRTR exchange, then
the gate with the answer as a pre-decided sink. The gate loads the config file
twice (decision, revalidation), calls classifier and resolver, reads and writes
the process-wide engine, leases a tunnel, takes a pool, calls an executor, which
captures a backup and writes the journal, and appends to the audit database. The
config file is edited at any time by other calls, other server processes, the
GUI and the CLI.

Where it is hard:

* *interleavings* — concurrent calls share the slot, the engine, the token
  store, tunnels, pools and the config file; the hub checks a reply under one
  lock and takes the slot under another; config tools load twice before they
  write; tunnels are established and pools probed outside their locks;
* *waiting* — a prompt stays open for an unbounded time between the decision and
  the execution, while policies change, approvals expire and the server restarts;
* *timeouts* — the hub's deadline races the answer; an execution deadline races
  the commit and is followed by a kill and a grace period; tokens and grants
  expire;
* *partial failure* — the statement took effect and the audit write failed; the
  config was written and the secret was not; `persist` stops anywhere; a
  connection breaks before or after the server served it;
* *bounds* — the token store, the tombstones, the tunnel and pool caches;
* *cases* — nested queries, rules of two layers, backup shapes and their inverses.

`PROJECT.json` lists each of these hazards at its line with the properties that
cover it, or the reason none does.

## 2. Modules

| Module | Models | State and actions against the code |
|---|---|---|
| `ApprovalIpc` | the hub and its companions | `slot` is `inner.slot`; `chan[a]` the oneshot channel of ask `a`; `conn[c]` the program counter of a `handle_connection` task. One action per lock acquisition and per poll of the timeout. `AskElapsed` drops the receiver, `AskReap` clears the slot; `ReplyAccepted` is the first lock, `TakeSlot` the second, `SendChoice` the send and the acknowledgement. |
| `ApprovalEngine` | the engine's two maps | each method holds the mutex, so it is one step; an expiry instant is the state `expired`, reached at any time |
| `Gate` | `run_sql`, extends `ApprovalEngine` | `pc[r]` walks through the function; `seen[r]` is the first config, `cfg` the file. The sink's wait is the state `ask`. `ExecuteFails` may have applied the statement. `EditConfig`, `Expire`, `Restart` are the environment. |
| `GateContract` | what `run_sql` promises | an abstract specification without engine, config file and audit log: judge, permit, run once, tell. `Gate` implements it under a mapping of its control points (`Contract`, `ContractKept` in `Gate`). |
| `ConfigStore` | `load`, `update`, `lock`, `persist` and the tools | `file` is the config file, `lock` the lock file, `copy[r]`/`readRev[r]` what a tool read first and when, `expected[r]` the revision it passes to `update`. `WriteTmp` and `Rename` are separate; `Crash` happens between any two steps and frees the lock as the kernel does. |
| `Mrtr` | the token store and `call_sql_modern` | `pending`, `tombstones` are the store; `bound[t]` what token `t` was issued for; the gate is one step under its own load of the config (`GateRun`, `GateDirect`), as `Gate` covers its inside. |
| `AuditLog` | `write_audit_entry`, `cleanup_audit`, `verify_chain`, the restore's audit rows | `log` and `backups` are the tables, `lock` the write lock of the SQLite file; a caller goes through `Stamp`, `BeginTx`, `ReadLast`, `InsertRow` or `Rollback`. `Cleanup` is one transaction and clears references to deleted backups as the foreign key does. `verify_chain` is stated without its loop: a row is reported when it does not hash to what it says, or does not name the hash of its predecessor by id. |
| `MySqlExec` | `execute_mysql_statement`, the journal, the DROP preflight, cancellation | `pc[c]` is where the future is, `timer[c]` the deadline around its work, `conn[c]` both ends of the connection: `Send` leaves a request, the `Serve…` actions answer it, `Breaks` loses the connection before or after that. Each target of a statement is asked for, captured and locked one by one. `journal[c]` moves by the code's transition table and every write of it may fail. `OtherWrites` are other sessions, `Crash` is the death of this process. |
| `KnownHosts` | `known_hosts.rs` | operators; an entry is the set of hosts it matches |
| `Transport` | `tunnel_endpoint`, `establish`, `retire`, `verified_pool` | `map` is the cache, `older` the order of `last_used`, `inflight`/`holder` the guards, `sessions` each SSH session with its listener; `pools`, `closed` the pool cache and what was disconnected. One action per lock section; `SessionDies` and `ListenerStops` are separate, and a port is free again after the second. |
| `ObjectGraph` | the walk of the classifier over a statement (`walk_query`, `walk_set_expr`, `walk_exprs`) | recursive operators over cut-down parse trees; `Touched` is the reference, by the scoping rules of SQL |
| `Classifier` | the decisions of `classify_statement` | kind, category and table lists of a statement; what the walk finds comes in as operator constants, so the module stays free of recursion and can be proved about |
| `Resolver` | `merged_with`, `resolve` | operators over connection policies and table rules; `resolve_object` is one table's contribution |
| `Extractor` | `extract_backup_spec` and `with_limit` | operators from a tree to what is captured |
| `SqliteExec` | `execute_sqlite_statement`, the SQLite capture, the insert hint | instantiates `Classifier`, `Resolver` and `Extractor`; `call` is the statement under way with its uncommitted database `work`, `store` the file, `lock` who is inside `BEGIN IMMEDIATE` |
| `Restore` | `call_restore`, `plan_restore`, `execute_restore_plan` | extends `SqliteExec`; `rst` is the restore under way from the prompt (`Ask`) of either era through `Gate` to `CommitReplay` |
| `MC*` | instances for TLC | constants, the statements and policies of the calls, symmetry |
| `*Proofs` | TLAPS proofs | extend the module they are about |

Composition. `Gate` extends `ApprovalEngine`; `Restore` extends `SqliteExec`,
which instantiates `Classifier`, `Resolver` and `Extractor`; `MCRestore` binds the
walk to `ObjectGraph`; `Transport` extends `KnownHosts`. `MySqlExec` refines the choice `ExecuteOk`/`ExecuteFails` of
`Gate`: every result that is not `ok` or `noop` may hide a statement that took
effect, which is why `Gate` lets `ExecuteFails` apply it.

Abstractions. Statement text is the session key, operation or tree it stands
for; a digest is the tuple of what it covers (hashing is taken to be free of
collisions, random nonces and tokens to be fresh). Clocks are nondeterministic:
a deadline may pass at any time, so no property rests on a duration. In
`ConfigStore` every edit sets a field of its own, so a lost update is visible as
a missing element. In `AuditLog` a hash is the record it covers, ages are days
of a clock, whether the file is over its size cap is nondeterministic. In
`MySqlExec` a table's content is the name of who wrote it last, and the server
locks whole tables, which is coarser than InnoDB: a call waits in the model
where it might not wait for another row. In `Transport` the SSH identity of a
connection is a number; authentication, bind and handshake are one step that
succeeds or fails. In `SqliteExec` and `Restore` a row is a key and a value, and
values are told apart only by what a capture and a replay do to them.
`ObjectGraph` and `Classifier` work on trees: which text makes which tree is the parser's
(`sqlparser`), and the text tests the code makes before parsing are features of
the input.

Mutants (`X_Something`, defined right before `X`) are plausible mistakes in the
code a definition models: a dropped guard, a value kept, a swapped order. Each
property has one that breaks it, listed in `PROJECT.json`.

## 3. What the runs show

| Run | Instance | Shows |
|---|---|---|
| `MCApprovalIpc` | 3 asks, 2 companions | the slot belongs to a waiting ask and is taken once, no fabricated choice, stable outcomes; every ask resolves whatever companions do |
| `MCGate` | 2 calls of one session key, 1 edit, 1 restart | authority of every effect, truthful audit rows, revalidation, and that each step is a step of `GateContract` (single effect, grants by key and process, nothing run on a stale answer) |
| `MCConfigStore` | 2 calls of any kind, 2 names | readable file, serialised writes, retention kept, edits lost only under a copy older than a write that had them, success means persisted, no call waits for ever for the lock |
| `MCMrtr` | 3 calls, 2 statements, caps of 1, 1 edit, 1 restart | single use, the approved statement only, no run after expiry, replays told apart, no token lost without a reason |
| `MCAuditLog` | 2 calls, up to 3 rows, 2 categories, 1 edit of a row, 1 change of the chain setting | no fork of the chain, an edited row is reported, nothing is reported without a reason, calls return |
| `MCMySqlExec` | 1 call of 9 kinds of statement, 2 tables, 1 write of others, 1 failed audit write, 1 crash | a backup is the pre-image, the journal does not contradict the server, an applied change leaves a trace, a reused connection is clean, a DROP drops what was found and planned, the work ends |
| `MCTransport` | 3 calls, a tunnelled and a direct connection, caches of 1, 2 sessions, 1 edit | one establishment per identity, no foreign pool, no lease from before an edit of `known_hosts`, pinned keys, guards given back, retired pools evicted |
| `MCRestore` | 1 statement of 26, 4 policies, 1 restore, 1 edit, foreign write or crash | no denied table is touched, the backup holds what was changed, a restore is the inverse and passes the policy |

Bounds. Three asks are an expiring one, the one whose slot it clears and one
that finds the hub busy; two companions are what a double answer needs. Two gate
calls of one session key share a grant: one may be prompted while the other is
granted, decided on the grant, overtaken by its expiry or by a restart; one edit
separates decision and revalidation. That a grant serves no other key is what
`GateExecutedOnAuthority` and `GateKeepsContract` prove for all keys. Two writers are enough for every conflict
of a compare-and-swap (a third would have to conflict with one of them), and two
names for a write that carries another connection along. In `Mrtr` a token is
issued, retried and replayed with three calls, and caps of one make eviction and
a forgotten tombstone happen. In `AuditLog` a statement and a restore of two
statements write the three rows a gap in the middle needs; one category expires
at the first tick and the other never, and a size cap trims half of a table
instead of a fifth (`TrimPart`). In `MySqlExec` one call and the writes of other
sessions are enough because calls meet only in the tables, through locks that
the other sessions respect too; two tables separate what a statement changed
from what it captured, and each may be absent at the start, so one foreign write
changes, drops or creates a table between any two steps. Both bounds are of the
run only: the safety properties are proved for any of them.
In `Transport` caches of one make every publication an eviction, three calls are
a holder, a waiter and a late one, and two sessions a tunnel and its successor.
In `MCRestore` each statement shape of the extractor and each nesting of the
classifier occurs; the policies are an open one, one whose table rules oppose
its baseline, and two that allow writes without DDL and DDL without writes. TLC also evaluates
there, for each statement of the instance, that the walk lists every table the
statement touches (`EverythingListed`), which one of the proofs takes as its
hypothesis.
Counters the code does not bound are capped by constants named in the modules
(`MaxRev`, `MaxRestarts`, `MaxTokens`, `MaxDay`, `MaxToggles`, `MaxWrites`,
`MaxFaults`, `MaxCrashes`, `MaxSessions`, `MaxEdits`, `MaxCalls`, `MaxBackups`,
`MaxEvents`, `MaxRestores`).

Fairness. `ApprovalIpc`: weak fairness of an ask's own steps — the runtime polls
its timer and the mutex is held for a few instructions; companions are not fair.
`ConfigStore`: weak fairness of a request's steps, never of a failure or a
crash; lock waits end because finitely many requests can overtake. `AuditLog`:
weak fairness of a caller's writing steps, not of the timeout of its wait; the
wait ends because the lock is given back. `MySqlExec`: weak fairness of the
executor's steps, which include its timers and not the server's answers. Nothing
is assumed of users, servers or the network. Deadlock checking is off: these
systems stop when every call has returned.

Violations. Each of these runs checks one statement of the documentation that
the code does not keep:

* `MCApprovalIpcIdBound` — the reply's id is compared under one lock and the slot
  taken under the next. If the ask expires in between and another is installed,
  the answer to the first statement approves the second (`ipc.rs:322`).
* `MCConfigStoreEdits` — policy tools copy the connection in one load and take
  the expected revision from a second one, so the compare-and-swap does not
  protect the copy and an edit in between is silently undone (`tools.rs:590`).
  `EditsLostToOldCopiesOnly` in `MCConfigStore` is what does hold.
* `MCTransportSplice` — a call keeps a lease or a pool by the number of a local
  port. When the tunnel's listener is gone and another tunnel binds that port,
  the call's next connection reaches the other connection's server (`ssh.rs:682`).
* `MCRestoreHint` — the range recorded for a multi-row INSERT without explicit
  keys starts at SQLite's last rowid, the end of the range (`backup/mod.rs:377`).
  The restore deletes the last row and reaches past it.

## 4. What is proved

All theorems are of the form `Spec => []Inv` or `Spec => [][A]_vars`, for every
value of the constants allowed by the named assumptions. Every safety property
of the passing runs is stated by one of them. The assumptions are `IpcAssumption` (the
null request is no request), `GateAssumption` (each call has its own digest,
`KeyOf` maps calls to keys, the bounds are naturals), `ConfigAssumption` (no
connection is called `NoName`), `AuditAssumption` (there is a category, each has
a retention, and the shares and bounds are naturals), `MrtrAssumption` (both
caps are positive, the bounds naturals), `ExecAssumption` (a write or a DDL
statement names a table, only these have a backup spec, only a write has one by
rows, and no call is one of the model values for contents), `TransportAssumption`
(there is a connection and a `known_hosts` content, the caches hold at least one,
the bounds are naturals). `SqliteExec` has four: its own `ExecAssumption` (there
is a value, the marker of an absent setting is no setting),
`StatementAssumption` (a text caught by its keywords is never parsed, and what
SQLite accepts changes one table), `ConnectionAssumption` (policies and rules
hold actions and limits) and `WalkAssumption` (the walk of a single table finds
that table, that of nothing finds nothing, and table lists are finite).

* `ApprovalIpcProofs`. The properties speak of choices that were delivered; what
  makes them inductive is where the oneshot sender is. `IInv` says that the
  sender of a waiting ask is in the slot or with the one connection that took
  the slot, that a channel only holds what such a connection wrote, and that an
  elapsed ask has closed its channel. From it: `IpcTypeCorrect`,
  `IpcSlotHasLiveAsker`, `IpcNeverFabricated`, `IpcSlotTakenOnce`,
  `IpcOutcomeStable`.
* `GateProofs`. `PhaseInv` fixes effect, result and choice at each control point,
  `AuthInv` carries the authority from the decision to the execution, `RowsInv`
  ties rows to results, and `GrantsOfThisProcess` traces each grant of the
  engine to a choice in the running process — without it `SessionHit` could not
  be shown to give authority. From it the safety properties of `MCGate` and three
  consequences that need no run (`GateAppliedAtMostOnce`, `GateRefusalsInert`,
  `GateSuccessAudited`). `GateRevalidatedAction` needs in addition that `seen`
  does not change after the load and that equal revisions mean equal configs
  (`SeenInv`).
* `GateProofs`, second part. `Gate` implements `GateContract`: `GateKeepsContract`
  maps the initial states and shows, action by action, that each step of
  `run_sql` is a step of the contract or leaves it unchanged. The mapping needs
  more than `IInv`: what a call's demand, own answer and grant have to do with
  each other at each control point (`ReachInv`, theorem `GateReach`). A stale
  answer of the contract is an expired one-time approval of the engine; an open
  key is one that somebody answered for since the last restart, which session
  grants imply but which outlives their expiry.
* `ConfigStoreProofs`. `HolderInv` (the lock has one holder, exactly the request
  inside `update`) makes `CasInv` inductive (a request about to rename still
  names the file's revision); `CopyInv` says that a retention copy with the
  current revision is the current section. From it `ConfigIsReadable`,
  `ConfigRetentionKept`, `ConfigSuccessPersisted`, `ConfigWritesSerialised`.
  `ConfigEditsLostToOldCopiesOnly` needs `CarriedInv`: while a
  request edits, each edit of its connection that is in the file is in the
  request's copy too, or a write that landed after the copy was taken carried it.
* `AuditLogProofs`. A hash that a writer read belongs to the newest row until it
  inserts (`LastInv`), because the lock has one holder (`HolderInv`) and
  everybody who changes the table needs it; with distinct ids and hashes that
  carry the id of their row (`RowInv`) this makes `ChainInOrder` inductive.
  `AuditLinksResolve` rests on a deletion clearing the references in the same
  step and on ids never being used again; `AuditLockExclusive` states
  `HolderInv`. `HashInv` says that a chained row's hash covers
  the row as it was written, and as it is unless it was edited or lost its
  backup; from it an edited row is reported (`AuditAlterationReported`), and a row
  is reported only when it was edited, lost its backup or stands after a gap
  (`AuditReportedForAReason`). `AuditReportIsPrecise` adds that the report names
  one row, and does so exactly when it is not ok.
* `MrtrProofs`. A token leaves the store when it is taken and never comes back
  (`SpentInv`), so one call at most holds it between `take` and the gate, with
  the statement it was issued for and nothing run under it (`HeldInv`); what ran
  under a token is therefore one run of that statement (`RunsInv`). From it
  `MrtrSingleUse`, `MrtrApprovedStatementOnly`, `MrtrExpiredNeverRuns`.
  `NothingLost` is inductive itself, by a lemma that counts the younger tokens
  of one that is pushed out (`PushedOutByYounger`), and `MrtrTypeCorrect` needs
  that keeping the youngest of one too many leaves as many as the cap
  (`KeptSize`). `MrtrReplayReported` rests on the first tombstone not being
  forgotten before as many tokens were consumed as there are tombstones
  (`TombInv`).
* `MySqlExecProofs`. Calls meet only in the tables, so the invariant is one per
  call, `CallInv(c)`, and a lemma (`Frame`) that a step which leaves a call's own
  state and the rows it has locked alone preserves it. `ReqInv` says which
  request a live connection may still have open at each place of the future,
  `TxInv` that the client's idea of being in a transaction is the server's,
  `ConnInv` that locks and pending changes belong to an open transaction of a
  write. `RowsInv` then carries the pre-image: captured rows stay locked and
  unchanged until the COMMIT replaces them (`ExecBackupIsPreImage`). `EffectInv`
  ties `applied` to the place of the call and gives `ExecJournalTruthful` and
  `ExecAppliedLeavesTrace`, `KilledInv` gives `ExecReusedClean`, `DdlInv` gives
  `ExecDroppedWasApproved`. Requests that a broken connection left with the
  server, which may be served after the call has returned, are why the
  conjuncts distinguish live connections from severed ones.
* `TransportProofs`. A call keeps its key, so whatever others hand it, a guard, a
  session or a pool, agrees with that key from the moment it is taken (`CallInv`,
  `GuardInv`, `PoolInv`); this and the verification of each session against the
  content of its key or a later one (`SessionInv`) give `TransportOwnPool`,
  `TransportLeaseFresh`, `TransportHostKeyPinned` and `TransportGuardsReleased`.
  `TransportCoalesced` is the hard one, because a publication removes the guard
  from `inflight` while others may still wait for it, and a late caller then
  makes a second guard for the key. `LostInv` closes the gap: such a guard was
  dropped for a session of the same key that is cached or draining, and who
  passes the double check under it has found that session unusable.
  `TransportRetiredEvicted` needs only that a replaced entry was kept, hence live.
* `RestoreProofs`. A call works on the database as it was at BEGIN for as long as
  it holds the write lock (`CallInv`, `LockInv`), so what it captures from its
  own work before the statement is what the file held: `RestorePreImageKept`.
  Backups are only appended, so a committed call keeps naming its row
  (`DoneInv`). `RstInv` ties a restore under way to that row, to the policy it was
  asked under and, through `Written`, statement by statement to what the replay
  has put into its uncommitted database so far; at its end this is the
  pre-image again, `RestoreInverse`. The connection a restore is replayed on is the
  one it was asked for because the revision is compared in between:
  `RestoreAuthorisation`. `RestoreNothingDenied` (no table that the policy denies
  is touched) is proved under `EverythingListed`, that the walk lists
  what a statement touches. That hypothesis is about the recursion over the tree
  and fails for one documented case, a table with the name of a CTE of
  the same statement (see the divergences); the rest of the argument, from the
  lists through rules and baseline to the refusal, is what the theorem adds.

## 5. What is only model-checked

* Liveness (`AskResolves`, `WritersReturn`, `RequestsReturn`, `WorkBounded`):
  fairness and `ENABLED` are out of the prover's reach.
* `EverythingListed`, what the walk of `ObjectGraph` lists: a recursion over
  trees, which would need an induction over data. TLC evaluates it for the
  statements of `MCRestore`.

`TypeOK` of `Transport` is proved and not repeated in the run, and the
findings of the violation runs are counterexamples, which TLC gives.

## 6. Not modelled, and why

* Docker bridge (`sql/docker.rs`), Keychain calls, query history and the
  Sequel Ace plist: I/O whose effect on the rest is one value read.
* Redactor, input limits, read-only tools, command line: functions from one value
  to a text or to a bound, without a state of their own.
* The chain of a RENAME in the DDL preflight: its steps all precede the
  statement, so no interleaving separates them from it.
* The replay of a MySQL restore. `execute_restore_plan` sends the same statements
  as on SQLite; what differs (implicit commits) is listed below.
* The lock and the rename of the config file are taken at their word: `flock`
  excludes, `rename` replaces at once, a dead process has no lock.
* The Touch ID window never spans two calls, since each tool call builds an
  authenticator of its own; `Gate` makes Touch ID a step that succeeds or fails.
* Streaming of rows and the caps on them: data.

### Divergences and surprises without a run

Met while modelling; the models do what the code does.

Approvals and configuration
* An ask that expires after its request was taken clears whatever is in the slot,
  the request of its successor too (`approval/ipc.rs:162`); that one ends as
  dropped. A reply that comes too late is acknowledged as accepted (`ipc.rs:327`).
* A one-time approval that has expired when it is consumed leaves no audit row
  (`app/gate.rs:444`).
* A session grant ends after 30 minutes, not with the session
  (`approval/mod.rs:156`).
* A modern client is prompted although a session grant would serve it: the
  exchange starts before the engine is asked (`mcp/tools.rs:1521`).
* The revision of an MRTR token is compared at `take`, the gate then loads the
  config again and does not compare it (`app/gate.rs:190`; the repository's
  `README.md:113` says the revision must match).
* A token that is both expired and of an older revision is reported expired
  (`mcp/mrtr.rs:203`).
* The password of a new connection is stored after the config was written: a
  removal in between leaves it behind (`mcp/tools.rs:1749`). Clearing the default connection answers success whatever
  `update` returned (`tools.rs:484`).
* `update` backs up a V1 file only if the loaded config still says version 1
  (`config/mod.rs:426`), but `load_locked` has migrated it by then (506), so no
  backup is written (`docs/rust-rewrite/VERIFICATION.md:1180` says one is).
* An edit under an old copy can also bring back what was edited before the
  connection was removed and added again, which is why
  `EditsLostToOldCopiesOnly` speaks of copies older than a write that carried the
  edit (`tools.rs:590`).
* Of two equally strict tables the first decides row limits and Touch ID
  (`policy/resolver.rs:132`).

Classification
* A CTE hides a real table of the same name everywhere in the statement.
* Subqueries in a join condition are not walked.
* `LOCK IN SHARE MODE` takes the fallback for unparsed text, which consults no
  table rules.

Execution and backups
* `START TRANSACTION` is outside the timeout its comment names
  (`sql/mysql.rs:331-340`, comment at 310).
* A DDL statement or an autocommit one that breaks off is journalled as failed
  although the server may have applied it.
* Of a DROP or TRUNCATE of several tables only the first is backed up
  (`backup/extractor.rs:528`, `547`; the repository's `README.md:21`).
* A SQLite REPLACE with a key and a WHERE that ends in `)` is refused by
  `with_limit` (`extractor.rs:137`).
* An insert hint names the column `id` whatever the key is
  (`backup/mod.rs:371`, `381`), and its row stays when COMMIT fails.
* SQLite blobs are captured as base64 text (`backup/mod.rs:326-329`) and
  backslashes are doubled (`backup/restore.rs:100`); a value that contains a
  comment marker makes the restore statement unclassifiable.
* A MySQL restore that begins with CREATE TABLE commits implicitly
  (`restore.rs:4`).
* A restore of a legacy client runs under the policy loaded before its prompt
  (`mcp/tools.rs:1994-2013`, `2034-2037`), and no restore asks for Touch ID.
* The audit rows of a replay are refused when retention pruned the backup in the
  meantime (`tools.rs:2206` against `2183`).
* After a pruning in the middle of the table the first row past the gap is
  reported as broken (`audit/mod.rs:317`; `VERIFICATION.md:1191` lists it as a
  known follow-up).

Transport
* Pools of a superseded revision are not evicted, only pushed out
  (`sql/pool.rs:7-8`).
* `?` in a `known_hosts` pattern is translated to `.`, which the matcher takes
  literally, so it does not match any one character
  (`sql/known_hosts.rs:126-151`).

## 7. What is left

1. The legacy confirmation composed with `ApprovalIpc`: elicitation first, the
   hub's `ask` when the client cannot show it.
2. The RENAME chain of the preflight and the MySQL replay of a restore.
3. The line reader of `mcp/limits.rs` over arbitrary read boundaries.
