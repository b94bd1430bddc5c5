--------------------------- MODULE ConfigStoreProofs ---------------------------
(***************************************************************************)
(* Proofs about ConfigStore for any requests and connection names.         *)
(*                                                                         *)
(* The compare-and-swap is sound because of the lock: the revision that    *)
(* update compared is still the one of the file when it renames (CasInv),  *)
(* as only the holder of the lock renames (HolderInv).  A retention change *)
(* is safe because equal revisions mean that the section the tool copied   *)
(* is the section in the file (CopyInv).  An edit has no such luck: its    *)
(* copy is older than its revision, and what it may lack is what was       *)
(* carried into the file since (CarriedInv).                               *)
(***************************************************************************)
EXTENDS ConfigStore, TLAPS

Held     == {"locked", "writing", "written", "renamed"}
Updating == {"locking", "locked", "writing", "written"}

HolderInv ==
  /\ \A r \in Requests : r \in lock <=> pc[r] \in Held
  /\ \A r, q \in lock : r = q

CasInv ==
  \A r \in Requests :
    /\ expected[r] <= file.rev
    /\ pc[r] \in {"writing", "written"} => expected[r] = file.rev

CopyInv ==
  \A r \in Requests : kind[r] = "retention" =>
    /\ pc[r] \notin {"resolved", "reload"}
    /\ pc[r] \in Updating /\ expected[r] = file.rev => copy[r] = file.retention

AnswerInv ==
  \A r \in Requests :
    /\ pc[r] # "done" => result[r] = "none"
    /\ pc[r] \in {"renamed", "storing"} => landed[r] > 0
    /\ result[r] \in {"ok", "no_secret"} /\ kind[r] # "clear" => landed[r] > 0

IInv ==
  /\ TypeOK /\ ConfigReadable /\ HolderInv /\ CasInv /\ CopyInv
  /\ RetentionKept /\ AnswerInv

-----------------------------------------------------------------------------
LEMMA InitInv == Init => IInv
<1> SUFFICES ASSUME Init PROVE IInv
  OBVIOUS
<1>1. file \in Configs /\ file.rev \in Nat
  <2> DEFINE Contents == UNION {[S -> SUBSET Requests] : S \in SUBSET Names}
  <2>1. Empty \in Contents
    <3>1. Empty \in [{} -> SUBSET Requests] /\ {} \in SUBSET Names
      BY DEF Empty
    <3>2. QED
      BY <3>1
  <2>2. ASSUME NEW S \in SUBSET Names PROVE [n \in S |-> {}] \in Contents
    <3>1. [n \in S |-> {}] \in [S -> SUBSET Requests]
      OBVIOUS
    <3>2. QED
      BY <3>1
  <2> HIDE DEF Contents
  <2>3. file \in [version : {1, 2}, rev : Nat, conns : Contents,
                 default : Names \cup {NoName}, retention : SUBSET Requests]
    BY <2>1, <2>2 DEF Init
  <2>4. QED
    BY <2>3 DEF Configs, Contents
<1>2. file # Torn
  BY <1>1 DEF Torn, Configs
<1>3. TypeOK
  BY <1>1 DEF Init, TypeOK, PcStates, Kinds, Results
<1>4. HolderInv /\ CasInv /\ CopyInv /\ RetentionKept /\ AnswerInv
  BY <1>1 DEF Init, HolderInv, CasInv, CopyInv, RetentionKept, AnswerInv, Held, Updating
<1>5. QED
  BY <1>2, <1>3, <1>4 DEF IInv, ConfigReadable

(* What a request writes is a config one revision on, with the retention   *)
(* settings untouched unless they are what the request is about.           *)
LEMMA MutatedConfig ==
  ASSUME NEW c \in Configs, NEW r \in Requests, TypeOK
  PROVE  /\ Mutated(r, Load(c)) \in Configs
         /\ Bumped(Mutated(r, Load(c))) \in Configs
         /\ Bumped(Mutated(r, Load(c))).rev = c.rev + 1
         /\ Bumped(Mutated(r, Load(c))).retention =
              IF kind[r] = "retention" THEN copy[r] \cup {r} ELSE c.retention
<1> DEFINE d == Load(c)
<1>1. /\ d \in Configs /\ d.rev = c.rev /\ d.retention = c.retention
  BY DEF Load, Configs
<1>2. /\ kind[r] \in Kinds /\ name[r] \in Names /\ copy[r] \in SUBSET Requests
  BY DEF TypeOK
<1> HIDE DEF d
<1>3. /\ d.conns \in [Known(d) -> SUBSET Requests] /\ Known(d) \in SUBSET Names
      /\ d.default \in Names \cup {NoName}
  BY <1>1 DEF Configs, Known
<1>4. ASSUME NEW x \in SUBSET Requests
      PROVE  /\ Upsert(d, name[r], x) \in Configs
             /\ Upsert(d, name[r], x).rev = d.rev
             /\ Upsert(d, name[r], x).retention = d.retention
  <2> DEFINE f == [m \in Known(d) \cup {name[r]} |-> IF m = name[r] THEN x ELSE d.conns[m]]
  <2>1. f \in [Known(d) \cup {name[r]} -> SUBSET Requests]
    BY <1>3
  <2>2. f \in UNION {[S -> SUBSET Requests] : S \in SUBSET Names}
    <3>1. Known(d) \cup {name[r]} \in SUBSET Names
      BY <1>2, <1>3
    <3> HIDE DEF f
    <3>2. QED
      BY <2>1, <3>1
  <2> HIDE DEF f
  <2>3. QED
    BY <1>1, <2>2 DEF Upsert, Configs, f
<1>5. /\ Without(d, name[r]) \in Configs
      /\ Without(d, name[r]).rev = d.rev
      /\ Without(d, name[r]).retention = d.retention
  <2> DEFINE g == [m \in Known(d) \ {name[r]} |-> d.conns[m]]
  <2>1. g \in [Known(d) \ {name[r]} -> SUBSET Requests]
    BY <1>3
  <2>2. g \in UNION {[S -> SUBSET Requests] : S \in SUBSET Names}
    BY <1>3, <2>1
  <2> HIDE DEF g
  <2>3. QED
    BY <1>1, <1>3, <2>2 DEF Without, Configs, g
<1>6. /\ Mutated(r, d) \in Configs /\ Mutated(r, d).rev = d.rev
      /\ Mutated(r, d).retention =
           IF kind[r] = "retention" THEN copy[r] \cup {r} ELSE d.retention
  <2>1. CASE kind[r] \in {"edit", "add", "addMysql", "import"}
    BY <1>2, <1>4, <2>1 DEF Mutated
  <2>2. CASE kind[r] = "remove"
    BY <1>5, <2>2 DEF Mutated
  <2>3. CASE kind[r] \in {"default", "clear", "retention"}
    BY <1>1, <1>2, <2>3 DEF Mutated, Configs
  <2>4. QED
    BY <1>2, <2>1, <2>2, <2>3 DEF Kinds
<1>7. QED
  BY <1>1, <1>6 DEF Bumped, Configs, d

LEMMA ResolveInv == ASSUME IInv, NEW r \in Requests, Resolve(r) PROVE IInv'
<1> USE DEF IInv
<1>1. TypeOK' /\ ConfigReadable'
  BY DEF TypeOK, ConfigReadable, PcStates, Results, Resolve, Goes, Configs, Known
<1>2. HolderInv' /\ CasInv'
  BY <1>1 DEF TypeOK, ConfigReadable, Configs, HolderInv, CasInv, Held, Resolve, Goes
<1>3. CopyInv' /\ RetentionKept'
  BY <1>1 DEF TypeOK, ConfigReadable, Configs, CopyInv, RetentionKept, Kinds, OneLoad, Updating, Resolve, Goes
<1>4. AnswerInv'
  BY <1>1 DEF TypeOK, AnswerInv, Resolve, Goes
<1>5. QED
  BY <1>1, <1>2, <1>3, <1>4

LEMMA LoadOnceInv == ASSUME IInv, NEW r \in Requests, LoadOnce(r) PROVE IInv'
<1> USE DEF IInv
<1>1. TypeOK' /\ ConfigReadable'
  BY DEF TypeOK, ConfigReadable, PcStates, Results, LoadOnce, Goes, Configs, Known
<1>2. HolderInv' /\ CasInv'
  BY <1>1 DEF TypeOK, ConfigReadable, Configs, HolderInv, CasInv, Held, LoadOnce, Goes
<1>3. CopyInv' /\ RetentionKept'
  BY <1>1 DEF TypeOK, ConfigReadable, Configs, CopyInv, RetentionKept, Kinds, OneLoad, Updating, LoadOnce, Goes
<1>4. AnswerInv'
  BY <1>1 DEF TypeOK, AnswerInv, LoadOnce, Goes
<1>5. QED
  BY <1>1, <1>2, <1>3, <1>4

LEMMA NotFoundInv == ASSUME IInv, NEW r \in Requests, NotFound(r) PROVE IInv'
<1> USE DEF IInv
<1>1. TypeOK' /\ ConfigReadable'
  BY DEF TypeOK, ConfigReadable, PcStates, Results, NotFound, Answers, Goes, Configs, Known
<1>2. HolderInv' /\ CasInv'
  BY <1>1 DEF TypeOK, ConfigReadable, Configs, HolderInv, CasInv, Held, NotFound, Answers, Goes
<1>3. CopyInv' /\ RetentionKept'
  BY <1>1 DEF TypeOK, ConfigReadable, Configs, CopyInv, RetentionKept, Kinds, OneLoad, Updating, NotFound, Answers, Goes
<1>4. AnswerInv'
  BY <1>1 DEF TypeOK, AnswerInv, NotFound, Answers, Goes
<1>5. QED
  BY <1>1, <1>2, <1>3, <1>4

LEMMA LoadFailsInv == ASSUME IInv, NEW r \in Requests, LoadFails(r) PROVE IInv'
<1> USE DEF IInv
<1>1. TypeOK' /\ ConfigReadable'
  BY DEF TypeOK, ConfigReadable, PcStates, Results, LoadFails, Answers, Goes, Configs, Known
<1>2. HolderInv' /\ CasInv'
  BY <1>1 DEF TypeOK, ConfigReadable, Configs, HolderInv, CasInv, Held, LoadFails, Answers, Goes
<1>3. CopyInv' /\ RetentionKept'
  BY <1>1 DEF TypeOK, ConfigReadable, Configs, CopyInv, RetentionKept, Kinds, OneLoad, Updating, LoadFails, Answers, Goes
<1>4. AnswerInv'
  BY <1>1 DEF TypeOK, AnswerInv, LoadFails, Answers, Goes
<1>5. QED
  BY <1>1, <1>2, <1>3, <1>4

LEMMA DeleteSecretInv == ASSUME IInv, NEW r \in Requests, DeleteSecret(r) PROVE IInv'
<1> USE DEF IInv
<1>1. TypeOK' /\ ConfigReadable'
  BY DEF TypeOK, ConfigReadable, PcStates, Results, DeleteSecret, Goes, Configs, Known
<1>2. HolderInv' /\ CasInv'
  BY <1>1 DEF TypeOK, ConfigReadable, Configs, HolderInv, CasInv, Held, DeleteSecret, Goes
<1>3. CopyInv' /\ RetentionKept'
  BY <1>1 DEF TypeOK, ConfigReadable, Configs, CopyInv, RetentionKept, Kinds, OneLoad, Updating, DeleteSecret, Goes
<1>4. AnswerInv'
  BY <1>1 DEF TypeOK, AnswerInv, DeleteSecret, Goes
<1>5. QED
  BY <1>1, <1>2, <1>3, <1>4

LEMMA ReloadInv == ASSUME IInv, NEW r \in Requests, Reload(r) PROVE IInv'
<1> USE DEF IInv
<1>1. TypeOK' /\ ConfigReadable'
  BY DEF TypeOK, ConfigReadable, PcStates, Results, Reload, Goes, Configs, Known
<1>2. HolderInv' /\ CasInv'
  BY <1>1 DEF TypeOK, ConfigReadable, Configs, HolderInv, CasInv, Held, Reload, Goes
<1>3. CopyInv' /\ RetentionKept'
  BY <1>1 DEF TypeOK, ConfigReadable, Configs, CopyInv, RetentionKept, Kinds, OneLoad, Updating, Reload, Goes
<1>4. AnswerInv'
  BY <1>1 DEF TypeOK, AnswerInv, Reload, Goes
<1>5. QED
  BY <1>1, <1>2, <1>3, <1>4

LEMMA LockInv == ASSUME IInv, NEW r \in Requests, Lock(r) PROVE IInv'
<1> USE DEF IInv
<1>1. TypeOK' /\ ConfigReadable'
  BY DEF TypeOK, ConfigReadable, PcStates, Results, Lock, Acquire, Goes, Configs, Known
<1>2. HolderInv' /\ CasInv'
  BY <1>1 DEF TypeOK, ConfigReadable, Configs, HolderInv, CasInv, Held, Lock, Acquire, Goes
<1>3. CopyInv' /\ RetentionKept'
  BY <1>1 DEF TypeOK, ConfigReadable, Configs, CopyInv, RetentionKept, Kinds, OneLoad, Updating, Lock, Acquire, Goes
<1>4. AnswerInv'
  BY <1>1 DEF TypeOK, AnswerInv, Lock, Acquire, Goes
<1>5. QED
  BY <1>1, <1>2, <1>3, <1>4

LEMMA ConflictInv == ASSUME IInv, NEW r \in Requests, Conflict(r) PROVE IInv'
<1> USE DEF IInv
<1>1. TypeOK' /\ ConfigReadable'
  BY DEF TypeOK, ConfigReadable, PcStates, Results, Conflict, Answers, Goes, Release, Failure, Configs, Known
<1>2. HolderInv' /\ CasInv'
  BY <1>1 DEF TypeOK, ConfigReadable, Configs, HolderInv, CasInv, Held, Conflict, Answers, Goes, Release, Failure
<1>3. CopyInv' /\ RetentionKept'
  BY <1>1 DEF TypeOK, ConfigReadable, Configs, CopyInv, RetentionKept, Kinds, OneLoad, Updating, Conflict, Answers, Goes, Release, Failure
<1>4. AnswerInv'
  BY <1>1 DEF TypeOK, AnswerInv, Conflict, Answers, Goes, Release, Failure
<1>5. QED
  BY <1>1, <1>2, <1>3, <1>4

LEMMA RefuseInv == ASSUME IInv, NEW r \in Requests, Refuse(r) PROVE IInv'
<1> USE DEF IInv
<1>1. TypeOK' /\ ConfigReadable'
  BY DEF TypeOK, ConfigReadable, PcStates, Results, Refuse, MaybeImport, Unchanged, Answers, Goes, Release, Failure, Configs, Known
<1>2. HolderInv' /\ CasInv'
  BY <1>1 DEF TypeOK, ConfigReadable, Configs, HolderInv, CasInv, Held, Refuse, MaybeImport, Unchanged, Answers, Goes, Release, Failure
<1>3. CopyInv' /\ RetentionKept'
  BY <1>1 DEF TypeOK, ConfigReadable, Configs, CopyInv, RetentionKept, Kinds, OneLoad, Updating, Refuse, MaybeImport, Unchanged, Answers, Goes, Release, Failure
<1>4. AnswerInv'
  BY <1>1 DEF TypeOK, AnswerInv, Refuse, MaybeImport, Unchanged, Answers, Goes, Release, Failure
<1>5. QED
  BY <1>1, <1>2, <1>3, <1>4

LEMMA MutateInv == ASSUME IInv, NEW r \in Requests, Mutate(r) PROVE IInv'
<1> USE DEF IInv
<1>1. TypeOK' /\ ConfigReadable'
  BY DEF TypeOK, ConfigReadable, PcStates, Results, Mutate, MaybeImport, Unchanged, Goes, Configs, Known
<1>2. HolderInv' /\ CasInv'
  BY <1>1 DEF TypeOK, ConfigReadable, Configs, HolderInv, CasInv, Held, Mutate, MaybeImport, Unchanged, Goes
<1>3. CopyInv' /\ RetentionKept'
  BY <1>1 DEF TypeOK, ConfigReadable, Configs, CopyInv, RetentionKept, Kinds, OneLoad, Updating, Mutate, MaybeImport, Unchanged, Goes
<1>4. AnswerInv'
  BY <1>1 DEF TypeOK, AnswerInv, Mutate, MaybeImport, Unchanged, Goes
<1>5. QED
  BY <1>1, <1>2, <1>3, <1>4

LEMMA WriteTmpInv == ASSUME IInv, NEW r \in Requests, WriteTmp(r) PROVE IInv'
<1> USE DEF IInv
<1>1. TypeOK' /\ ConfigReadable'
  BY DEF TypeOK, ConfigReadable, PcStates, Results, WriteTmp, Goes, Configs, Known
<1>2. HolderInv' /\ CasInv'
  BY <1>1 DEF TypeOK, ConfigReadable, Configs, HolderInv, CasInv, Held, WriteTmp, Goes
<1>3. CopyInv' /\ RetentionKept'
  BY <1>1 DEF TypeOK, ConfigReadable, Configs, CopyInv, RetentionKept, Kinds, OneLoad, Updating, WriteTmp, Goes
<1>4. AnswerInv'
  BY <1>1 DEF TypeOK, AnswerInv, WriteTmp, Goes
<1>5. QED
  BY <1>1, <1>2, <1>3, <1>4

LEMMA UpdateFailsInv == ASSUME IInv, NEW r \in Requests, UpdateFails(r) PROVE IInv'
<1> USE DEF IInv
<1>1. TypeOK' /\ ConfigReadable'
  BY DEF TypeOK, ConfigReadable, PcStates, Results, UpdateFails, Answers, Goes, Release, Failure, Configs, Known
<1>2. HolderInv' /\ CasInv'
  BY <1>1 DEF TypeOK, ConfigReadable, Configs, HolderInv, CasInv, Held, UpdateFails, Answers, Goes, Release, Failure
<1>3. CopyInv' /\ RetentionKept'
  BY <1>1 DEF TypeOK, ConfigReadable, Configs, CopyInv, RetentionKept, Kinds, OneLoad, Updating, UpdateFails, Answers, Goes, Release, Failure
<1>4. AnswerInv'
  BY <1>1 DEF TypeOK, AnswerInv, UpdateFails, Answers, Goes, Release, Failure
<1>5. QED
  BY <1>1, <1>2, <1>3, <1>4

LEMMA UpdatedInv == ASSUME IInv, NEW r \in Requests, Updated(r) PROVE IInv'
<1> USE DEF IInv
<1>1. TypeOK' /\ ConfigReadable'
  BY DEF TypeOK, ConfigReadable, PcStates, Results, Updated, Release, Goes, Answers, Configs, Known
<1>2. HolderInv' /\ CasInv'
  BY <1>1 DEF TypeOK, ConfigReadable, Configs, HolderInv, CasInv, Held, Updated, Release, Goes, Answers
<1>3. CopyInv' /\ RetentionKept'
  BY <1>1 DEF TypeOK, ConfigReadable, Configs, CopyInv, RetentionKept, Kinds, OneLoad, Updating, Updated, Release, Goes, Answers
<1>4. AnswerInv'
  BY <1>1 DEF TypeOK, AnswerInv, Updated, Release, Goes, Answers
<1>5. QED
  BY <1>1, <1>2, <1>3, <1>4

LEMMA StoreSecretInv == ASSUME IInv, NEW r \in Requests, StoreSecret(r) PROVE IInv'
<1> USE DEF IInv
<1>1. TypeOK' /\ ConfigReadable'
  BY DEF TypeOK, ConfigReadable, PcStates, Results, StoreSecret, Answers, Goes, Configs, Known
<1>2. HolderInv' /\ CasInv'
  BY <1>1 DEF TypeOK, ConfigReadable, Configs, HolderInv, CasInv, Held, StoreSecret, Answers, Goes
<1>3. CopyInv' /\ RetentionKept'
  BY <1>1 DEF TypeOK, ConfigReadable, Configs, CopyInv, RetentionKept, Kinds, OneLoad, Updating, StoreSecret, Answers, Goes
<1>4. AnswerInv'
  BY <1>1 DEF TypeOK, AnswerInv, StoreSecret, Answers, Goes
<1>5. QED
  BY <1>1, <1>2, <1>3, <1>4

LEMMA CrashInv == ASSUME IInv, NEW r \in Requests, Crash(r) PROVE IInv'
<1> USE DEF IInv
<1>1. TypeOK' /\ ConfigReadable'
  BY DEF TypeOK, ConfigReadable, PcStates, Results, Crash, Release, Configs, Known
<1>2. HolderInv' /\ CasInv'
  BY <1>1 DEF TypeOK, ConfigReadable, Configs, HolderInv, CasInv, Held, Crash, Release
<1>3. CopyInv' /\ RetentionKept'
  BY <1>1 DEF TypeOK, ConfigReadable, Configs, CopyInv, RetentionKept, Kinds, OneLoad, Updating, Crash, Release
<1>4. AnswerInv'
  BY <1>1 DEF TypeOK, AnswerInv, Crash, Release
<1>5. QED
  BY <1>1, <1>2, <1>3, <1>4

LEMMA RenameInv == ASSUME IInv, NEW r \in Requests, Rename(r) PROVE IInv'
<1> USE DEF IInv
<1>1. file \in Configs /\ file.rev \in Nat /\ expected[r] = file.rev
  BY DEF TypeOK, ConfigReadable, Configs, CasInv, Rename, Goes
<1>2. /\ file' \in Configs /\ file'.rev = file.rev + 1
      /\ file'.retention = IF kind[r] = "retention" THEN copy[r] \cup {r} ELSE file.retention
  BY <1>1, MutatedConfig DEF Rename
<1>3. file' # Torn
  BY <1>2 DEF Torn, Configs
<1>4. TypeOK' /\ ConfigReadable'
  BY <1>1, <1>2, <1>3 DEF TypeOK, ConfigReadable, PcStates, Rename, Goes
<1>5. HolderInv' /\ CasInv'
  <2>1. \A q \in Requests : q # r => pc[q] \notin Held
    BY DEF HolderInv, Held, Rename, Goes, TypeOK
  <2>2. QED
    BY <1>1, <1>2, <2>1 DEF TypeOK, HolderInv, CasInv, Held, Rename, Goes
<1>6. CopyInv'
  BY <1>1, <1>2 DEF TypeOK, CopyInv, CasInv, Updating, Rename, Goes
<1>7. RetentionKept'
  <2>1. kind[r] = "retention" => file'.retention = file.retention \cup {r}
    BY <1>1, <1>2 DEF CopyInv, Updating, Rename, Goes
  <2>2. QED
    BY <1>2, <2>1 DEF TypeOK, RetentionKept, Rename
<1>8. AnswerInv'
  BY <1>1 DEF TypeOK, AnswerInv, Rename, Goes
<1>9. QED
  BY <1>4, <1>5, <1>6, <1>7, <1>8

LEMMA StutterInv == ASSUME IInv, UNCHANGED vars PROVE IInv'
BY DEF IInv, TypeOK, ConfigReadable, HolderInv, CasInv, CopyInv, RetentionKept, AnswerInv, vars, reqVars

LEMMA StepInv == IInv /\ [Next]_vars => IInv'
<1> SUFFICES ASSUME IInv, [Next]_vars PROVE IInv'
  OBVIOUS
<1>1. ASSUME NEW r \in Requests, Begin(r) \/ Step(r) \/ UpdateFails(r) \/ Crash(r) PROVE IInv'
  BY <1>1, ResolveInv, LoadOnceInv, NotFoundInv, LoadFailsInv, DeleteSecretInv, ReloadInv, LockInv, ConflictInv, RefuseInv, MutateInv, WriteTmpInv, UpdateFailsInv, UpdatedInv, StoreSecretInv, CrashInv, RenameInv
     DEF Begin, Step
<1>2. CASE UNCHANGED vars
  BY <1>2, StutterInv
<1>3. QED
  BY <1>1, <1>2 DEF Next

-----------------------------------------------------------------------------
(* The inductive invariant of the config store. *)
THEOREM ConfigInvariant == Spec => []IInv
<1>1. QED
  BY InitInv, StepInv, PTL DEF Spec

(* Every variable of the config store keeps its type. *)
THEOREM ConfigTypeCorrect == Spec => []TypeOK
<1>1. IInv => TypeOK
  BY DEF IInv
<1>2. QED
  BY <1>1, ConfigInvariant, PTL

(* No reader ever meets a half-written config file. *)
THEOREM ConfigIsReadable == Spec => []ConfigReadable
<1>1. IInv => ConfigReadable
  BY DEF IInv
<1>2. QED
  BY <1>1, ConfigInvariant, PTL

(* A persisted set_retention is never undone by a concurrent request. *)
THEOREM ConfigRetentionKept == Spec => []RetentionKept
<1>1. IInv => RetentionKept
  BY DEF IInv
<1>2. QED
  BY <1>1, ConfigInvariant, PTL

(* Success is only answered for a change that reached the file. *)
THEOREM ConfigSuccessPersisted == Spec => []SuccessPersisted
<1>1. IInv => SuccessPersisted
  BY DEF IInv, AnswerInv, SuccessPersisted
<1>2. QED
  BY <1>1, ConfigInvariant, PTL

(* The compare-and-swap of update: the file is only ever replaced by a     *)
(* request that named its revision, by a config of the next revision.      *)
THEOREM ConfigWritesSerialised == Spec => WritesSerialised
<1> DEFINE Swap == file' # file =>
             \E r \in Requests : /\ pc[r] = "written" /\ pc'[r] = "renamed"
                                 /\ file.rev = expected[r] /\ file'.rev = file.rev + 1
<1>1. IInv /\ [Next]_vars => [Swap]_vars
  <2> SUFFICES ASSUME IInv, Next, file' # file PROVE Swap
    OBVIOUS
  <2>1. PICK r \in Requests : Rename(r)
    BY DEF Next, Begin, Step, Resolve, LoadOnce, NotFound, LoadFails, DeleteSecret, Reload, Lock, Conflict, Refuse, Mutate, WriteTmp, UpdateFails, Updated, StoreSecret, Crash
  <2>2. file \in Configs /\ file.rev = expected[r] /\ pc[r] = "written" /\ pc'[r] = "renamed"
    BY <2>1 DEF IInv, TypeOK, ConfigReadable, CasInv, Rename, Goes
  <2>3. file'.rev = file.rev + 1
    BY <2>1, <2>2, MutatedConfig DEF IInv, Rename
  <2>4. QED
    BY <2>2, <2>3
<1>2. QED
  BY <1>1, ConfigInvariant, PTL DEF Spec, WritesSerialised

-----------------------------------------------------------------------------
(* Where an edit of the file can be missing from the copy of another edit  *)
(* of its connection: only where a write carried it in after the copy.     *)
Editing == {"resolved", "reload"} \cup Updating

ReadInv ==
  \A r \in Requests :
    /\ readRev[r] <= file.rev
    /\ pc[r] \in {"idle"} \cup Editing => landed[r] = 0

CarriedInv ==
  \A r, e \in Requests :
    (/\ kind[r] = "edit" /\ pc[r] \in Editing
     /\ kind[e] = "edit" /\ name[e] = name[r]
     /\ name[e] \in Known(file) /\ e \in file.conns[name[e]])
    => e \in copy[r] \/ \E q \in Requests : Carries(q, e) /\ readRev[r] < landed[q]

EInv == ReadInv /\ CarriedInv

LEMMA InitEInv == Init => EInv
BY DEF Init, EInv, ReadInv, CarriedInv, Editing, Updating, Empty

(* What the write of r does to an edit e: it is in the file afterwards     *)
(* only if it was there before or r carries it, and r drops only edits of  *)
(* its own connection that it does not carry.                              *)
LEMMA MutatedEdits ==
  ASSUME NEW c \in Configs, NEW r \in Requests, NEW e \in Requests, TypeOK, kind[e] = "edit"
  PROVE  LET w == Bumped(Mutated(r, Load(c)))
             before == name[e] \in Known(c) /\ e \in c.conns[name[e]]
             after  == name[e] \in Known(w) /\ e \in w.conns[name[e]]
         IN  /\ after => before \/ Carries(r, e)
             /\ before /\ ~after => name[r] = name[e] /\ ~Carries(r, e)
<1> DEFINE d == Load(c)
<1>1. d.conns = c.conns /\ DOMAIN d = DOMAIN c
  BY DEF Load, Configs
<1>2. d \in Configs
  BY DEF Load, Configs
<1>3. kind[r] \in Kinds /\ name[r] \in Names /\ name[e] \in Names
  BY DEF TypeOK
<1> HIDE DEF d
<1>4. \A x : /\ Upsert(d, name[r], x).conns =
                   [m \in Known(d) \cup {name[r]} |-> IF m = name[r] THEN x ELSE d.conns[m]]
             /\ Without(d, name[r]).conns = [m \in Known(d) \ {name[r]} |-> d.conns[m]]
  BY <1>2 DEF Upsert, Without, Configs
<1>5. Bumped(Mutated(r, d)).conns = Mutated(r, d).conns
  <2>1. Mutated(r, d) \in Configs
    BY MutatedConfig DEF d
  <2>2. QED
    BY <2>1 DEF Bumped, Configs
<1>6. Known(d) = Known(c)
  BY <1>1 DEF Known
<1> DEFINE n == name[e]
           w == Mutated(r, d)
           before == n \in Known(c) /\ e \in c.conns[n]
           after  == n \in Known(w) /\ e \in w.conns[n]
<1>7. /\ after => before \/ Carries(r, e)
      /\ before /\ ~after => name[r] = name[e] /\ ~Carries(r, e)
  <2>1. CASE kind[r] = "edit"
    <3>1. w.conns = [m \in Known(c) \cup {name[r]} |->
                       IF m = name[r] THEN copy[r] \cup {r} ELSE c.conns[m]]
      BY <1>1, <1>4, <1>6, <2>1 DEF Mutated
    <3>2. QED
      BY <2>1, <3>1 DEF Known, Carries
  <2>2. CASE kind[r] \in {"add", "addMysql", "import"}
    <3>1. w.conns = [m \in Known(c) \cup {name[r]} |-> IF m = name[r] THEN {r} ELSE c.conns[m]]
      BY <1>1, <1>4, <1>6, <2>2 DEF Mutated
    <3>2. e # r /\ ~Carries(r, e)
      BY <2>2 DEF Carries
    <3>3. QED
      BY <3>1, <3>2 DEF Known
  <2>3. CASE kind[r] = "remove"
    <3>1. w.conns = [m \in Known(c) \ {name[r]} |-> c.conns[m]]
      BY <1>1, <1>4, <1>6, <2>3 DEF Mutated
    <3>2. QED
      BY <2>3, <3>1 DEF Known, Carries
  <2>4. CASE kind[r] \in {"default", "clear", "retention"}
    <3>1. w.conns = c.conns
      BY <1>1, <1>2, <2>4 DEF Mutated, Configs
    <3>2. QED
      BY <3>1 DEF Known
  <2>5. QED
    BY <1>3, <2>1, <2>2, <2>3, <2>4 DEF Kinds
<1>8. QED
  BY <1>5, <1>7 DEF d, Known

(* A step that does not rename leaves the file alone, and copies only for  *)
(* a request that has not begun.                                           *)
LEMMA QuietStep ==
  ASSUME IInv, Next, ~\E r \in Requests : Rename(r)
  PROVE  /\ UNCHANGED <<file, landed, kind, name>>
         /\ \A q \in Requests :
              \/ /\ copy'[q] = copy[q] /\ readRev'[q] = readRev[q]
                 /\ pc'[q] \in Editing => pc[q] \in Editing
                 /\ pc'[q] = "idle" => pc[q] = "idle"
              \/ /\ pc[q] = "idle" /\ readRev'[q] = file.rev
                 /\ kind[q] = "edit" => name[q] \in Known(file) /\ copy'[q] = file.conns[name[q]]
<1> SUFFICES ASSUME NEW r \in Requests, Begin(r) \/ Step(r) \/ UpdateFails(r) \/ Crash(r), ~Rename(r)
             PROVE  /\ UNCHANGED <<file, landed, kind, name>>
                    /\ \A q \in Requests :
                         \/ /\ copy'[q] = copy[q] /\ readRev'[q] = readRev[q]
                            /\ pc'[q] \in Editing => pc[q] \in Editing
                            /\ pc'[q] = "idle" => pc[q] = "idle"
                         \/ /\ pc[q] = "idle" /\ readRev'[q] = file.rev
                            /\ kind[q] = "edit" => name[q] \in Known(file) /\ copy'[q] = file.conns[name[q]]
  BY DEF Next
<1> USE DEF IInv, TypeOK
<1>1. CASE Resolve(r) \/ LoadOnce(r)
  BY <1>1 DEF Resolve, LoadOnce, Goes, OneLoad, Kinds
<1>2. CASE NotFound(r) \/ LoadFails(r) \/ Conflict(r) \/ Refuse(r) \/ UpdateFails(r) \/ Crash(r)
  BY <1>2 DEF NotFound, LoadFails, Conflict, Refuse, UpdateFails, Crash, Answers, Goes, Editing, Updating
<1>3. CASE DeleteSecret(r) \/ Reload(r) \/ Lock(r) \/ Mutate(r) \/ WriteTmp(r) \/ Updated(r) \/ StoreSecret(r)
  BY <1>3 DEF DeleteSecret, Reload, Lock, Mutate, WriteTmp, Updated, StoreSecret, Answers, Goes, Editing, Updating
<1>4. QED
  BY <1>1, <1>2, <1>3 DEF Begin, Step

LEMMA QuietStepE ==
  ASSUME IInv, EInv, Next, ~\E r \in Requests : Rename(r)
  PROVE  EInv'
<1>1. /\ UNCHANGED <<file, landed, kind, name>>
      /\ \A q \in Requests :
           \/ /\ copy'[q] = copy[q] /\ readRev'[q] = readRev[q]
              /\ pc'[q] \in Editing => pc[q] \in Editing
              /\ pc'[q] = "idle" => pc[q] = "idle"
           \/ /\ pc[q] = "idle" /\ readRev'[q] = file.rev
              /\ kind[q] = "edit" => name[q] \in Known(file) /\ copy'[q] = file.conns[name[q]]
  BY QuietStep
<1>2. file.rev \in Nat /\ landed \in [Requests -> Nat] /\ readRev \in [Requests -> Nat]
  BY DEF IInv, TypeOK, ConfigReadable, Configs
<1>3. ReadInv'
  BY <1>1, <1>2 DEF EInv, ReadInv
<1>4. ASSUME NEW r \in Requests, NEW e \in Requests,
             kind[r] = "edit", pc'[r] \in Editing, kind[e] = "edit", name[e] = name[r],
             name[e] \in Known(file), e \in file.conns[name[e]], e \notin copy'[r]
      PROVE  \E q \in Requests : Carries(q, e)' /\ readRev'[r] < landed[q]
  <2>1. copy'[r] = copy[r] /\ readRev'[r] = readRev[r] /\ pc[r] \in Editing
    BY <1>1, <1>4
  <2>2. PICK q \in Requests : Carries(q, e) /\ readRev[r] < landed[q]
    BY <1>4, <2>1 DEF EInv, CarriedInv
  <2>3. landed[q] # 0
    BY <1>2, <2>2
  <2>4. copy'[q] = copy[q]
    BY <1>1, <2>3 DEF EInv, ReadInv
  <2>5. QED
    BY <1>1, <2>1, <2>2, <2>4 DEF Carries
<1>5. CarriedInv'
  BY <1>1, <1>4 DEF CarriedInv
<1>6. QED
  BY <1>3, <1>5 DEF EInv

LEMMA RenameE ==
  ASSUME IInv, EInv, NEW r \in Requests, Rename(r)
  PROVE  /\ EInv'
         /\ \A e \in Requests :
              (/\ kind[e] = "edit"
               /\ name[e] \in Known(file) /\ e \in file.conns[name[e]]
               /\ ~ (name[e] \in Known(file') /\ e \in file'.conns[name[e]]))
              => /\ landed'[r] # landed[r] /\ name[r] = name[e]
                 /\ kind[r] = "edit" =>
                      \E q \in Requests : Carries(q, e) /\ readRev[r] < landed[q]
<1>1. /\ file \in Configs /\ file.rev \in Nat /\ landed \in [Requests -> Nat]
      /\ readRev \in [Requests -> Nat] /\ TypeOK
  BY DEF IInv, TypeOK, ConfigReadable, Configs
<1>2. file' = Bumped(Mutated(r, Load(file))) /\ file'.rev = file.rev + 1
  BY <1>1, MutatedConfig DEF Rename
<1>3. /\ landed' = [landed EXCEPT ![r] = file.rev + 1]
      /\ pc[r] = "written" /\ pc' = [pc EXCEPT ![r] = "renamed"]
      /\ UNCHANGED <<kind, name, copy, readRev>>
  BY DEF Rename, Goes
<1>4. pc[r] \in Editing /\ landed[r] = 0 /\ \A q \in Requests : readRev[q] <= file.rev
  BY <1>3 DEF EInv, ReadInv, Editing, Updating
<1>5. ASSUME NEW e \in Requests, kind[e] = "edit"
      PROVE  LET before == name[e] \in Known(file) /\ e \in file.conns[name[e]]
                 after  == name[e] \in Known(file') /\ e \in file'.conns[name[e]]
             IN  /\ after => before \/ Carries(r, e)
                 /\ before /\ ~after => name[r] = name[e] /\ ~Carries(r, e)
  BY <1>1, <1>2, <1>5, MutatedEdits
<1>6. ReadInv'
  BY <1>1, <1>2, <1>3, <1>4 DEF EInv, ReadInv, Editing, Updating, IInv, TypeOK
<1>7. ASSUME NEW s \in Requests, NEW e \in Requests,
             kind[s] = "edit", pc'[s] \in Editing, kind[e] = "edit", name[e] = name[s],
             name[e] \in Known(file'), e \in file'.conns[name[e]], e \notin copy[s]
      PROVE  \E q \in Requests : Carries(q, e) /\ readRev[s] < landed'[q]
  <2>1. CASE Carries(r, e)
    BY <1>1, <1>3, <1>4, <2>1
  <2>2. CASE ~Carries(r, e)
    <3>1. name[e] \in Known(file) /\ e \in file.conns[name[e]]
      BY <1>5, <1>7, <2>2
    <3>2. pc[s] \in Editing
      BY <1>3, <1>4, <1>7 DEF IInv, TypeOK
    <3>3. PICK q \in Requests : Carries(q, e) /\ readRev[s] < landed[q]
      BY <1>7, <3>1, <3>2 DEF EInv, CarriedInv
    <3>4. q # r
      BY <1>1, <1>4, <3>3
    <3>5. QED
      BY <1>3, <3>3, <3>4
  <2>3. QED
    BY <2>1, <2>2
<1>8. CarriedInv'
  BY <1>3, <1>7 DEF CarriedInv, Carries
<1>9. ASSUME NEW e \in Requests, kind[e] = "edit",
             name[e] \in Known(file), e \in file.conns[name[e]],
             ~ (name[e] \in Known(file') /\ e \in file'.conns[name[e]])
      PROVE  /\ landed'[r] # landed[r] /\ name[r] = name[e]
             /\ kind[r] = "edit" =>
                  \E q \in Requests : Carries(q, e) /\ readRev[r] < landed[q]
  <2>1. name[r] = name[e] /\ ~Carries(r, e)
    BY <1>5, <1>9
  <2>2. landed'[r] # landed[r]
    BY <1>1, <1>3, <1>4
  <2>3. kind[r] = "edit" => e \notin copy[r]
    BY <2>1 DEF Carries
  <2>4. QED
    BY <1>4, <1>9, <2>1, <2>2, <2>3 DEF EInv, CarriedInv
<1>10. QED
  BY <1>6, <1>8, <1>9 DEF EInv

LEMMA StepEInv == IInv /\ EInv /\ [Next]_vars => EInv'
<1>1. ASSUME IInv, EInv, Next PROVE EInv'
  BY <1>1, QuietStepE, RenameE
<1>2. ASSUME EInv, UNCHANGED vars PROVE EInv'
  BY <1>2 DEF EInv, ReadInv, CarriedInv, Carries, vars, reqVars
<1>3. QED
  BY <1>1, <1>2

(***************************************************************************)
(* An edit of a connection disappears only when the connection is removed  *)
(* or saved anew, or under a copy that is older than a write which carried *)
(* the edit into the file.                                                 *)
(***************************************************************************)
THEOREM ConfigEditsLostToOldCopiesOnly == Spec => EditsLostToOldCopiesOnly
<1>1. Spec => []EInv
  BY InitEInv, StepEInv, ConfigInvariant, PTL DEF Spec
<1> DEFINE Loss ==
      \A e \in Requests :
        (/\ kind[e] = "edit"
         /\ name[e] \in Known(file) /\ e \in file.conns[name[e]]
         /\ ~ (name[e] \in Known(file') /\ e \in file'.conns[name[e]]))
        => \E r \in Requests :
             /\ landed'[r] # landed[r] /\ name[r] = name[e]
             /\ kind[r] = "edit" =>
                  \E q \in Requests : Carries(q, e) /\ readRev[r] < landed[q]
<1>2. IInv /\ EInv /\ [Next]_vars => [Loss]_vars
  <2> SUFFICES ASSUME IInv, EInv, Next PROVE Loss
    OBVIOUS
  <2>1. CASE \E r \in Requests : Rename(r)
    BY <2>1, RenameE
  <2>2. CASE ~\E r \in Requests : Rename(r)
    <3>1. file' = file
      BY <2>2, QuietStep
    <3>2. QED
      BY <3>1 DEF Known
  <2>3. QED
    BY <2>1, <2>2
<1>3. QED
  BY <1>1, <1>2, ConfigInvariant, PTL DEF Spec, EditsLostToOldCopiesOnly
=============================================================================
