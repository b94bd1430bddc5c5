------------------------------ MODULE MrtrProofs ------------------------------
(***************************************************************************)
(* Proofs about Mrtr for any calls, statements and caps.                   *)
(*                                                                         *)
(* A token leaves the pending store when it is taken and never comes back  *)
(* (SpentInv), so at most one call holds it between take and the gate; that *)
(* call brought the statement the token was issued for, and nothing ran    *)
(* under the token yet (HeldInv).  What ran under a token is therefore one *)
(* run of that statement (RunsInv).                                        *)
(***************************************************************************)
EXTENDS Mrtr, FiniteSetTheorems, WellFoundedInduction, TLAPS

Holds(c) == pc[c] \in {"respond", "gate"}

SpentInv == pending \cap consumed = {}

HeldInv ==
  \A c \in Calls : Holds(c) =>
    /\ token[c] \in consumed \ late /\ runs[token[c]] = <<>>
    /\ bound[token[c]].op = op[c]
    /\ \A d \in Calls : d # c /\ Holds(d) => token[d] # token[c]

RunsInv ==
  \A t \in Tokens : runs[t] # <<>> =>
    /\ t \in consumed \ late
    /\ Len(runs[t]) = 1 /\ runs[t][1].op = bound[t].op

(* In the first life of the process no tombstone goes before the cap is    *)
(* reached.                                                                *)
Buried(t) == \E i \in DOMAIN tombstones : tombstones[i] = t

TombInv ==
  restarts = 0 =>
    /\ Len(tombstones) <= Cardinality(consumed)
    /\ Cardinality(consumed) <= MaxTombstones => \A t \in consumed : Buried(t)

IInv == TypeOK /\ SpentInv /\ HeldInv /\ RunsInv /\ TombInv /\ NothingLost

-----------------------------------------------------------------------------
(* The cap on the pending store.                                           *)

(* A nonempty set of naturals has a least element. *)
LEMMA LeastElement ==
  ASSUME NEW S \in SUBSET Nat, S # {}
  PROVE  \E m \in S : \A u \in S : u >= m
<1>1. PICK m \in S : \A u \in S : ~(<<u, m>> \in OpToRel(<, Nat))
  BY NatLessThanWellFounded, WFMin
<1>2. OpToRel(<, Nat) = {ss \in Nat \X Nat : ss[1] < ss[2]}
  BY DEF OpToRel
<1>3. ASSUME NEW u \in S PROVE u >= m
  <2>1. ~(<<u, m>> \in {ss \in Nat \X Nat : ss[1] < ss[2]})
    BY <1>1, <1>2
  <2>2. u \in Nat /\ m \in Nat
    OBVIOUS
  <2>3. QED
    BY <2>1, <2>2
<1>4. QED
  BY <1>3

(* Keeping the youngest tokens of one too many leaves as many as the cap   *)
(* allows, for the oldest is not among them.                               *)
LEMMA KeptSize ==
  ASSUME NEW S \in SUBSET Nat, IsFiniteSet(S), Cardinality(S) <= MaxPending + 1
  PROVE  Kept(S) \subseteq S /\ Cardinality(Kept(S)) <= MaxPending
<1> USE MrtrAssumption
<1>1. Kept(S) \subseteq S /\ Cardinality(S) \in Nat
  BY FS_CardinalityType DEF Kept
<1>2. CASE Cardinality(S) <= MaxPending
  BY <1>1, <1>2, FS_Subset, FS_CardinalityType
<1>3. CASE Cardinality(S) = MaxPending + 1
  <2>1. PICK m \in S : \A u \in S : u >= m
    BY <1>3, FS_EmptySet, LeastElement
  <2>2. {u \in S : u > m} = S \ {m}
    <3>1. \A u \in S : u \in Nat /\ u >= m
      BY <2>1
    <3>2. \A u \in S : u > m <=> u # m
      BY <3>1
    <3>3. QED
      BY <3>2
  <2>3. IsFiniteSet(S \ {m}) /\ Cardinality(S \ {m}) = MaxPending
    BY <1>3, FS_RemoveElement
  <2>4. m \notin Kept(S)
    BY <2>2, <2>3 DEF Kept
  <2>5. Kept(S) \in SUBSET (S \ {m})
    BY <1>1, <2>4
  <2>6. Cardinality(Kept(S)) <= Cardinality(S \ {m})
    BY <2>3, <2>5, FS_Subset
  <2>7. QED
    BY <1>1, <2>3, <2>6
<1>4. QED
  BY <1>1, <1>2, <1>3

(* A token that is pushed out has MaxPending younger ones. *)
LEMMA PushedOutByYounger ==
  ASSUME NEW n \in Nat, NEW S \in SUBSET (1..n), NEW t \in S, t \notin Kept(S)
  PROVE  n >= t + MaxPending
<1> USE MrtrAssumption
<1> DEFINE Younger == {u \in S : u > t}
<1>1. Younger \in SUBSET (t + 1 .. n)
  <2>1. \A u \in S : u > t => u \in t + 1 .. n
    OBVIOUS
  <2>2. QED
    BY <2>1
<1>2. IsFiniteSet(t + 1 .. n) /\ Cardinality(t + 1 .. n) = n - t
  BY FS_Interval
<1>3. IsFiniteSet(Younger) /\ Cardinality(Younger) <= n - t
  BY <1>1, <1>2, FS_Subset
<1>4. Cardinality(Younger) \in Nat /\ ~(Cardinality(Younger) < MaxPending)
  BY <1>3, FS_CardinalityType DEF Kept
<1>5. QED
  BY <1>3, <1>4

(* Only issued tokens are taken. *)
LEMMA TakenAreTokens == ASSUME TypeOK PROVE consumed \subseteq Tokens /\ late \subseteq Tokens
<1>1. issued \in 0..MaxTokens /\ consumed \subseteq 1..issued /\ late \subseteq consumed
  BY DEF TypeOK
<1>2. \A t \in 1..issued : t \in 1..MaxTokens
  BY <1>1, MrtrAssumption
<1>3. QED
  BY <1>1, <1>2 DEF Tokens

(* The store and the set of consumed tokens are finite. *)
LEMMA Finite ==
  ASSUME TypeOK PROVE  IsFiniteSet(pending) /\ IsFiniteSet(consumed)
                       /\ Cardinality(pending) \in Nat /\ Cardinality(consumed) \in Nat
<1>1. IsFiniteSet(1..issued)
  BY FS_Interval DEF TypeOK
<1>2. IsFiniteSet(pending) /\ IsFiniteSet(consumed)
  BY <1>1, FS_Subset DEF TypeOK
<1>3. QED
  BY <1>2, FS_CardinalityType


-----------------------------------------------------------------------------
LEMMA InitInv == Init => IInv
<1> SUFFICES ASSUME Init PROVE IInv
  OBVIOUS
<1> USE MrtrAssumption DEF Init
<1>1. TypeOK
  <2>1. Cardinality(pending) <= MaxPending
    BY FS_EmptySet
  <2>2. issued = 0 /\ 1..issued = {} /\ bound \in Seq(Bindings) /\ Len(bound) = 0
    OBVIOUS
  <2>3. tombstones \in Seq(1..issued) /\ Len(tombstones) <= MaxTombstones
    OBVIOUS
  <2>4. QED
    BY <2>1, <2>2, <2>3 DEF TypeOK, Configs, PcStates, NoToken, Answers, Results
<1>2. SpentInv /\ HeldInv /\ RunsInv /\ TombInv /\ NothingLost
  BY FS_EmptySet DEF SpentInv, HeldInv, Holds, RunsInv, TombInv, NothingLost
<1>3. QED
  BY <1>1, <1>2 DEF IInv

(* A step that takes, issues, drops and runs nothing.  It may let a call   *)
(* go on with the token it holds, or let a token expire.                   *)
LEMMA QuietStep ==
  ASSUME IInv, TypeOK',
         UNCHANGED <<restarts, pending, tombstones, issued, bound, dropped, takenVars, runs, op>>,
         expired \subseteq expired',
         \A c \in Calls : Holds(c)' => Holds(c) /\ token'[c] = token[c]
  PROVE  IInv'
<1> USE DEF takenVars
<1>1. SpentInv' /\ RunsInv'
  BY DEF IInv, SpentInv, RunsInv
<1>2. HeldInv'
  BY DEF IInv, HeldInv
<1>3. TombInv' /\ NothingLost'
  BY DEF IInv, TombInv, Buried, NothingLost
<1>4. QED
  BY <1>1, <1>2, <1>3 DEF IInv

(* Steps of one call that touch neither the store nor the runs. *)
LEMMA OwnStepInv ==
  ASSUME IInv, NEW c \in Calls,
         Load(c) \/ Refuse(c) \/ Decide(c) \/ GateDirect(c) \/ RejectRetry(c) \/ Respond(c)
  PROVE  IInv'
<1> USE DEF Goes, Returns, storeVars, takenVars, Holds
<1>1. CASE Load(c)
  <2>1. token' \in [Calls -> 0..issued] /\ answer' \in [Calls -> Answers]
    <3>1. token \in [Calls -> 0..issued] /\ answer \in [Calls -> Answers] /\ 1..issued \subseteq 0..issued
      BY DEF IInv, TypeOK
    <3>2. CASE UNCHANGED <<token, answer>>
      BY <3>1, <3>2
    <3>3. CASE \E t \in 1..issued, a \in Answers :
                 token' = [token EXCEPT ![c] = t] /\ answer' = [answer EXCEPT ![c] = a]
      BY <3>1, <3>3
    <3>4. QED
      BY <1>1, <3>2, <3>3 DEF Load
  <2>2. seen' \in [Calls -> Configs] /\ pc' \in [Calls -> PcStates]
    BY <1>1 DEF Load, IInv, TypeOK, PcStates
  <2>3. TypeOK'
    BY <1>1, <2>1, <2>2 DEF Load, IInv, TypeOK
  <2>4. QED
    BY <1>1, <2>3, QuietStep DEF Load, IInv, TypeOK
<1>2. CASE Refuse(c)
  <2>1. TypeOK'
    BY <1>2 DEF Refuse, IInv, TypeOK, PcStates, Results
  <2>2. QED
    BY <1>2, <2>1, QuietStep DEF Refuse, IInv, TypeOK
<1>3. CASE Decide(c)
  <2>1. TypeOK'
    BY <1>3 DEF Decide, IInv, TypeOK, PcStates
  <2>2. QED
    BY <1>3, <2>1, QuietStep DEF Decide, IInv, TypeOK
<1>4. CASE GateDirect(c)
  <2>1. TypeOK'
    BY <1>4 DEF GateDirect, IInv, TypeOK, PcStates, Results
  <2>2. QED
    BY <1>4, <2>1, QuietStep DEF GateDirect, IInv, TypeOK
<1>5. CASE RejectRetry(c)
  <2>1. TypeOK'
    BY <1>5 DEF RejectRetry, IInv, TypeOK, PcStates, Results
  <2>2. QED
    BY <1>5, <2>1, QuietStep DEF RejectRetry, IInv, TypeOK
<1>6. CASE Respond(c)
  <2>1. pc[c] = "respond" /\ \E p \in {"gate", "done"} : pc' = [pc EXCEPT ![c] = p]
    BY <1>6 DEF Respond, IInv, TypeOK, Answers
  <2>2. result' \in [Calls -> Results]
    BY <1>6 DEF Respond, IInv, TypeOK, Answers, Results
  <2>3. TypeOK'
    BY <1>6, <2>1, <2>2 DEF Respond, IInv, TypeOK, PcStates
  <2>4. QED
    BY <1>6, <2>1, <2>3, QuietStep DEF Respond, IInv, TypeOK
<1>7. QED
  BY <1>1, <1>2, <1>3, <1>4, <1>5, <1>6

-----------------------------------------------------------------------------
LEMMA IssueInv == ASSUME IInv, NEW c \in Calls, Issue(c) PROVE IInv'
<1> USE MrtrAssumption DEF Issue, Returns, Goes, takenVars
<1> DEFINE S == pending \cup {issued + 1}
<1>1. issued \in Nat /\ issued' = issued + 1 /\ issued' \in 0..MaxTokens
      /\ 1..issued \subseteq 1..issued' /\ 0..issued \subseteq 0..issued'
  BY DEF IInv, TypeOK
<1>2. Binding(c) \in Bindings
  <2>1. op[c] \in Ops /\ seen[c] \in Configs
    BY DEF IInv, TypeOK
  <2>2. QED
    BY <2>1 DEF Binding, Bindings, Configs
<1>3. bound' \in Seq(Bindings) /\ Len(bound') = issued' /\ \A t \in 1..issued : bound'[t] = bound[t]
  <2>1. bound \in Seq(Bindings) /\ Len(bound) = issued /\ bound' = Append(bound, Binding(c))
    BY DEF IInv, TypeOK
  <2>2. QED
    BY <1>1, <1>2, <2>1
<1>4. S \in SUBSET (1..issued') /\ IsFiniteSet(S) /\ Cardinality(S) <= MaxPending + 1
  <2>1. IsFiniteSet(pending) /\ Cardinality(pending) \in Nat /\ Cardinality(pending) <= MaxPending
        /\ pending \subseteq 1..issued
    BY Finite DEF IInv, TypeOK
  <2>2. IsFiniteSet(S) /\ Cardinality(S) <= Cardinality(pending) + 1 /\ Cardinality(S) \in Nat
    <3>1. IsFiniteSet(S) /\ Cardinality(S) = IF issued + 1 \in pending THEN Cardinality(pending)
                                              ELSE Cardinality(pending) + 1
      BY <2>1, FS_AddElement
    <3>2. QED
      BY <2>1, <3>1
  <2>3. S \in SUBSET (1..issued')
    BY <1>1, <2>1
  <2>4. QED
    BY <2>1, <2>2, <2>3
<1>5. pending' = Kept(S) /\ pending' \subseteq S /\ Cardinality(pending') <= MaxPending
  <2>1. S \in SUBSET Nat
    BY <1>1, <1>4
  <2>2. QED
    BY <1>4, <2>1, KeptSize
<1>6. dropped' \subseteq 1..issued'
  BY <1>1 DEF IInv, TypeOK
<1>7. TypeOK'
  <2>1. tombstones' \in Seq(1..issued') /\ Len(tombstones') <= MaxTombstones
    BY <1>1 DEF IInv, TypeOK
  <2>2. pc' \in [Calls -> PcStates] /\ result' \in [Calls -> Results]
    BY DEF IInv, TypeOK, PcStates, Results
  <2>3. expired' \subseteq 1..issued' /\ consumed' \subseteq 1..issued' /\ late' \subseteq consumed'
        /\ token' \in [Calls -> 0..issued']
    BY <1>1 DEF IInv, TypeOK
  <2>4. QED
    BY <1>1, <1>3, <1>4, <1>5, <1>6, <2>1, <2>2, <2>3 DEF IInv, TypeOK
<1>8. consumed \subseteq 1..issued /\ late \subseteq consumed /\ issued + 1 \notin consumed
  BY <1>1 DEF IInv, TypeOK
<1>9. SpentInv'
  BY <1>5, <1>8 DEF IInv, SpentInv
<1>10. HeldInv'
  <2>1. \A d \in Calls : Holds(d)' => Holds(d)
    BY DEF IInv, TypeOK, Holds
  <2>2. QED
    BY <1>3, <1>8, <2>1 DEF IInv, HeldInv
<1>11. RunsInv'
  BY <1>3, <1>8 DEF IInv, RunsInv
<1>12. TombInv'
  BY DEF IInv, TombInv, Buried
<1>13. NothingLost'
  <2>1. SUFFICES ASSUME NEW t \in 1..issued', t \notin pending', t \notin consumed,
                        t \notin expired, ~(restarts > 0)
                 PROVE  issued' >= t + MaxPending
    BY DEF NothingLost
  <2>2. CASE t \in S
    BY <1>1, <1>4, <1>5, <2>1, <2>2, PushedOutByYounger
  <2>3. CASE t \notin S
    <3>1. t \in 1..issued /\ t \notin pending
      BY <1>1, <2>1, <2>3
    <3>2. issued >= t + MaxPending
      BY <2>1, <3>1 DEF IInv, NothingLost
    <3>3. QED
      BY <1>1, <3>1, <3>2
  <2>4. QED
    BY <2>2, <2>3
<1>14. QED
  BY <1>7, <1>9, <1>10, <1>11, <1>12, <1>13 DEF IInv

LEMMA TakeUnknownInv == ASSUME IInv, NEW c \in Calls, TakeUnknown(c) PROVE IInv'
<1> USE DEF TakeUnknown, Returns, Goes, Reap, takenVars
<1>1. pending' \subseteq pending /\ \A t \in pending : t \in pending' \/ t \in expired
  OBVIOUS
<1>2. IsFiniteSet(pending) /\ Cardinality(pending') <= Cardinality(pending)
      /\ Cardinality(pending) \in Nat /\ Cardinality(pending') \in Nat
  BY <1>1, Finite, FS_Subset, FS_CardinalityType DEF IInv
<1>3. TypeOK'
  <2>1. pc' \in [Calls -> PcStates] /\ result' \in [Calls -> Results]
    BY DEF IInv, TypeOK, PcStates, Results
  <2>2. Cardinality(pending') <= MaxPending
    BY <1>2, MrtrAssumption DEF IInv, TypeOK
  <2>3. QED
    BY <1>1, <2>1, <2>2 DEF IInv, TypeOK
<1>4. SpentInv' /\ RunsInv'
  BY <1>1 DEF IInv, SpentInv, RunsInv
<1>5. HeldInv'
  <2>1. \A d \in Calls : Holds(d)' => Holds(d)
    BY DEF IInv, TypeOK, Holds
  <2>2. QED
    BY <2>1 DEF IInv, HeldInv
<1>6. TombInv' /\ NothingLost'
  BY <1>1 DEF IInv, TombInv, Buried, NothingLost
<1>7. QED
  BY <1>3, <1>4, <1>5, <1>6 DEF IInv

(* Burying a token writes a tombstone and, at the cap, forgets the oldest. *)
LEMMA BuryFacts ==
  ASSUME TypeOK, NEW t \in 1..issued, Bury(t)
  PROVE  /\ tombstones' \in Seq(1..issued) /\ Len(tombstones') <= MaxTombstones
         /\ Len(tombstones') <= Len(tombstones) + 1
         /\ Len(tombstones) < MaxTombstones =>
              Buried(t)' /\ \A u : Buried(u) => Buried(u)'
<1> USE MrtrAssumption
<1> DEFINE s == Append(tombstones, t)
<1>1. /\ tombstones \in Seq(1..issued) /\ Len(tombstones) <= MaxTombstones
      /\ Len(tombstones) \in Nat /\ DOMAIN tombstones = 1..Len(tombstones)
  BY DEF TypeOK
<1>2. /\ s \in Seq(1..issued) /\ Len(s) = Len(tombstones) + 1
      /\ s[Len(tombstones) + 1] = t
      /\ \A i \in 1..Len(tombstones) : s[i] = tombstones[i]
  BY <1>1
<1>3. CASE Len(s) > MaxTombstones
  <2>1. tombstones' = Tail(s) /\ s # <<>>
    BY <1>1, <1>2, <1>3 DEF Bury
  <2>2. tombstones' \in Seq(1..issued) /\ Len(tombstones') = Len(s) - 1
    BY <1>2, <2>1
  <2>3. QED
    BY <1>1, <1>2, <1>3, <2>2
<1>4. CASE ~(Len(s) > MaxTombstones)
  <2>1. tombstones' = s
    BY <1>4 DEF Bury
  <2>2. Buried(t)' /\ \A u : Buried(u) => Buried(u)'
    BY <1>1, <1>2, <2>1 DEF Buried
  <2>3. QED
    BY <1>1, <1>2, <1>4, <2>1, <2>2
<1>5. QED
  BY <1>3, <1>4

LEMMA TakeInv == ASSUME IInv, NEW c \in Calls, Take(c) PROVE IInv'
<1> USE MrtrAssumption DEF Take, Consume, Goes, Returns
<1> DEFINE t == token[c]
<1>1. /\ t \in pending /\ t \in 1..issued /\ t \notin consumed /\ t \in Tokens
      /\ pending' = pending \ {t} /\ consumed' = consumed \cup {t}
      /\ late' = late \cup ({t} \cap expired) /\ late \subseteq consumed /\ Bury(t)
  BY DEF IInv, TypeOK, SpentInv, Tokens
<1>2. \/ Verdict(c) = "valid" /\ pc[c] = "take" /\ pc' = [pc EXCEPT ![c] = "respond"] /\ UNCHANGED result
      \/ /\ Verdict(c) \in {"expired", "invalid_state", "policy_changed"}
         /\ pc' = [pc EXCEPT ![c] = "done"] /\ result' = [result EXCEPT ![c] = Verdict(c)]
  BY DEF Verdict
<1>3. /\ IsFiniteSet(pending) /\ IsFiniteSet(consumed)
      /\ Cardinality(pending') <= Cardinality(pending) /\ Cardinality(pending') \in Nat
      /\ Cardinality(consumed') = Cardinality(consumed) + 1 /\ Cardinality(consumed) \in Nat
  <2>1. IsFiniteSet(pending) /\ IsFiniteSet(consumed)
        /\ Cardinality(pending) \in Nat /\ Cardinality(consumed) \in Nat
    BY Finite DEF IInv
  <2>2. Cardinality(pending \ {t}) = Cardinality(pending) - 1 /\ IsFiniteSet(pending \ {t})
    BY <1>1, <2>1, FS_RemoveElement
  <2>3. Cardinality(consumed \cup {t}) = Cardinality(consumed) + 1
    BY <1>1, <2>1, FS_AddElement
  <2>4. Cardinality(pending \ {t}) \in Nat
    BY <2>2, FS_CardinalityType
  <2>5. QED
    BY <1>1, <2>1, <2>2, <2>3, <2>4
<1>4. /\ tombstones' \in Seq(1..issued) /\ Len(tombstones') <= MaxTombstones
      /\ Len(tombstones') <= Len(tombstones) + 1
      /\ Len(tombstones) < MaxTombstones => Buried(t)' /\ \A u : Buried(u) => Buried(u)'
  BY <1>1, BuryFacts DEF IInv
<1>5. TypeOK'
  <2>1. pc' \in [Calls -> PcStates] /\ result' \in [Calls -> Results]
    BY <1>2 DEF IInv, TypeOK, PcStates, Results
  <2>2. pending' \subseteq 1..issued' /\ Cardinality(pending') <= MaxPending
    <3>1. Cardinality(pending) <= MaxPending /\ Cardinality(pending) \in Nat /\ pending \subseteq 1..issued
      BY Finite DEF IInv, TypeOK
    <3>2. pending' \subseteq 1..issued'
      BY <1>1, <3>1
    <3>3. Cardinality(pending') <= MaxPending
      <4> HIDE DEF Take, Consume, t
      <4>1. QED
        BY <1>3, <3>1
    <3>4. QED
      BY <3>2, <3>3
  <2>3. consumed' \subseteq 1..issued' /\ late' \subseteq consumed'
    BY <1>1 DEF IInv, TypeOK
  <2>4. QED
    BY <1>4, <2>1, <2>2, <2>3 DEF IInv, TypeOK
<1>6. SpentInv'
  BY <1>1 DEF IInv, SpentInv
<1>7. runs[t] = <<>>
  BY <1>1 DEF IInv, RunsInv
<1>8. Holds(c)' => t \notin late' /\ bound[t].op = op[c]
  <2>1. SUFFICES ASSUME Verdict(c) = "valid" PROVE t \notin expired /\ bound[t].op = op[c]
    BY <1>1, <1>2 DEF Holds, IInv, TypeOK
  <2>2. t \notin expired /\ bound[t] = Binding(c)
    BY <2>1 DEF Verdict
  <2>3. QED
    BY <2>2 DEF Binding
<1>9. HeldInv'
  <2>1. \A d \in Calls \ {c} : Holds(d)' => Holds(d)
    BY <1>2 DEF IInv, TypeOK, Holds
  <2>2. \A d \in Calls : Holds(d) => token[d] \in consumed \ late /\ token[d] # t
    BY <1>1 DEF IInv, HeldInv
  <2>3. \A d \in Calls \ {c} : Holds(d)' =>
          token[d] \in consumed' \ late' /\ runs[token[d]] = <<>> /\ bound[token[d]].op = op[d]
    BY <1>1, <2>1, <2>2 DEF IInv, HeldInv
  <2>4. \A d, e \in Calls : d # e /\ Holds(d)' /\ Holds(e)' => token[d] # token[e]
    BY <2>1, <2>2 DEF IInv, HeldInv
  <2>5. QED
    BY <1>1, <1>7, <1>8, <2>3, <2>4 DEF HeldInv
<1>10. RunsInv'
  BY <1>1, <1>7 DEF IInv, RunsInv
<1>11. TombInv'
  <2>1. SUFFICES ASSUME restarts = 0
                 PROVE  /\ Len(tombstones') <= Cardinality(consumed')
                        /\ Cardinality(consumed') <= MaxTombstones => \A u \in consumed' : Buried(u)'
    BY DEF TombInv
  <2>2. Len(tombstones) <= Cardinality(consumed) /\ Len(tombstones) \in Nat /\ Len(tombstones') \in Nat
    BY <1>4, <2>1 DEF IInv, TombInv, TypeOK
  <2>3. ASSUME Cardinality(consumed') <= MaxTombstones, NEW u \in consumed' PROVE Buried(u)'
    <3>1. Len(tombstones) < MaxTombstones /\ Cardinality(consumed) <= MaxTombstones
      BY <1>3, <2>2, <2>3
    <3>2. u = t \/ Buried(u)
      BY <1>1, <2>1, <2>3, <3>1 DEF IInv, TombInv
    <3>3. QED
      BY <1>4, <3>1, <3>2
  <2>4. QED
    BY <1>3, <1>4, <2>2, <2>3
<1>12. NothingLost'
  BY <1>1 DEF IInv, NothingLost
<1>13. QED
  BY <1>5, <1>6, <1>9, <1>10, <1>11, <1>12 DEF IInv

LEMMA GateRunInv == ASSUME IInv, NEW c \in Calls, GateRun(c) PROVE IInv'
<1> USE DEF GateRun, Goes, Returns
<1>1. pc[c] = "gate" /\ pc' = [pc EXCEPT ![c] = "done"] /\ granted' \in {granted, GrantedNow(c)}
  OBVIOUS
<1>2. /\ UNCHANGED <<cfg, restarts, storeVars, takenVars, op, token, answer, seen>>
      /\ result' \in [Calls -> Results]
  BY DEF IInv, TypeOK, Results
<1>3. granted' \subseteq Keys /\ pc' \in [Calls -> PcStates]
  BY <1>1 DEF IInv, TypeOK, GrantedNow, Keys, Configs, PcStates
<1>4. \A d \in Calls : Holds(d)' => Holds(d) /\ d # c /\ token'[d] = token[d]
  BY <1>1, <1>2 DEF IInv, TypeOK, Holds
<1>5. CASE UNCHANGED runs
  <2>1. TypeOK'
    BY <1>2, <1>3, <1>5 DEF IInv, TypeOK, storeVars, takenVars
  <2>2. QED
    BY <1>2, <1>4, <1>5, <2>1, QuietStep DEF storeVars
<1>6. CASE Runs(c)
  <2> DEFINE t == token[c]
             b == [op |-> op[c], db |-> cfg.db, rev |-> cfg.rev]
  <2> USE <1>2 DEF storeVars, takenVars
  <2>1. t \in consumed \ late /\ runs[t] = <<>> /\ bound[t].op = op[c] /\ t \in Tokens
        /\ \A d \in Calls : d # c /\ Holds(d) => token[d] # t
    <3>1. Holds(c)
      BY <1>1 DEF Holds
    <3>2. /\ t \in consumed \ late /\ runs[t] = <<>> /\ bound[t].op = op[c]
          /\ \A d \in Calls : d # c /\ Holds(d) => token[d] # t
      BY <3>1 DEF IInv, HeldInv
    <3>3. t \in Tokens
      BY <3>2, TakenAreTokens DEF IInv
    <3>4. QED
      BY <3>2, <3>3
  <2>2. b \in Bindings /\ b.op = op[c]
    BY DEF IInv, TypeOK, Bindings, Configs
  <2> HIDE DEF b
  <2>3. runs' = [runs EXCEPT ![t] = Append(<<>>, b)] /\ runs \in [Tokens -> Seq(Bindings)]
    BY <1>6, <2>1 DEF Runs, IInv, TypeOK, b
  <2>4. Append(<<>>, b) \in Seq(Bindings) /\ Len(Append(<<>>, b)) = 1 /\ Append(<<>>, b)[1] = b
    BY <2>2
  <2>5. TypeOK'
    BY <1>2, <1>3, <2>3, <2>4 DEF IInv, TypeOK
  <2>6. RunsInv'
    BY <2>1, <2>2, <2>3, <2>4 DEF IInv, RunsInv
  <2>7. HeldInv'
    BY <1>4, <2>1, <2>3 DEF IInv, HeldInv, TypeOK, Tokens
  <2>8. SpentInv' /\ TombInv' /\ NothingLost'
    BY DEF IInv, SpentInv, TombInv, Buried, NothingLost
  <2>9. QED
    BY <2>5, <2>6, <2>7, <2>8 DEF IInv
<1>7. QED
  BY <1>5, <1>6

LEMMA EnvironmentInv == IInv /\ (EditConfig \/ Expire \/ Restart) => IInv'
<1> SUFFICES ASSUME IInv PROVE EditConfig \/ Expire \/ Restart => IInv'
  OBVIOUS
<1> USE MrtrAssumption DEF storeVars, takenVars, callVars
<1>1. ASSUME EditConfig PROVE IInv'
  <2>1. TypeOK'
    BY <1>1 DEF EditConfig, IInv, TypeOK, Configs
  <2>2. QED
    BY <1>1, <2>1, QuietStep DEF EditConfig, Holds
<1>2. ASSUME Expire PROVE IInv'
  <2>1. expired \subseteq expired' /\ expired' \subseteq 1..issued /\ granted' \subseteq granted
    BY <1>2 DEF Expire, IInv, TypeOK
  <2>2. TypeOK'
    BY <1>2, <2>1 DEF Expire, IInv, TypeOK
  <2>3. QED
    BY <1>2, <2>1, <2>2, QuietStep DEF Expire, Holds
<1>3. ASSUME Restart PROVE IInv'
  <2> USE <1>3 DEF Restart
  <2>1. restarts' > 0 /\ restarts' \in 0..MaxRestarts /\ pending' = {} /\ granted' = {}
        /\ pc' \in [Calls -> PcStates]
    BY DEF IInv, TypeOK, PcStates
  <2>2. tombstones' \in Seq(1..issued) /\ Len(tombstones') <= MaxTombstones
    OBVIOUS
  <2>3. TypeOK'
    BY <2>1, <2>2, FS_EmptySet DEF IInv, TypeOK
  <2>4. \A d \in Calls : ~Holds(d)'
    BY DEF Holds
  <2>5. QED
    BY <2>1, <2>3, <2>4 DEF IInv, SpentInv, HeldInv, RunsInv, TombInv, NothingLost
<1>4. QED
  BY <1>1, <1>2, <1>3

LEMMA StepInv == IInv /\ [Next]_vars => IInv'
<1> SUFFICES ASSUME IInv, [Next]_vars PROVE IInv'
  OBVIOUS
<1>1. ASSUME NEW c \in Calls, Step(c) PROVE IInv'
  BY <1>1, OwnStepInv, IssueInv, TakeUnknownInv, TakeInv, GateRunInv DEF Step
<1>2. CASE UNCHANGED vars
  <2>1. TypeOK'
    BY <1>2 DEF vars, storeVars, takenVars, callVars, IInv, TypeOK
  <2>2. QED
    BY <1>2, <2>1, QuietStep DEF vars, storeVars, takenVars, callVars, Holds
<1>3. QED
  BY <1>1, <1>2, EnvironmentInv DEF Next

-----------------------------------------------------------------------------
(* The inductive invariant of the exchange. *)
THEOREM MrtrInvariant == Spec => []IInv
BY InitInv, StepInv, PTL DEF Spec

(* Types, and the caps: issuing never leaves more than MAX_PENDING tokens  *)
(* in the store, and burying never more than MAX_TOMBSTONES.               *)
THEOREM MrtrTypeCorrect == Spec => []TypeOK
<1>1. IInv => TypeOK
  BY DEF IInv
<1>2. QED
  BY MrtrInvariant, <1>1, PTL

(* Under one token at most one statement runs, whatever retries, replays,  *)
(* evictions and restarts there are.                                       *)
THEOREM MrtrSingleUse == Spec => []SingleUse
<1>1. IInv => SingleUse
  <2>1. ASSUME IInv, NEW t \in Tokens PROVE Len(runs[t]) <= 1
    <3>1. runs[t] = <<>> \/ Len(runs[t]) = 1
      BY <2>1 DEF IInv, RunsInv
    <3>2. CASE runs[t] = <<>>
      <4>1. Len(<<>>) = 0
        OBVIOUS
      <4>2. Len(runs[t]) = 0
        BY <3>2, <4>1, Zenon
      <4>3. QED
        BY <4>2
    <3>3. CASE Len(runs[t]) = 1
      BY <3>3
    <3>4. QED
      BY <3>1, <3>2, <3>3
  <2>2. QED
    BY <2>1 DEF SingleUse
<1>2. QED
  BY MrtrInvariant, <1>1, PTL

(* It is the statement the token was issued for, even when a retry brings  *)
(* another one or the configuration changes meanwhile.                     *)
THEOREM MrtrApprovedStatementOnly == Spec => []ApprovedStatementOnly
<1>1. IInv => ApprovedStatementOnly
  <2>1. SUFFICES ASSUME IInv, NEW t \in Tokens, NEW i \in DOMAIN runs[t]
                 PROVE  runs[t][i].op = bound[t].op
    BY DEF ApprovedStatementOnly
  <2>2. runs[t] \in Seq(Bindings)
    BY <2>1 DEF IInv, TypeOK
  <2>3. runs[t] # <<>>
    BY <2>1, <2>2
  <2>4. Len(runs[t]) = 1 /\ runs[t][1].op = bound[t].op
    BY <2>1, <2>3 DEF IInv, RunsInv
  <2>5. i = 1
    BY <2>1, <2>2, <2>4
  <2>6. QED
    BY <2>4, <2>5
<1>2. QED
  BY MrtrInvariant, <1>1, PTL

(* A token whose TTL had run out when it was taken lets nothing run. *)
THEOREM MrtrExpiredNeverRuns == Spec => []ExpiredNeverRuns
<1>1. IInv => ExpiredNeverRuns
  <2>1. ASSUME IInv, NEW t \in late PROVE runs[t] = <<>>
    <3>1. late \subseteq Tokens
      BY <2>1, TakenAreTokens DEF IInv
    <3>2. t \in Tokens /\ t \notin consumed \ late
      BY <3>1
    <3>3. QED
      BY <2>1, <3>2 DEF IInv, RunsInv
  <2>2. QED
    BY <2>1 DEF ExpiredNeverRuns
<1>2. QED
  BY MrtrInvariant, <1>1, PTL

(* The cap of the store pushes out the oldest tokens only, and nothing     *)
(* else but expiry and restart loses one.                                  *)
THEOREM MrtrNothingLost == Spec => []NothingLost
<1>1. IInv => NothingLost
  BY DEF IInv
<1>2. QED
  BY MrtrInvariant, <1>1, PTL

(* A replay is reported as such as long as the tombstones were enough. *)
THEOREM MrtrReplayReported == Spec => ReplayReported
<1> DEFINE A == \A c \in Calls :
                  result'[c] = "invalid_state" /\ result[c] = "none" /\ token[c] \notin pending =>
                    \/ token[c] \notin consumed \/ restarts > 0
                    \/ Cardinality(consumed) > MaxTombstones
<1>1. IInv /\ [Next]_vars => [A]_vars
  <2> SUFFICES ASSUME IInv, Next, NEW c \in Calls,
                      result'[c] = "invalid_state", result[c] = "none", token[c] \notin pending,
                      token[c] \in consumed, ~(restarts > 0)
               PROVE  Cardinality(consumed) > MaxTombstones
    BY DEF vars
  <2>1. TakeUnknown(c)
    <3>1. result \in [Calls -> Results] /\ result[c] # result'[c]
      BY DEF IInv, TypeOK
    <3>2. ASSUME NEW d \in Calls, Step(d) PROVE TakeUnknown(c)
      <4>1. CASE Load(d) \/ Decide(d)
        BY <3>1, <4>1 DEF Load, Decide
      <4>2. ASSUME NEW from, NEW res, Returns(d, from, res) PROVE d = c /\ res = "invalid_state"
        BY <3>1, <4>2 DEF Returns
      <4>3. CASE Refuse(d)
        BY <4>2, <4>3 DEF Refuse
      <4>4. CASE GateDirect(d)
        <5>1. PICK res \in {"ran", "denied", "unavailable", "failed"} : Returns(d, "direct", res)
          BY <4>4 DEF GateDirect
        <5>2. QED
          BY <4>2, <5>1
      <4>5. CASE Issue(d)
        BY <4>2, <4>5 DEF Issue
      <4>6. CASE RejectRetry(d)
        BY <4>2, <4>6 DEF RejectRetry
      <4>7. CASE TakeUnknown(d)
        <5>1. PICK res \in Results : Returns(d, "take", res)
          BY <4>7 DEF TakeUnknown, Results
        <5>2. QED
          BY <4>2, <4>7, <5>1
      <4>8. CASE Take(d)
        <5>1. token[d] \in pending /\ (UNCHANGED result \/ Returns(d, "take", Verdict(d)))
          BY <4>8 DEF Take
        <5>2. QED
          BY <3>1, <4>2, <5>1
      <4>9. CASE Respond(d)
        <5>1. UNCHANGED result \/ \E res \in {"declined", "unavailable", "rejected"} : Returns(d, "respond", res)
          BY <4>9 DEF Respond, IInv, TypeOK, Answers
        <5>2. QED
          BY <3>1, <4>2, <5>1
      <4>10. CASE GateRun(d)
        <5>1. \E res \in {"denied", "ran", "failed"} : Returns(d, "gate", res)
          BY <4>10 DEF GateRun
        <5>2. QED
          BY <4>2, <5>1
      <4>11. QED
        BY <3>2, <4>1, <4>3, <4>4, <4>5, <4>6, <4>7, <4>8, <4>9, <4>10 DEF Step
    <3>3. ~(EditConfig \/ Expire \/ Restart)
      BY <3>1 DEF EditConfig, Expire, Restart, callVars
    <3>4. QED
      BY <3>2, <3>3 DEF Next
  <2>2. ~Buried(token[c])
    BY <2>1 DEF TakeUnknown, Returns, Buried, IInv, TypeOK
  <2>3. restarts = 0
    BY MrtrAssumption DEF IInv, TypeOK
  <2>4. ~(Cardinality(consumed) <= MaxTombstones)
    BY <2>2, <2>3 DEF IInv, TombInv
  <2>5. Cardinality(consumed) \in Nat
    BY Finite DEF IInv
  <2>6. QED
    BY <2>4, <2>5, MrtrAssumption
<1>2. QED
  BY <1>1, MrtrInvariant, PTL DEF Spec, ReplayReported
=============================================================================
