------------------------------ MODULE GateProofs ------------------------------
(***************************************************************************)
(* Proofs about Gate for any calls, keys, config revisions and restarts.   *)
(*                                                                         *)
(* ExecutedOnAuthority speaks of calls that took effect; it is inductive   *)
(* only together with what a call has established before it executes       *)
(* (AuthInv), with the effect, result and rows of each control state       *)
(* (PhaseInv), and with the provenance of the grants in the engine: a      *)
(* session grant is the trace of a session choice of this very process     *)
(* (GrantsOfThisProcess), which a restart forgets.                         *)
(***************************************************************************)
EXTENDS Gate, TLAPS

Early   == {"idle", "decide", "session", "ask"}
Granted == {"revalidate", "consume", "execute", "succeeded", "errored"}

PhaseInv ==
  \A r \in Calls :
    /\ pc[r] \in Early \cup {"revalidate", "consume", "execute"} => effect[r] = 0
    /\ pc[r] \in {"succeeded", "errored"} \cup {"done", "dead"} => effect[r] \in {0, 1}
    /\ pc[r] # "done" => result[r] = "none"
    /\ pc[r] \in Early => choice[r] = "none"
    /\ pc[r] \notin {"idle", "done", "dead"} => born[r] = epoch
    /\ result[r] \in Refusals => effect[r] = 0

AuthInv ==
  \A r \in Calls :
    /\ pc[r] \in {"session", "ask"} => /\ Policy(r).action = "confirm"
                                       /\ Policy(r).touch => r \in auth
    /\ pc[r] \in Granted \/ effect[r] > 0 => Authority(r)

RowsInv ==
  \A r \in Calls :
    /\ pc[r] # "done" => rows[r] = <<>> /\ r \notin lost
    /\ rows[r] = <<>> \/ rows[r] = <<RowFor(r)>>
    /\ result[r] = "ok" => rows[r] = <<"approved">>
    /\ result[r] = "ok_unaudited" => r \in lost

IInv == TypeOK /\ PhaseInv /\ AuthInv /\ RowsInv /\ GrantsOfThisProcess

-----------------------------------------------------------------------------
LEMMA InitInv == Init => IInv
<1> SUFFICES ASSUME Init PROVE IInv
  OBVIOUS
<1> USE GateAssumption DEF Init, EngineInit
<1>1. TypeOK
  BY DEF TypeOK, EngineTypeOK, EntryStates, Configs, Policies, PcStates, Choices,
         Outcomes, Results, Refusals
<1>2. PhaseInv /\ AuthInv
  BY DEF PhaseInv, AuthInv, Early, Granted, Refusals
<1>3. RowsInv
  BY DEF RowsInv
<1>4. GrantsOfThisProcess
  BY DEF GrantsOfThisProcess
<1>5. QED
  BY <1>1, <1>2, <1>3, <1>4 DEF IInv

LEMMA AuditTypes ==
  ASSUME TypeOK, NEW r \in Calls, NEW x \in Outcomes, Audit(r, x)
  PROVE  rows' \in [Calls -> Seq(Outcomes)] /\ lost' \in SUBSET Calls
<1> USE DEF TypeOK
<1>1. Append(rows[r], x) \in Seq(Outcomes)
  OBVIOUS
<1>2. QED
  BY <1>1 DEF Audit

LEMMA AuditRow ==
  ASSUME TypeOK, NEW r \in Calls, NEW x, Audit(r, x), rows[r] = <<>>
  PROVE  /\ \A q \in Calls : q # r => rows'[q] = rows[q] /\ (q \in lost <=> q \in lost')
         /\ \/ rows'[r] = <<>> /\ r \in lost'
            \/ rows'[r] = <<x>> /\ lost' = lost
<1>1. Append(<<>>, x) = <<x>>
  OBVIOUS
<1>2. QED
  BY <1>1 DEF Audit, TypeOK

LEMMA LoadInv == ASSUME IInv, NEW r \in Calls, Load(r) PROVE IInv'
<1> USE GateAssumption DEF IInv
<1>1. TypeOK'
  BY DEF TypeOK, EngineTypeOK, EntryStates, PcStates, Choices, Results,
         Refusals, engineVars, Load, Resolvable, Goes, Unaudited
<1>2. PhaseInv'
  BY <1>1 DEF TypeOK, PhaseInv, Early, Refusals, Load, Resolvable, Goes, Unaudited
<1>3. AuthInv'
  BY <1>1 DEF TypeOK, AuthInv, PhaseInv, GrantsOfThisProcess, Authority, Policy, PolicyIn,
              Early, Granted, EngineTypeOK, Load, Resolvable, Goes, Unaudited
<1>4. RowsInv'
  BY <1>1 DEF TypeOK, RowsInv, RowFor, PhaseInv, Load, Resolvable, Goes, Unaudited
<1>5. GrantsOfThisProcess'
  BY <1>1 DEF TypeOK, GrantsOfThisProcess, PhaseInv, Early, EngineTypeOK, engineVars, Load, Resolvable, Goes, Unaudited
<1>6. QED
  BY <1>1, <1>2, <1>3, <1>4, <1>5

LEMMA RefuseEarlyInv == ASSUME IInv, NEW r \in Calls, RefuseEarly(r) PROVE IInv'
<1> USE GateAssumption DEF IInv
<1>1. TypeOK'
  BY DEF TypeOK, EngineTypeOK, EntryStates, PcStates, Choices, Results,
         Refusals, engineVars, RefuseEarly, Returns, Goes, Unaudited
<1>2. PhaseInv'
  BY <1>1 DEF TypeOK, PhaseInv, Early, Refusals, RefuseEarly, Returns, Goes, Unaudited
<1>3. AuthInv'
  BY <1>1 DEF TypeOK, AuthInv, PhaseInv, GrantsOfThisProcess, Authority, Policy, PolicyIn,
              Early, Granted, EngineTypeOK, RefuseEarly, Returns, Goes, Unaudited
<1>4. RowsInv'
  BY <1>1 DEF TypeOK, RowsInv, RowFor, PhaseInv, RefuseEarly, Returns, Goes, Unaudited
<1>5. GrantsOfThisProcess'
  BY <1>1 DEF TypeOK, GrantsOfThisProcess, PhaseInv, Early, EngineTypeOK, engineVars, RefuseEarly, Returns, Goes, Unaudited
<1>6. QED
  BY <1>1, <1>2, <1>3, <1>4, <1>5

LEMMA DecideDenyInv == ASSUME IInv, NEW r \in Calls, DecideDeny(r) PROVE IInv'
<1> USE GateAssumption DEF IInv
<1>0. /\ rows' \in [Calls -> Seq(Outcomes)] /\ lost' \in SUBSET Calls
      /\ \A q \in Calls : q # r => rows'[q] = rows[q] /\ (q \in lost <=> q \in lost')
      /\ \/ rows'[r] = <<>> /\ r \in lost'
         \/ rows'[r] = <<"denied">> /\ lost' = lost
  <2>1. rows[r] = <<>> /\ Audit(r, "denied") /\ "denied" \in Outcomes
    BY DEF RowsInv, TypeOK, Outcomes, DecideDeny, Returns, Goes
  <2>2. QED
    BY <2>1, AuditTypes, AuditRow
<1>1. TypeOK'
  BY <1>0 DEF TypeOK, EngineTypeOK, EntryStates, PcStates, Choices, Results,
         Refusals, engineVars, DecideDeny, Returns, Goes
<1>2. PhaseInv'
  BY <1>1 DEF TypeOK, PhaseInv, Early, Refusals, DecideDeny, Returns, Goes
<1>3. AuthInv'
  BY <1>1 DEF TypeOK, AuthInv, PhaseInv, GrantsOfThisProcess, Authority, Policy, PolicyIn,
              Early, Granted, EngineTypeOK, DecideDeny, Returns, Goes
<1>4. RowsInv'
  BY <1>0, <1>1 DEF TypeOK, RowsInv, RowFor, PhaseInv, DecideDeny, Returns, Goes
<1>5. GrantsOfThisProcess'
  BY <1>1 DEF TypeOK, GrantsOfThisProcess, PhaseInv, Early, EngineTypeOK, engineVars, DecideDeny, Returns, Goes
<1>6. QED
  BY <1>1, <1>2, <1>3, <1>4, <1>5

LEMMA DecideAllowInv == ASSUME IInv, NEW r \in Calls, DecideAllow(r) PROVE IInv'
<1> USE GateAssumption DEF IInv
<1>1. TypeOK'
  BY DEF TypeOK, EngineTypeOK, EntryStates, PcStates, Choices, Results,
         Refusals, engineVars, DecideAllow, Goes, Unaudited
<1>2. PhaseInv'
  BY <1>1 DEF TypeOK, PhaseInv, Early, Refusals, DecideAllow, Goes, Unaudited
<1>3. AuthInv'
  BY <1>1 DEF TypeOK, AuthInv, PhaseInv, GrantsOfThisProcess, Authority, Policy, PolicyIn,
              Early, Granted, EngineTypeOK, DecideAllow, Goes, Unaudited
<1>4. RowsInv'
  BY <1>1 DEF TypeOK, RowsInv, RowFor, PhaseInv, DecideAllow, Goes, Unaudited
<1>5. GrantsOfThisProcess'
  BY <1>1 DEF TypeOK, GrantsOfThisProcess, PhaseInv, Early, EngineTypeOK, engineVars, DecideAllow, Goes, Unaudited
<1>6. QED
  BY <1>1, <1>2, <1>3, <1>4, <1>5

LEMMA AuthenticateInv == ASSUME IInv, NEW r \in Calls, Authenticate(r) PROVE IInv'
<1> USE GateAssumption DEF IInv
<1>1. TypeOK'
  BY DEF TypeOK, EngineTypeOK, EntryStates, PcStates, Choices, Results,
         Refusals, engineVars, Authenticate, Goes, Unaudited
<1>2. PhaseInv'
  BY <1>1 DEF TypeOK, PhaseInv, Early, Refusals, Authenticate, Goes, Unaudited
<1>3. AuthInv'
  BY <1>1 DEF TypeOK, AuthInv, PhaseInv, GrantsOfThisProcess, Authority, Policy, PolicyIn,
              Early, Granted, EngineTypeOK, Authenticate, Goes, Unaudited
<1>4. RowsInv'
  BY <1>1 DEF TypeOK, RowsInv, RowFor, PhaseInv, Authenticate, Goes, Unaudited
<1>5. GrantsOfThisProcess'
  BY <1>1 DEF TypeOK, GrantsOfThisProcess, PhaseInv, Early, EngineTypeOK, engineVars, Authenticate, Goes, Unaudited
<1>6. QED
  BY <1>1, <1>2, <1>3, <1>4, <1>5

LEMMA TouchIdFailsInv == ASSUME IInv, NEW r \in Calls, TouchIdFails(r) PROVE IInv'
<1> USE GateAssumption DEF IInv
<1>0. /\ rows' \in [Calls -> Seq(Outcomes)] /\ lost' \in SUBSET Calls
      /\ \A q \in Calls : q # r => rows'[q] = rows[q] /\ (q \in lost <=> q \in lost')
      /\ \/ rows'[r] = <<>> /\ r \in lost'
         \/ rows'[r] = <<"denied">> /\ lost' = lost
  <2>1. rows[r] = <<>> /\ Audit(r, "denied") /\ "denied" \in Outcomes
    BY DEF RowsInv, TypeOK, Outcomes, TouchIdFails, Returns, Goes
  <2>2. QED
    BY <2>1, AuditTypes, AuditRow
<1>1. TypeOK'
  BY <1>0 DEF TypeOK, EngineTypeOK, EntryStates, PcStates, Choices, Results,
         Refusals, engineVars, TouchIdFails, Returns, Goes
<1>2. PhaseInv'
  BY <1>1 DEF TypeOK, PhaseInv, Early, Refusals, TouchIdFails, Returns, Goes
<1>3. AuthInv'
  BY <1>1 DEF TypeOK, AuthInv, PhaseInv, GrantsOfThisProcess, Authority, Policy, PolicyIn,
              Early, Granted, EngineTypeOK, TouchIdFails, Returns, Goes
<1>4. RowsInv'
  BY <1>0, <1>1 DEF TypeOK, RowsInv, RowFor, PhaseInv, TouchIdFails, Returns, Goes
<1>5. GrantsOfThisProcess'
  BY <1>1 DEF TypeOK, GrantsOfThisProcess, PhaseInv, Early, EngineTypeOK, engineVars, TouchIdFails, Returns, Goes
<1>6. QED
  BY <1>1, <1>2, <1>3, <1>4, <1>5

LEMMA SessionHitInv == ASSUME IInv, NEW r \in Calls, SessionHit(r) PROVE IInv'
<1> USE GateAssumption DEF IInv
<1>1. TypeOK'
  BY DEF TypeOK, EngineTypeOK, EntryStates, PcStates, Choices, Results,
         Refusals, engineVars, SessionHit, SessionCovers, engineVars, Goes, Unaudited
<1>2. PhaseInv'
  BY <1>1 DEF TypeOK, PhaseInv, Early, Refusals, SessionHit, SessionCovers, engineVars, Goes, Unaudited
<1>3. AuthInv'
  <2>1. PICK q \in Calls : choice[q] = "session" /\ KeyOf[q] = KeyOf[r] /\ born[q] = epoch
    BY DEF GrantsOfThisProcess, SessionHit, SessionCovers
  <2>2. born[r] = epoch
    BY DEF PhaseInv, SessionHit, Goes
  <2>3. Authority(r)
    BY <2>1, <2>2 DEF AuthInv, Authority, SessionHit, Goes
  <2>4. QED
    BY <2>3 DEF TypeOK, AuthInv, Authority, Policy, PolicyIn, Early, Granted, SessionHit, SessionCovers, engineVars, Goes, Unaudited
<1>4. RowsInv'
  BY <1>1 DEF TypeOK, RowsInv, RowFor, PhaseInv, SessionHit, SessionCovers, engineVars, Goes, Unaudited
<1>5. GrantsOfThisProcess'
  BY <1>1 DEF TypeOK, GrantsOfThisProcess, PhaseInv, Early, EngineTypeOK, engineVars, SessionHit, SessionCovers, engineVars, Goes, Unaudited
<1>6. QED
  BY <1>1, <1>2, <1>3, <1>4, <1>5

LEMMA SessionMissInv == ASSUME IInv, NEW r \in Calls, SessionMiss(r) PROVE IInv'
<1> USE GateAssumption DEF IInv
<1>1. TypeOK'
  BY DEF TypeOK, EngineTypeOK, EntryStates, PcStates, Choices, Results,
         Refusals, engineVars, SessionMiss, SessionMisses, Goes, Unaudited
<1>2. PhaseInv'
  BY <1>1 DEF TypeOK, PhaseInv, Early, Refusals, SessionMiss, SessionMisses, Goes, Unaudited
<1>3. AuthInv'
  BY <1>1 DEF TypeOK, AuthInv, PhaseInv, GrantsOfThisProcess, Authority, Policy, PolicyIn,
              Early, Granted, EngineTypeOK, SessionMiss, SessionMisses, Goes, Unaudited
<1>4. RowsInv'
  BY <1>1 DEF TypeOK, RowsInv, RowFor, PhaseInv, SessionMiss, SessionMisses, Goes, Unaudited
<1>5. GrantsOfThisProcess'
  BY <1>1 DEF TypeOK, GrantsOfThisProcess, PhaseInv, Early, EngineTypeOK, engineVars, SessionMiss, SessionMisses, Goes, Unaudited
<1>6. QED
  BY <1>1, <1>2, <1>3, <1>4, <1>5

LEMMA SinkUnavailableInv == ASSUME IInv, NEW r \in Calls, SinkUnavailable(r) PROVE IInv'
<1> USE GateAssumption DEF IInv
<1>0. /\ rows' \in [Calls -> Seq(Outcomes)] /\ lost' \in SUBSET Calls
      /\ \A q \in Calls : q # r => rows'[q] = rows[q] /\ (q \in lost <=> q \in lost')
      /\ \/ rows'[r] = <<>> /\ r \in lost'
         \/ rows'[r] = <<"unavailable">> /\ lost' = lost
  <2>1. rows[r] = <<>> /\ Audit(r, "unavailable") /\ "unavailable" \in Outcomes
    BY DEF RowsInv, TypeOK, Outcomes, SinkUnavailable, Chosen, Returns, Goes
  <2>2. QED
    BY <2>1, AuditTypes, AuditRow
<1>1. TypeOK'
  BY <1>0 DEF TypeOK, EngineTypeOK, EntryStates, PcStates, Choices, Results,
         Refusals, engineVars, SinkUnavailable, Chosen, Returns, Goes
<1>2. PhaseInv'
  BY <1>1 DEF TypeOK, PhaseInv, Early, Refusals, SinkUnavailable, Chosen, Returns, Goes
<1>3. AuthInv'
  BY <1>1 DEF TypeOK, AuthInv, PhaseInv, GrantsOfThisProcess, Authority, Policy, PolicyIn,
              Early, Granted, EngineTypeOK, SinkUnavailable, Chosen, Returns, Goes
<1>4. RowsInv'
  BY <1>0, <1>1 DEF TypeOK, RowsInv, RowFor, PhaseInv, SinkUnavailable, Chosen, Returns, Goes
<1>5. GrantsOfThisProcess'
  BY <1>1 DEF TypeOK, GrantsOfThisProcess, PhaseInv, Early, EngineTypeOK, engineVars, SinkUnavailable, Chosen, Returns, Goes
<1>6. QED
  BY <1>1, <1>2, <1>3, <1>4, <1>5

LEMMA SinkDeclinesInv == ASSUME IInv, NEW r \in Calls, SinkDeclines(r) PROVE IInv'
<1> USE GateAssumption DEF IInv
<1>0. /\ rows' \in [Calls -> Seq(Outcomes)] /\ lost' \in SUBSET Calls
      /\ \A q \in Calls : q # r => rows'[q] = rows[q] /\ (q \in lost <=> q \in lost')
      /\ \/ rows'[r] = <<>> /\ r \in lost'
         \/ rows'[r] = <<"declined">> /\ lost' = lost
  <2>1. rows[r] = <<>> /\ Audit(r, "declined") /\ "declined" \in Outcomes
    BY DEF RowsInv, TypeOK, Outcomes, SinkDeclines, Chosen, Returns, Goes
  <2>2. QED
    BY <2>1, AuditTypes, AuditRow
<1>1. TypeOK'
  BY <1>0 DEF TypeOK, EngineTypeOK, EntryStates, PcStates, Choices, Results,
         Refusals, engineVars, SinkDeclines, Chosen, Returns, Goes
<1>2. PhaseInv'
  BY <1>1 DEF TypeOK, PhaseInv, Early, Refusals, SinkDeclines, Chosen, Returns, Goes
<1>3. AuthInv'
  BY <1>1 DEF TypeOK, AuthInv, PhaseInv, GrantsOfThisProcess, Authority, Policy, PolicyIn,
              Early, Granted, EngineTypeOK, SinkDeclines, Chosen, Returns, Goes
<1>4. RowsInv'
  BY <1>0, <1>1 DEF TypeOK, RowsInv, RowFor, PhaseInv, SinkDeclines, Chosen, Returns, Goes
<1>5. GrantsOfThisProcess'
  BY <1>1 DEF TypeOK, GrantsOfThisProcess, PhaseInv, Early, EngineTypeOK, engineVars, SinkDeclines, Chosen, Returns, Goes
<1>6. QED
  BY <1>1, <1>2, <1>3, <1>4, <1>5

LEMMA SinkGrantsSessionInv == ASSUME IInv, NEW r \in Calls, SinkGrantsSession(r) PROVE IInv'
<1> USE GateAssumption DEF IInv
<1>1. TypeOK'
  BY DEF TypeOK, EngineTypeOK, EntryStates, PcStates, Choices, Results,
         Refusals, engineVars, SinkGrantsSession, Chosen, GrantSession, Goes, Unaudited
<1>2. PhaseInv'
  BY <1>1 DEF TypeOK, PhaseInv, Early, Refusals, SinkGrantsSession, Chosen, GrantSession, Goes, Unaudited
<1>3. AuthInv'
  BY <1>1 DEF TypeOK, AuthInv, PhaseInv, GrantsOfThisProcess, Authority, Policy, PolicyIn,
              Early, Granted, EngineTypeOK, SinkGrantsSession, Chosen, GrantSession, Goes, Unaudited
<1>4. RowsInv'
  BY <1>1 DEF TypeOK, RowsInv, RowFor, PhaseInv, SinkGrantsSession, Chosen, GrantSession, Goes, Unaudited
<1>5. GrantsOfThisProcess'
  <2>1. choice[r] = "none" /\ choice' = [choice EXCEPT ![r] = "session"]
    BY DEF PhaseInv, Early, SinkGrantsSession, Chosen, Goes
  <2>2. choice'[r] = "session" /\ born'[r] = epoch'
    BY <2>1 DEF TypeOK, PhaseInv, SinkGrantsSession, Goes
  <2>3. SUFFICES ASSUME NEW k \in Keys, sessions'[k] # "absent"
                 PROVE  \E q \in Calls : choice'[q] = "session" /\ KeyOf[q] = k /\ born'[q] = epoch'
    BY DEF GrantsOfThisProcess
  <2>4. CASE k = KeyOf[r]
    BY <2>2, <2>4
  <2>5. CASE k # KeyOf[r]
    <3>1. sessions[k] # "absent"
      BY <2>3, <2>5 DEF TypeOK, EngineTypeOK, SinkGrantsSession, GrantSession
    <3>2. PICK q \in Calls : choice[q] = "session" /\ KeyOf[q] = k /\ born[q] = epoch
      BY <3>1 DEF GrantsOfThisProcess
    <3>3. choice'[q] = "session" /\ born'[q] = epoch'
      BY <2>1, <3>2 DEF TypeOK, SinkGrantsSession
    <3>4. QED
      BY <3>2, <3>3
  <2>6. QED
    BY <2>4, <2>5
<1>6. QED
  BY <1>1, <1>2, <1>3, <1>4, <1>5

LEMMA SinkGrantsOnceInv == ASSUME IInv, NEW r \in Calls, SinkGrantsOnce(r) PROVE IInv'
<1> USE GateAssumption DEF IInv
<1>1. TypeOK'
  BY DEF TypeOK, EngineTypeOK, EntryStates, PcStates, Choices, Results,
         Refusals, engineVars, SinkGrantsOnce, Chosen, GrantOnce, Goes, Unaudited
<1>2. PhaseInv'
  BY <1>1 DEF TypeOK, PhaseInv, Early, Refusals, SinkGrantsOnce, Chosen, GrantOnce, Goes, Unaudited
<1>3. AuthInv'
  BY <1>1 DEF TypeOK, AuthInv, PhaseInv, GrantsOfThisProcess, Authority, Policy, PolicyIn,
              Early, Granted, EngineTypeOK, SinkGrantsOnce, Chosen, GrantOnce, Goes, Unaudited
<1>4. RowsInv'
  BY <1>1 DEF TypeOK, RowsInv, RowFor, PhaseInv, SinkGrantsOnce, Chosen, GrantOnce, Goes, Unaudited
<1>5. GrantsOfThisProcess'
  BY <1>1 DEF TypeOK, GrantsOfThisProcess, PhaseInv, Early, EngineTypeOK, engineVars, SinkGrantsOnce, Chosen, GrantOnce, Goes, Unaudited
<1>6. QED
  BY <1>1, <1>2, <1>3, <1>4, <1>5

LEMMA RevalidateInv == ASSUME IInv, NEW r \in Calls, Revalidate(r) PROVE IInv'
<1> USE GateAssumption DEF IInv
<1>1. TypeOK'
  BY DEF TypeOK, EngineTypeOK, EntryStates, PcStates, Choices, Results,
         Refusals, engineVars, Revalidate, Goes, Unaudited
<1>2. PhaseInv'
  BY <1>1 DEF TypeOK, PhaseInv, Early, Refusals, Revalidate, Goes, Unaudited
<1>3. AuthInv'
  BY <1>1 DEF TypeOK, AuthInv, PhaseInv, GrantsOfThisProcess, Authority, Policy, PolicyIn,
              Early, Granted, EngineTypeOK, Revalidate, Goes, Unaudited
<1>4. RowsInv'
  BY <1>1 DEF TypeOK, RowsInv, RowFor, PhaseInv, Revalidate, Goes, Unaudited
<1>5. GrantsOfThisProcess'
  BY <1>1 DEF TypeOK, GrantsOfThisProcess, PhaseInv, Early, EngineTypeOK, engineVars, Revalidate, Goes, Unaudited
<1>6. QED
  BY <1>1, <1>2, <1>3, <1>4, <1>5

LEMMA PolicyChangedInv == ASSUME IInv, NEW r \in Calls, PolicyChanged(r) PROVE IInv'
<1> USE GateAssumption DEF IInv
<1>0. /\ rows' \in [Calls -> Seq(Outcomes)] /\ lost' \in SUBSET Calls
      /\ \A q \in Calls : q # r => rows'[q] = rows[q] /\ (q \in lost <=> q \in lost')
      /\ \/ rows'[r] = <<>> /\ r \in lost'
         \/ rows'[r] = <<"denied">> /\ lost' = lost
  <2>1. rows[r] = <<>> /\ Audit(r, "denied") /\ "denied" \in Outcomes
    BY DEF RowsInv, TypeOK, Outcomes, PolicyChanged, Returns, Goes
  <2>2. QED
    BY <2>1, AuditTypes, AuditRow
<1>1. TypeOK'
  BY <1>0 DEF TypeOK, EngineTypeOK, EntryStates, PcStates, Choices, Results,
         Refusals, engineVars, PolicyChanged, Returns, Goes
<1>2. PhaseInv'
  BY <1>1 DEF TypeOK, PhaseInv, Early, Refusals, PolicyChanged, Returns, Goes
<1>3. AuthInv'
  BY <1>1 DEF TypeOK, AuthInv, PhaseInv, GrantsOfThisProcess, Authority, Policy, PolicyIn,
              Early, Granted, EngineTypeOK, PolicyChanged, Returns, Goes
<1>4. RowsInv'
  BY <1>0, <1>1 DEF TypeOK, RowsInv, RowFor, PhaseInv, PolicyChanged, Returns, Goes
<1>5. GrantsOfThisProcess'
  BY <1>1 DEF TypeOK, GrantsOfThisProcess, PhaseInv, Early, EngineTypeOK, engineVars, PolicyChanged, Returns, Goes
<1>6. QED
  BY <1>1, <1>2, <1>3, <1>4, <1>5

LEMMA RevalidationFailsInv == ASSUME IInv, NEW r \in Calls, RevalidationFails(r) PROVE IInv'
<1> USE GateAssumption DEF IInv
<1>1. TypeOK'
  BY DEF TypeOK, EngineTypeOK, EntryStates, PcStates, Choices, Results,
         Refusals, engineVars, RevalidationFails, Returns, Goes, Unaudited
<1>2. PhaseInv'
  BY <1>1 DEF TypeOK, PhaseInv, Early, Refusals, RevalidationFails, Returns, Goes, Unaudited
<1>3. AuthInv'
  BY <1>1 DEF TypeOK, AuthInv, PhaseInv, GrantsOfThisProcess, Authority, Policy, PolicyIn,
              Early, Granted, EngineTypeOK, RevalidationFails, Returns, Goes, Unaudited
<1>4. RowsInv'
  BY <1>1 DEF TypeOK, RowsInv, RowFor, PhaseInv, RevalidationFails, Returns, Goes, Unaudited
<1>5. GrantsOfThisProcess'
  BY <1>1 DEF TypeOK, GrantsOfThisProcess, PhaseInv, Early, EngineTypeOK, engineVars, RevalidationFails, Returns, Goes, Unaudited
<1>6. QED
  BY <1>1, <1>2, <1>3, <1>4, <1>5

LEMMA NothingToConsumeInv == ASSUME IInv, NEW r \in Calls, NothingToConsume(r) PROVE IInv'
<1> USE GateAssumption DEF IInv
<1>1. TypeOK'
  BY DEF TypeOK, EngineTypeOK, EntryStates, PcStates, Choices, Results,
         Refusals, engineVars, NothingToConsume, Goes, Unaudited
<1>2. PhaseInv'
  BY <1>1 DEF TypeOK, PhaseInv, Early, Refusals, NothingToConsume, Goes, Unaudited
<1>3. AuthInv'
  BY <1>1 DEF TypeOK, AuthInv, PhaseInv, GrantsOfThisProcess, Authority, Policy, PolicyIn,
              Early, Granted, EngineTypeOK, NothingToConsume, Goes, Unaudited
<1>4. RowsInv'
  BY <1>1 DEF TypeOK, RowsInv, RowFor, PhaseInv, NothingToConsume, Goes, Unaudited
<1>5. GrantsOfThisProcess'
  BY <1>1 DEF TypeOK, GrantsOfThisProcess, PhaseInv, Early, EngineTypeOK, engineVars, NothingToConsume, Goes, Unaudited
<1>6. QED
  BY <1>1, <1>2, <1>3, <1>4, <1>5

LEMMA ConsumeApprovalInv == ASSUME IInv, NEW r \in Calls, ConsumeApproval(r) PROVE IInv'
<1> USE GateAssumption DEF IInv
<1>1. TypeOK'
  BY DEF TypeOK, EngineTypeOK, EntryStates, PcStates, Choices, Results,
         Refusals, engineVars, ConsumeApproval, ConsumeOk, Consume, Goes, Unaudited
<1>2. PhaseInv'
  BY <1>1 DEF TypeOK, PhaseInv, Early, Refusals, ConsumeApproval, ConsumeOk, Consume, Goes, Unaudited
<1>3. AuthInv'
  BY <1>1 DEF TypeOK, AuthInv, PhaseInv, GrantsOfThisProcess, Authority, Policy, PolicyIn,
              Early, Granted, EngineTypeOK, ConsumeApproval, ConsumeOk, Consume, Goes, Unaudited
<1>4. RowsInv'
  BY <1>1 DEF TypeOK, RowsInv, RowFor, PhaseInv, ConsumeApproval, ConsumeOk, Consume, Goes, Unaudited
<1>5. GrantsOfThisProcess'
  BY <1>1 DEF TypeOK, GrantsOfThisProcess, PhaseInv, Early, EngineTypeOK, engineVars, ConsumeApproval, ConsumeOk, Consume, Goes, Unaudited
<1>6. QED
  BY <1>1, <1>2, <1>3, <1>4, <1>5

LEMMA ApprovalExpiredInv == ASSUME IInv, NEW r \in Calls, ApprovalExpired(r) PROVE IInv'
<1> USE GateAssumption DEF IInv
<1>1. TypeOK'
  BY DEF TypeOK, EngineTypeOK, EntryStates, PcStates, Choices, Results,
         Refusals, engineVars, ApprovalExpired, ConsumeFails, Consume, Returns, Goes, Unaudited
<1>2. PhaseInv'
  BY <1>1 DEF TypeOK, PhaseInv, Early, Refusals, ApprovalExpired, ConsumeFails, Consume, Returns, Goes, Unaudited
<1>3. AuthInv'
  BY <1>1 DEF TypeOK, AuthInv, PhaseInv, GrantsOfThisProcess, Authority, Policy, PolicyIn,
              Early, Granted, EngineTypeOK, ApprovalExpired, ConsumeFails, Consume, Returns, Goes, Unaudited
<1>4. RowsInv'
  BY <1>1 DEF TypeOK, RowsInv, RowFor, PhaseInv, ApprovalExpired, ConsumeFails, Consume, Returns, Goes, Unaudited
<1>5. GrantsOfThisProcess'
  BY <1>1 DEF TypeOK, GrantsOfThisProcess, PhaseInv, Early, EngineTypeOK, engineVars, ApprovalExpired, ConsumeFails, Consume, Returns, Goes, Unaudited
<1>6. QED
  BY <1>1, <1>2, <1>3, <1>4, <1>5

LEMMA NoPasswordInv == ASSUME IInv, NEW r \in Calls, NoPassword(r) PROVE IInv'
<1> USE GateAssumption DEF IInv
<1>0. /\ rows' \in [Calls -> Seq(Outcomes)] /\ lost' \in SUBSET Calls
      /\ \A q \in Calls : q # r => rows'[q] = rows[q] /\ (q \in lost <=> q \in lost')
      /\ \/ rows'[r] = <<>> /\ r \in lost'
         \/ rows'[r] = <<"denied">> /\ lost' = lost
  <2>1. rows[r] = <<>> /\ Audit(r, "denied") /\ "denied" \in Outcomes
    BY DEF RowsInv, TypeOK, Outcomes, NoPassword, Returns, Goes
  <2>2. QED
    BY <2>1, AuditTypes, AuditRow
<1>1. TypeOK'
  BY <1>0 DEF TypeOK, EngineTypeOK, EntryStates, PcStates, Choices, Results,
         Refusals, engineVars, NoPassword, Returns, Goes
<1>2. PhaseInv'
  BY <1>1 DEF TypeOK, PhaseInv, Early, Refusals, NoPassword, Returns, Goes
<1>3. AuthInv'
  BY <1>1 DEF TypeOK, AuthInv, PhaseInv, GrantsOfThisProcess, Authority, Policy, PolicyIn,
              Early, Granted, EngineTypeOK, NoPassword, Returns, Goes
<1>4. RowsInv'
  BY <1>0, <1>1 DEF TypeOK, RowsInv, RowFor, PhaseInv, NoPassword, Returns, Goes
<1>5. GrantsOfThisProcess'
  BY <1>1 DEF TypeOK, GrantsOfThisProcess, PhaseInv, Early, EngineTypeOK, engineVars, NoPassword, Returns, Goes
<1>6. QED
  BY <1>1, <1>2, <1>3, <1>4, <1>5

LEMMA ExecuteOkInv == ASSUME IInv, NEW r \in Calls, ExecuteOk(r) PROVE IInv'
<1> USE GateAssumption DEF IInv
<1>1. TypeOK'
  BY DEF TypeOK, EngineTypeOK, EntryStates, PcStates, Choices, Results,
         Refusals, engineVars, ExecuteOk, Applied, Goes, Unaudited, PhaseInv
<1>2. PhaseInv'
  BY <1>1 DEF TypeOK, PhaseInv, Early, Refusals, ExecuteOk, Applied, Goes, Unaudited
<1>3. AuthInv'
  BY <1>1 DEF TypeOK, AuthInv, PhaseInv, GrantsOfThisProcess, Authority, Policy, PolicyIn,
              Early, Granted, EngineTypeOK, ExecuteOk, Applied, Goes, Unaudited
<1>4. RowsInv'
  BY <1>1 DEF TypeOK, RowsInv, RowFor, PhaseInv, ExecuteOk, Applied, Goes, Unaudited
<1>5. GrantsOfThisProcess'
  BY <1>1 DEF TypeOK, GrantsOfThisProcess, PhaseInv, Early, EngineTypeOK, engineVars, ExecuteOk, Applied, Goes, Unaudited
<1>6. QED
  BY <1>1, <1>2, <1>3, <1>4, <1>5

LEMMA ExecuteFailsInv == ASSUME IInv, NEW r \in Calls, ExecuteFails(r) PROVE IInv'
<1> USE GateAssumption DEF IInv
<1>1. TypeOK'
  <2>1. effect' \in [Calls -> Nat]
    BY DEF TypeOK, PhaseInv, ExecuteFails, Applied, Goes, Unaudited
  <2>2. QED
    BY <2>1 DEF TypeOK, EngineTypeOK, EntryStates, PcStates, engineVars, ExecuteFails, Goes, Unaudited
<1>2. PhaseInv'
  BY <1>1 DEF TypeOK, PhaseInv, Early, Refusals, ExecuteFails, Applied, Goes, Unaudited
<1>3. AuthInv'
  BY <1>1 DEF TypeOK, AuthInv, PhaseInv, GrantsOfThisProcess, Authority, Policy, PolicyIn,
              Early, Granted, EngineTypeOK, ExecuteFails, Applied, Goes, Unaudited
<1>4. RowsInv'
  BY <1>1 DEF TypeOK, RowsInv, RowFor, PhaseInv, ExecuteFails, Applied, Goes, Unaudited
<1>5. GrantsOfThisProcess'
  BY <1>1 DEF TypeOK, GrantsOfThisProcess, PhaseInv, Early, EngineTypeOK, engineVars, ExecuteFails, Applied, Goes, Unaudited
<1>6. QED
  BY <1>1, <1>2, <1>3, <1>4, <1>5

LEMMA ReportOkInv == ASSUME IInv, NEW r \in Calls, ReportOk(r) PROVE IInv'
<1> USE GateAssumption DEF IInv
<1>0. /\ rows' \in [Calls -> Seq(Outcomes)] /\ lost' \in SUBSET Calls
      /\ \A q \in Calls : q # r => rows'[q] = rows[q] /\ (q \in lost <=> q \in lost')
      /\ \/ rows'[r] = <<>> /\ r \in lost'
         \/ rows'[r] = <<"approved">> /\ lost' = lost
  <2>1. rows[r] = <<>> /\ Audit(r, "approved") /\ "approved" \in Outcomes
    BY DEF RowsInv, TypeOK, Outcomes, ReportOk, Returns, Goes
  <2>2. QED
    BY <2>1, AuditTypes, AuditRow
<1>1. TypeOK'
  BY <1>0 DEF TypeOK, EngineTypeOK, EntryStates, PcStates, Choices, Results,
         Refusals, engineVars, ReportOk, Returns, Goes
<1>2. PhaseInv'
  BY <1>1 DEF TypeOK, PhaseInv, Early, Refusals, ReportOk, Returns, Goes
<1>3. AuthInv'
  BY <1>1 DEF TypeOK, AuthInv, PhaseInv, GrantsOfThisProcess, Authority, Policy, PolicyIn,
              Early, Granted, EngineTypeOK, ReportOk, Returns, Goes
<1>4. RowsInv'
  BY <1>0, <1>1 DEF TypeOK, RowsInv, RowFor, PhaseInv, ReportOk, Returns, Goes
<1>5. GrantsOfThisProcess'
  BY <1>1 DEF TypeOK, GrantsOfThisProcess, PhaseInv, Early, EngineTypeOK, engineVars, ReportOk, Returns, Goes
<1>6. QED
  BY <1>1, <1>2, <1>3, <1>4, <1>5

LEMMA ReportErrorInv == ASSUME IInv, NEW r \in Calls, ReportError(r) PROVE IInv'
<1> USE GateAssumption DEF IInv
<1>0. /\ rows' \in [Calls -> Seq(Outcomes)] /\ lost' \in SUBSET Calls
      /\ \A q \in Calls : q # r => rows'[q] = rows[q] /\ (q \in lost <=> q \in lost')
      /\ \/ rows'[r] = <<>> /\ r \in lost'
         \/ rows'[r] = <<"execution_error">> /\ lost' = lost
  <2>1. rows[r] = <<>> /\ Audit(r, "execution_error") /\ "execution_error" \in Outcomes
    BY DEF RowsInv, TypeOK, Outcomes, ReportError, Returns, Goes
  <2>2. QED
    BY <2>1, AuditTypes, AuditRow
<1>1. TypeOK'
  BY <1>0 DEF TypeOK, EngineTypeOK, EntryStates, PcStates, Choices, Results,
         Refusals, engineVars, ReportError, Returns, Goes
<1>2. PhaseInv'
  BY <1>1 DEF TypeOK, PhaseInv, Early, Refusals, ReportError, Returns, Goes
<1>3. AuthInv'
  BY <1>1 DEF TypeOK, AuthInv, PhaseInv, GrantsOfThisProcess, Authority, Policy, PolicyIn,
              Early, Granted, EngineTypeOK, ReportError, Returns, Goes
<1>4. RowsInv'
  BY <1>0, <1>1 DEF TypeOK, RowsInv, RowFor, PhaseInv, ReportError, Returns, Goes
<1>5. GrantsOfThisProcess'
  BY <1>1 DEF TypeOK, GrantsOfThisProcess, PhaseInv, Early, EngineTypeOK, engineVars, ReportError, Returns, Goes
<1>6. QED
  BY <1>1, <1>2, <1>3, <1>4, <1>5

-----------------------------------------------------------------------------
(* Config edits and expiries leave every call as it is. *)
LEMMA EditConfigInv == ASSUME IInv, EditConfig PROVE IInv'
<1> USE GateAssumption DEF IInv
<1>1. cfg' \in Configs
  <2>1. \A k \in Keys, p \in Policies : [cfg.policy EXCEPT ![k] = p] \in [Keys -> Policies]
    BY DEF TypeOK, Configs
  <2>2. cfg.rev + 1 \in 0..MaxRev
    BY DEF TypeOK, EditConfig, Configs
  <2>3. cfg.conns \in SUBSET Keys /\ cfg.policy \in [Keys -> Policies]
    BY DEF TypeOK, Configs
  <2>4. PICK c \in SUBSET Keys, p \in [Keys -> Policies] : Written(c, p)
    BY <2>1, <2>3 DEF EditConfig
  <2>5. QED
    BY <2>2, <2>4 DEF Written, Configs
<1>2. TypeOK' /\ PhaseInv' /\ RowsInv'
  BY <1>1 DEF TypeOK, EngineTypeOK, PhaseInv, RowsInv, RowFor, EditConfig, engineVars, callVars
<1>3. AuthInv' /\ GrantsOfThisProcess'
  <2>1. UNCHANGED <<sessions, epoch, pc, seen, born, auth, choice, effect>>
    BY DEF EditConfig, engineVars, callVars
  <2>2. QED
    BY <2>1 DEF AuthInv, Authority, Policy, PolicyIn, GrantsOfThisProcess
<1>4. QED
  BY <1>2, <1>3

LEMMA ExpireInv == ASSUME IInv, Expire PROVE IInv'
<1> USE GateAssumption DEF IInv
<1>1. /\ EngineTypeOK'
      /\ \A k \in Keys : sessions'[k] # "absent" => sessions[k] # "absent"
  BY DEF TypeOK, EngineTypeOK, EntryStates, Expire, OneShotExpires, SessionExpires
<1>2. UNCHANGED <<cfg, epoch, callVars>>
  BY DEF Expire
<1>3. TypeOK' /\ PhaseInv' /\ RowsInv'
  BY <1>1, <1>2 DEF TypeOK, PhaseInv, RowsInv, RowFor, callVars
<1>4. AuthInv' /\ GrantsOfThisProcess'
  BY <1>1, <1>2 DEF AuthInv, Authority, Policy, PolicyIn, GrantsOfThisProcess, callVars
<1>5. QED
  BY <1>3, <1>4

(* A restart forgets every grant; a statement it interrupts was applied at *)
(* most once, and had its authority.                                       *)
LEMMA RestartInv == ASSUME IInv, Restart PROVE IInv'
<1> USE GateAssumption DEF IInv
<1>1. \A r \in Calls : /\ pc[r] # "execute" => effect'[r] = effect[r]
                       /\ effect'[r] \in {effect[r], effect[r] + 1}
  BY DEF Restart
<1>2. TypeOK'
  <2>1. effect' \in [Calls -> Nat]
    BY DEF Restart, TypeOK
  <2>2. epoch' \in 0..MaxRestarts
    BY DEF Restart, TypeOK
  <2>3. QED
    BY <2>1, <2>2 DEF Restart, TypeOK, EngineTypeOK, EngineLost, EntryStates, PcStates
<1>3. PhaseInv'
  BY <1>1 DEF PhaseInv, Restart, TypeOK, PcStates, Early, Refusals
<1>4. AuthInv'
  <2>1. \A r \in Calls : effect'[r] > 0 => pc[r] \in Granted \/ effect[r] > 0
    BY <1>1 DEF Granted, TypeOK
  <2>2. QED
    BY <2>1 DEF AuthInv, Restart, Authority, Policy, PolicyIn, Granted, TypeOK
<1>5. RowsInv'
  BY DEF RowsInv, RowFor, Restart, TypeOK
<1>6. GrantsOfThisProcess'
  BY DEF GrantsOfThisProcess, Restart, EngineLost
<1>7. QED
  BY <1>2, <1>3, <1>4, <1>5, <1>6

LEMMA StutterInv == ASSUME IInv, UNCHANGED vars PROVE IInv'
BY DEF IInv, TypeOK, EngineTypeOK, PhaseInv, AuthInv, Authority, Policy, PolicyIn, RowsInv,
       RowFor, GrantsOfThisProcess, vars, callVars, engineVars

LEMMA StepInv == IInv /\ [Next]_vars => IInv'
<1> SUFFICES ASSUME IInv, [Next]_vars PROVE IInv'
  OBVIOUS
<1>1. ASSUME NEW r \in Calls, Load(r) \/ RefuseEarly(r) \/ Step(r) \/ Sink(r)
      PROVE  IInv'
  BY <1>1, LoadInv, RefuseEarlyInv, DecideDenyInv, DecideAllowInv, AuthenticateInv,
     TouchIdFailsInv, SessionHitInv, SessionMissInv, SinkUnavailableInv, SinkDeclinesInv,
     SinkGrantsSessionInv, SinkGrantsOnceInv, RevalidateInv, PolicyChangedInv,
     RevalidationFailsInv, NothingToConsumeInv, ConsumeApprovalInv, ApprovalExpiredInv,
     NoPasswordInv, ExecuteOkInv, ExecuteFailsInv, ReportOkInv, ReportErrorInv
     DEF Step, Sink
<1>2. CASE Environment
  BY <1>2, EditConfigInv, ExpireInv, RestartInv DEF Environment
<1>3. CASE UNCHANGED vars
  BY <1>3, StutterInv
<1>4. QED
  BY <1>1, <1>2, <1>3 DEF Next

-----------------------------------------------------------------------------
(* The inductive invariant of the gate. *)
THEOREM GateInvariant == Spec => []IInv
<1>1. QED
  BY InitInv, StepInv, PTL DEF Spec

(* Every variable of the gate keeps its type. *)
THEOREM GateTypeCorrect == Spec => []TypeOK
<1>1. IInv => TypeOK
  BY DEF IInv
<1>2. QED
  BY <1>1, GateInvariant, PTL

(* No statement takes effect without an authority given for it: an allow   *)
(* rule, or a confirm rule with a choice of the user made for this call or *)
(* for its key in the same process, and Touch ID where it is required.     *)
THEOREM GateExecutedOnAuthority == Spec => []ExecutedOnAuthority
<1>1. IInv => ExecutedOnAuthority
  BY DEF IInv, AuthInv, ExecutedOnAuthority
<1>2. QED
  BY <1>1, GateInvariant, PTL

(* run_sql applies a statement at most once, through failures and restarts. *)
THEOREM GateAppliedAtMostOnce == Spec => []AppliedAtMostOnce
<1>1. IInv => AppliedAtMostOnce
  <2>1. ASSUME IInv, NEW r \in Calls PROVE effect[r] \in {0, 1}
    BY <2>1 DEF IInv, TypeOK, PcStates, PhaseInv, Early
  <2>2. QED
    BY <2>1 DEF AppliedAtMostOnce
<1>2. QED
  BY <1>1, GateInvariant, PTL

(* A call that run_sql refused has changed nothing in the database. *)
THEOREM GateRefusalsInert == Spec => []RefusalsInert
<1>1. IInv => RefusalsInert
  BY DEF IInv, PhaseInv, RefusalsInert
<1>2. QED
  BY <1>1, GateInvariant, PTL

(* A request leaves at most one audit row, and it tells what happened. *)
THEOREM GateAuditTruthful == Spec => []AuditTruthful
<1>1. IInv => AuditTruthful
  <2> SUFFICES ASSUME IInv, NEW r \in Calls
               PROVE  /\ Len(rows[r]) <= 1
                      /\ rows[r] # <<>> => /\ pc[r] \in {"done", "dead"}
                                           /\ rows[r] = <<RowFor(r)>>
    BY DEF AuditTruthful
  <2>1. rows[r] = <<>> \/ rows[r] = <<RowFor(r)>>
    BY DEF IInv, RowsInv
  <2>2. rows[r] # <<>> => pc[r] = "done"
    BY DEF IInv, RowsInv
  <2>3. Len(<<>>) <= 1 /\ Len(<<RowFor(r)>>) <= 1
    OBVIOUS
  <2>4. Len(rows[r]) <= 1
    BY <2>1, <2>3, Zenon
  <2>5. QED
    BY <2>1, <2>2, <2>4
<1>2. QED
  BY <1>1, GateInvariant, PTL

(* A success is audited, or reported to the caller as unaudited. *)
THEOREM GateSuccessAudited == Spec => []SuccessAudited
<1>1. IInv => SuccessAudited
  BY DEF IInv, RowsInv, SuccessAudited
<1>2. QED
  BY <1>1, GateInvariant, PTL

(* A session grant in the engine is the trace of a session choice made in  *)
(* the running process: a restart leaves none behind.                      *)
THEOREM GateGrantsOfThisProcess == Spec => []GrantsOfThisProcess
<1>1. IInv => GrantsOfThisProcess
  BY DEF IInv
<1>2. QED
  BY <1>1, GateInvariant, PTL

-----------------------------------------------------------------------------
(* Revalidation compares revisions before policies.  That is sound because *)
(* a revision names one config: what a call loaded is the current config   *)
(* whenever their revisions agree.                                         *)
SeenInv == \A r \in Calls : /\ seen[r].rev <= cfg.rev
                            /\ seen[r].rev = cfg.rev => seen[r] = cfg

LEMMA SeenStep == TypeOK /\ SeenInv /\ [Next]_vars => SeenInv'
<1> SUFFICES ASSUME TypeOK, SeenInv, [Next]_vars PROVE SeenInv'
  OBVIOUS
<1> USE GateAssumption
<1>1. ASSUME NEW r \in Calls, Load(r) PROVE SeenInv'
  BY <1>1 DEF SeenInv, Load, TypeOK, Configs
<1>2. CASE EditConfig
  <2>1. cfg'.rev = cfg.rev + 1 /\ cfg.rev \in Nat /\ seen' = seen
    BY <1>2 DEF EditConfig, Written, callVars, TypeOK, Configs
  <2>2. \A r \in Calls : seen[r].rev \in Nat
    BY DEF TypeOK, Configs
  <2>3. QED
    BY <2>1, <2>2 DEF SeenInv
<1>3. CASE UNCHANGED <<cfg, seen>>
  BY <1>3 DEF SeenInv
<1>4. ASSUME NEW r \in Calls, Step(r) \/ Sink(r) \/ RefuseEarly(r)
      PROVE  UNCHANGED <<cfg, seen>>
  BY <1>4 DEF Step, Sink, RefuseEarly, DecideDeny, DecideAllow, Authenticate, TouchIdFails,
     SessionHit, SessionMiss, SinkUnavailable, SinkDeclines, SinkGrantsSession,
     SinkGrantsOnce, Revalidate, PolicyChanged, RevalidationFails, NothingToConsume,
     ConsumeApproval, ApprovalExpired, NoPassword, ExecuteOk, ExecuteFails, ReportOk,
     ReportError
<1>5. CASE Expire \/ Restart \/ UNCHANGED vars
  BY <1>5, <1>3 DEF Expire, Restart, vars, callVars
<1>6. QED
  BY <1>1, <1>2, <1>3, <1>4, <1>5 DEF Next, Environment

(* However long its prompt stays open, a call passes revalidation only     *)
(* while its policy action is the one it was decided on.                   *)
THEOREM GateRevalidatedAction == Spec => RevalidatedAction
<1> DEFINE Same == \A r \in Calls : pc[r] = "revalidate" /\ pc'[r] = "consume" =>
                     PolicyIn(cfg, r).action = Policy(r).action
<1>1. Init => SeenInv
  BY GateAssumption DEF Init, SeenInv
<1>2. Spec => []SeenInv
  BY <1>1, SeenStep, GateTypeCorrect, PTL DEF Spec
<1>3. TypeOK /\ SeenInv /\ [Next]_vars => [Same]_vars
  <2> SUFFICES ASSUME TypeOK, SeenInv, Next, NEW q \in Calls,
                      pc[q] = "revalidate", pc'[q] = "consume"
               PROVE  PolicyIn(cfg, q).action = Policy(q).action
    OBVIOUS
  <2>1. StillValid(q)
    <3>1. ASSUME NEW r \in Calls, Load(r) \/ RefuseEarly(r) \/ Step(r) \/ Sink(r)
          PROVE  Revalidate(q)
      BY <3>1 DEF TypeOK, Load, RefuseEarly, Returns, Goes, Step, Sink, DecideDeny, DecideAllow,
         Authenticate, TouchIdFails, SessionHit, SessionMiss, SinkUnavailable, SinkDeclines,
         SinkGrantsSession, SinkGrantsOnce, Revalidate, PolicyChanged, RevalidationFails,
         NothingToConsume, ConsumeApproval, ApprovalExpired, NoPassword, ExecuteOk,
         ExecuteFails, ReportOk, ReportError
    <3>2. ~Environment
      BY DEF Environment, EditConfig, Expire, Restart, callVars
    <3>3. QED
      BY <3>1, <3>2 DEF Next, Revalidate
  <2>2. QED
    BY <2>1 DEF StillValid, SeenInv, Policy
<1>4. QED
  BY <1>2, <1>3, GateTypeCorrect, PTL DEF Spec, RevalidatedAction

-----------------------------------------------------------------------------
(***************************************************************************)
(* The gate implements its contract (module GateContract), for any calls,  *)
(* keys, revisions and restarts.  Beside the inductive invariant IInv the  *)
(* mapping needs ReachInv: a call has no scope before it is granted one, a *)
(* one-time approval is gone once its statement executes, and no call is   *)
(* of a process generation still to come.                                  *)
(***************************************************************************)
ReachInv ==
  \A r \in Calls :
    /\ pc[r] \in Early => scope[r] = "none"
    /\ pc[r] = "execute" /\ scope[r] = "once" => oneShots[r] = "absent"
    /\ born[r] <= epoch

Stage  == [r \in Calls |-> StageOf(r)]
Demand == [r \in Calls |-> Policy(r).action]
Answer == [r \in Calls |-> IF choice[r] \in {"once", "session"} THEN choice[r] ELSE "none"]

-----------------------------------------------------------------------------
LEMMA ReachInit == Init => ReachInv
  BY GateAssumption DEF Init, ReachInv

LEMMA ReachCall ==
  ASSUME IInv, ReachInv, NEW r \in Calls, Load(r) \/ RefuseEarly(r) \/ Step(r) \/ Sink(r)
  PROVE  ReachInv'
<1> USE GateAssumption DEF IInv, TypeOK, EngineTypeOK, EntryStates, ReachInv, Early, Goes, Returns
<1>1. CASE Load(r)
  BY <1>1 DEF Load, engineVars
<1>2. CASE RefuseEarly(r)
  BY <1>2 DEF RefuseEarly, engineVars
<1>3. CASE DecideDeny(r) \/ DecideAllow(r) \/ Authenticate(r) \/ TouchIdFails(r)
  BY <1>3 DEF DecideDeny, DecideAllow, Authenticate, TouchIdFails, engineVars
<1>4. CASE SessionHit(r)
  BY <1>4 DEF SessionHit, SessionCovers, engineVars
<1>5. CASE SessionMiss(r)
  BY <1>5 DEF SessionMiss, SessionMisses
<1>6. CASE SinkUnavailable(r) \/ SinkDeclines(r)
  BY <1>6 DEF SinkUnavailable, SinkDeclines, engineVars
<1>7. CASE SinkGrantsSession(r)
  BY <1>7 DEF SinkGrantsSession, GrantSession
<1>8. CASE SinkGrantsOnce(r)
  BY <1>8 DEF SinkGrantsOnce, GrantOnce
<1>9. CASE Revalidate(r) \/ PolicyChanged(r) \/ RevalidationFails(r)
  BY <1>9 DEF Revalidate, PolicyChanged, RevalidationFails, engineVars
<1>10. CASE NothingToConsume(r)
  BY <1>10 DEF NothingToConsume, engineVars
<1>11. CASE ConsumeApproval(r)
  BY <1>11 DEF ConsumeApproval, ConsumeOk, Consume
<1>12. CASE ApprovalExpired(r)
  BY <1>12 DEF ApprovalExpired, ConsumeFails, Consume
<1>13. CASE NoPassword(r) \/ ExecuteOk(r) \/ ExecuteFails(r) \/ ReportOk(r) \/ ReportError(r)
  BY <1>13 DEF NoPassword, ExecuteOk, ExecuteFails, ReportOk, ReportError, engineVars
<1>14. QED
  BY <1>1, <1>2, <1>3, <1>4, <1>5, <1>6, <1>7, <1>8, <1>9, <1>10, <1>11, <1>12, <1>13
     DEF Step, Sink

LEMMA ReachStep == IInv /\ ReachInv /\ [Next]_vars => ReachInv'
<1> SUFFICES ASSUME IInv, ReachInv, [Next]_vars PROVE ReachInv'
  OBVIOUS
<1>1. CASE EditConfig \/ UNCHANGED vars
  BY <1>1 DEF EditConfig, ReachInv, vars, callVars, engineVars
<1>2. CASE Expire
  <2>1. ASSUME NEW d \in Digests, OneShotExpires(d) PROVE ReachInv'
    BY <1>2, <2>1, GateAssumption DEF Expire, OneShotExpires, callVars, ReachInv, IInv, TypeOK,
       EngineTypeOK
  <2>2. ASSUME NEW k \in Keys, SessionExpires(k) PROVE ReachInv'
    BY <1>2, <2>2 DEF Expire, SessionExpires, callVars, ReachInv
  <2>3. QED
    BY <1>2, <2>1, <2>2 DEF Expire
<1>3. CASE Restart
  BY <1>3, GateAssumption DEF Restart, EngineLost, ReachInv, IInv, TypeOK, Early
<1>4. QED
  BY <1>1, <1>2, <1>3, ReachCall DEF Next, Environment

THEOREM GateReach == Spec => []ReachInv
  BY ReachInit, ReachStep, GateInvariant, PTL DEF Spec

-----------------------------------------------------------------------------
(* A step of call r changes the stage of r alone. *)
LEMMA StageMove ==
  ASSUME NEW r \in Calls, \A q \in Calls : q # r => pc'[q] = pc[q] /\ result'[q] = result[q]
  PROVE  Stage' = [Stage EXCEPT ![r] = StageOf(r)']
<1>1. ASSUME NEW q \in Calls, q # r PROVE StageOf(q)' = StageOf(q)
  BY <1>1 DEF StageOf
<1>2. Stage' = [q \in Calls |-> StageOf(q)']
  BY DEF Stage
<1>3. QED
  BY <1>1, <1>2 DEF Stage

LEMMA Frame ==
  ASSUME UNCHANGED <<seen, choice, epoch, born>>
  PROVE  Demand' = Demand /\ Answer' = Answer /\ OpenKeys' = OpenKeys
  BY DEF Demand, Policy, PolicyIn, Answer, OpenKeys

(* The variables of the contract under the mapping. *)
LEMMA Unchanged ==
  ASSUME Stage' = Stage, Demand' = Demand, Answer' = Answer, OpenKeys' = OpenKeys,
         StaleCalls' = StaleCalls, effect' = effect
  PROVE  UNCHANGED Contract!vars
  BY DEF Contract!vars, Stage, Demand, Answer

LEMMA RefuseMaps ==
  ASSUME IInv, NEW r \in Calls, NEW res \in Refusals, Returns(r, pc[r], res),
         pc[r] \in {"idle", "decide", "ask", "revalidate", "consume", "execute"},
         UNCHANGED <<seen, scope, epoch, effect>>,
         \A q \in Calls : q # r => /\ choice'[q] = choice[q] /\ born'[q] = born[q]
                                   /\ oneShots'[q] = oneShots[q],
         \/ choice'[r] = choice[r] /\ born'[r] = born[r]
         \/ choice[r] = "none" /\ choice'[r] \in {"none", "decline", "unavailable"}
  PROVE  Contract!Refuse(r)
<1> USE DEF IInv, TypeOK
<1>1. /\ pc'[r] = "done" /\ result'[r] = res
      /\ \A q \in Calls : q # r => pc'[q] = pc[q] /\ result'[q] = result[q]
  BY DEF Returns, Goes
<1>2. StageOf(r)' = "refused"
  BY <1>1 DEF StageOf, Refusals
<1>3. Stage' = [Stage EXCEPT ![r] = "refused"]
  BY <1>1, <1>2, StageMove
<1>4. Stage[r] \in {"new", "judged", "permitted"}
  BY DEF Stage, StageOf
<1>5. Demand' = Demand /\ Answer' = Answer /\ OpenKeys' = OpenKeys
  BY DEF Demand, Policy, PolicyIn, Answer, OpenKeys
<1>6. StaleCalls' = StaleCalls \ {r}
  <2>1. ASSUME NEW q \in Calls, q # r PROVE q \in StaleCalls' <=> q \in StaleCalls
    BY <1>1, <2>1 DEF StaleCalls, StageOf
  <2>2. r \notin StaleCalls'
    BY <1>2 DEF StaleCalls
  <2>3. QED
    BY <2>1, <2>2 DEF StaleCalls
<1>7. QED
  BY <1>3, <1>4, <1>5, <1>6 DEF Contract!Refuse, Contract!Moves, Stage, Demand, Answer

(* Steps inside run_sql that its contract does not see. *)
LEMMA QuietMaps ==
  ASSUME IInv, NEW r \in Calls,
         Authenticate(r) \/ SessionMiss(r) \/ Revalidate(r) \/ NothingToConsume(r)
           \/ ConsumeApproval(r)
  PROVE  UNCHANGED Contract!vars
<1> USE DEF IInv, TypeOK, Goes, Authenticate, SessionMiss, SessionMisses, Revalidate,
            NothingToConsume, ConsumeApproval
<1>1. /\ \A q \in Calls : q # r => pc'[q] = pc[q] /\ result'[q] = result[q]
      /\ UNCHANGED <<seen, choice, epoch, born, scope, effect>>
  OBVIOUS
<1>2. StageOf(r)' = StageOf(r)
  BY DEF StageOf
<1>3. \A q \in Calls : oneShots'[q] = "expired" <=> oneShots[q] = "expired"
  BY GateAssumption DEF EngineTypeOK, ConsumeOk, Consume, engineVars
<1>4. \A q \in Calls : StageOf(q)' = StageOf(q)
  BY <1>1, <1>2 DEF StageOf
<1>5. Stage' = Stage
  BY <1>4 DEF Stage
<1>6. StaleCalls' = StaleCalls
  BY <1>1, <1>3, <1>4 DEF StaleCalls
<1>7. QED
  BY <1>1, <1>5, <1>6, Frame, Unchanged

LEMMA LoadMaps == ASSUME IInv, ReachInv, NEW r \in Calls, Load(r) PROVE Contract!Judge(r)
<1> USE DEF IInv, TypeOK, Load, Goes
<1>1. StageOf(r)' = "judged" /\ Stage[r] = "new"
  BY DEF StageOf, Stage
<1>2. Stage' = [Stage EXCEPT ![r] = "judged"]
  BY <1>1, StageMove
<1>3. /\ Demand' = [Demand EXCEPT ![r] = PolicyIn(cfg, r).action]
      /\ PolicyIn(cfg, r).action \in {"allow", "confirm", "deny"}
  BY GateAssumption DEF Demand, Policy, PolicyIn, Configs, Policies, Actions
<1>4. Answer' = Answer /\ OpenKeys' = OpenKeys
  BY DEF Answer, OpenKeys, PhaseInv, Early
<1>5. StaleCalls' = StaleCalls
  BY <1>1 DEF StaleCalls, StageOf, engineVars
<1>6. QED
  BY <1>1, <1>2, <1>3, <1>4, <1>5 DEF Contract!Judge, Contract!Moves, Stage, Demand, Answer

(* A permit: no answer of the call can have run out yet. *)
LEMMA PermitStage ==
  ASSUME IInv, NEW r \in Calls, pc[r] \in {"decide", "session", "ask"}, Goes(r, pc[r], "revalidate"),
         UNCHANGED <<seen, epoch, born, result, effect>>,
         \A q \in Calls : q # r => scope'[q] = scope[q] /\ oneShots'[q] = oneShots[q],
         scope'[r] = "once" => oneShots'[r] = "live"
  PROVE  /\ Stage[r] = "judged" /\ Stage' = [Stage EXCEPT ![r] = "permitted"]
         /\ StaleCalls' = StaleCalls /\ Demand' = Demand
<1> USE DEF IInv, TypeOK, Goes
<1>1. StageOf(r)' = "permitted" /\ StageOf(r) = "judged"
  BY DEF StageOf
<1>2. Stage[r] = "judged" /\ Stage' = [Stage EXCEPT ![r] = "permitted"]
  BY <1>1, StageMove DEF Stage
<1>3. StaleCalls' = StaleCalls
  BY <1>1 DEF StaleCalls, StageOf
<1>4. QED
  BY <1>2, <1>3 DEF Demand, Policy, PolicyIn

LEMMA DecideAllowMaps ==
  ASSUME IInv, ReachInv, NEW r \in Calls, DecideAllow(r) PROVE Contract!PermitUnasked(r)
<1>1. /\ Stage[r] = "judged" /\ Stage' = [Stage EXCEPT ![r] = "permitted"]
      /\ StaleCalls' = StaleCalls /\ Demand' = Demand
  BY PermitStage DEF DecideAllow, Goes, engineVars, ReachInv, Early
<1>2. Answer' = Answer /\ OpenKeys' = OpenKeys /\ effect' = effect
  BY Frame DEF DecideAllow
<1>3. Demand[r] = "allow"
  BY DEF DecideAllow, Demand
<1>4. QED
  BY <1>1, <1>2, <1>3 DEF Contract!PermitUnasked, Contract!Moves, Stage, Demand, Answer

LEMMA SessionHitMaps ==
  ASSUME IInv, NEW r \in Calls, SessionHit(r) PROVE Contract!PermitUnasked(r)
<1>1. /\ Stage[r] = "judged" /\ Stage' = [Stage EXCEPT ![r] = "permitted"]
      /\ StaleCalls' = StaleCalls /\ Demand' = Demand
  BY PermitStage DEF IInv, TypeOK, SessionHit, SessionCovers, Goes, engineVars
<1>2. Answer' = Answer /\ OpenKeys' = OpenKeys /\ effect' = effect
  BY Frame DEF SessionHit
<1>3. Demand[r] = "confirm"
  BY DEF SessionHit, Demand, IInv, AuthInv, Goes
<1>4. KeyOf[r] \in Keys
  BY GateAssumption
<1>5. KeyOf[r] \in OpenKeys
  BY <1>4 DEF SessionHit, SessionCovers, IInv, GrantsOfThisProcess, OpenKeys
<1>6. QED
  BY <1>1, <1>2, <1>3, <1>5 DEF Contract!PermitUnasked, Contract!Moves, Stage, Demand, Answer

LEMMA SinkGrantsMaps ==
  ASSUME IInv, ReachInv, NEW r \in Calls, SinkGrantsOnce(r) \/ SinkGrantsSession(r)
  PROVE  Contract!PermitAsked(r)
<1> USE DEF IInv
<1>1. choice[r] = "none" /\ born[r] = epoch /\ Demand[r] = "confirm" /\ pc[r] = "ask"
  BY DEF PhaseInv, AuthInv, Early, SinkGrantsOnce, SinkGrantsSession, Goes, Demand
<1>2. CASE SinkGrantsOnce(r)
  <2>1. /\ Stage[r] = "judged" /\ Stage' = [Stage EXCEPT ![r] = "permitted"]
        /\ StaleCalls' = StaleCalls /\ Demand' = Demand
    BY <1>1, <1>2, PermitStage, GateAssumption
       DEF TypeOK, EngineTypeOK, SinkGrantsOnce, GrantOnce, Goes
  <2>2. Answer' = [Answer EXCEPT ![r] = "once"] /\ OpenKeys' = OpenKeys
    BY <1>1, <1>2 DEF TypeOK, Answer, OpenKeys, SinkGrantsOnce, Chosen
  <2>3. QED
    BY <1>1, <1>2, <2>1, <2>2
       DEF SinkGrantsOnce, Contract!PermitAsked, Contract!Moves, Stage, Demand, Answer
<1>3. CASE SinkGrantsSession(r)
  <2>1. /\ Stage[r] = "judged" /\ Stage' = [Stage EXCEPT ![r] = "permitted"]
        /\ StaleCalls' = StaleCalls /\ Demand' = Demand
    BY <1>1, <1>3, PermitStage DEF TypeOK, SinkGrantsSession, GrantSession, Goes
  <2>2. Answer' = [Answer EXCEPT ![r] = "session"]
    BY <1>3 DEF TypeOK, Answer, SinkGrantsSession, Chosen
  <2>3. OpenKeys' = OpenKeys \cup {KeyOf[r]}
    <3>1. KeyOf[r] \in Keys /\ choice' = [choice EXCEPT ![r] = "session"] /\ UNCHANGED <<born, epoch>>
      BY <1>3, GateAssumption DEF SinkGrantsSession, Chosen
    <3>2. choice'[r] = "session" /\ born'[r] = epoch'
      BY <1>1, <3>1 DEF TypeOK
    <3>3. ASSUME NEW k \in Keys, k # KeyOf[r] PROVE k \in OpenKeys' <=> k \in OpenKeys
      BY <3>1, <3>3 DEF TypeOK, OpenKeys
    <3>4. KeyOf[r] \in OpenKeys'
      BY <3>1, <3>2 DEF OpenKeys
    <3>5. QED
      BY <3>1, <3>3, <3>4 DEF OpenKeys
  <2>4. QED
    BY <1>1, <1>3, <2>1, <2>2, <2>3
       DEF SinkGrantsSession, Contract!PermitAsked, Contract!Moves, Stage, Demand, Answer
<1>4. QED
  BY <1>2, <1>3

LEMMA ExecuteMaps ==
  ASSUME IInv, ReachInv, NEW r \in Calls, ExecuteOk(r) \/ ExecuteFails(r)
  PROVE  Contract!Run(r)
<1> USE DEF IInv, TypeOK, ExecuteOk, ExecuteFails, Goes
<1>1. r \notin StaleCalls /\ Stage[r] = "permitted"
  BY DEF StaleCalls, Stage, StageOf, ReachInv
<1>2. StageOf(r)' = IF ExecuteOk(r) THEN "ran" ELSE "unsure"
  BY DEF StageOf
<1>3. Stage' = [Stage EXCEPT ![r] = IF ExecuteOk(r) THEN "ran" ELSE "unsure"]
  BY <1>2, StageMove
<1>4. StaleCalls' = StaleCalls
  <2>1. ASSUME NEW q \in Calls, q # r PROVE q \in StaleCalls' <=> q \in StaleCalls
    BY <2>1 DEF StaleCalls, StageOf, engineVars
  <2>2. r \notin StaleCalls'
    BY <1>2 DEF StaleCalls
  <2>3. QED
    BY <1>1, <2>1, <2>2 DEF StaleCalls
<1>5. Demand' = Demand /\ Answer' = Answer /\ OpenKeys' = OpenKeys
  BY Frame
<1>6. QED
  BY <1>1, <1>3, <1>4, <1>5 DEF Contract!Run, Contract!Moves, Stage, Demand, Answer, Applied

LEMMA ReportMaps ==
  ASSUME IInv, NEW r \in Calls, ReportOk(r) \/ ReportError(r)
  PROVE  Contract!Tell(r)
<1> USE DEF IInv, TypeOK, ReportOk, ReportError, Returns, Goes
<1>1. /\ \A q \in Calls : q # r => pc'[q] = pc[q] /\ result'[q] = result[q]
      /\ UNCHANGED <<engineVars, seen, choice, epoch, born, scope, effect>>
  OBVIOUS
<1>2. CASE ReportOk(r)
  <2>1. StageOf(r) = "ran" /\ StageOf(r)' = "success"
    BY <1>2 DEF StageOf, Refusals
  <2>2. Stage[r] = "ran" /\ Stage' = [Stage EXCEPT ![r] = "success"]
    BY <1>1, <2>1, StageMove DEF Stage
  <2>3. StaleCalls' = StaleCalls
    BY <1>1, <2>1 DEF StaleCalls, StageOf, engineVars
  <2>4. QED
    BY <1>1, <2>2, <2>3, Frame DEF Contract!Tell, Contract!Moves, Stage, Demand, Answer
<1>3. CASE ReportError(r)
  <2>1. StageOf(r) = "unsure" /\ StageOf(r)' = "error"
    BY <1>3 DEF StageOf, Refusals
  <2>2. Stage[r] = "unsure" /\ Stage' = [Stage EXCEPT ![r] = "error"]
    BY <1>1, <2>1, StageMove DEF Stage
  <2>3. StaleCalls' = StaleCalls
    BY <1>1, <2>1 DEF StaleCalls, StageOf, engineVars
  <2>4. QED
    BY <1>1, <2>2, <2>3, Frame DEF Contract!Tell, Contract!Moves, Stage, Demand, Answer
<1>4. QED
  BY <1>2, <1>3

LEMMA ExpireMaps ==
  ASSUME IInv, Expire
  PROVE  UNCHANGED Contract!vars \/ \E r \in Calls : Contract!Lapse(r)
<1>1. UNCHANGED <<cfg, epoch, callVars>>
  BY DEF Expire
<1>2. \A q \in Calls : StageOf(q)' = StageOf(q)
  BY <1>1 DEF StageOf, callVars
<1>3. Stage' = Stage
  BY <1>2 DEF Stage
<1>4. Demand' = Demand /\ Answer' = Answer /\ OpenKeys' = OpenKeys /\ effect' = effect
  BY <1>1, Frame DEF callVars
<1>5. CASE \E k \in Keys : SessionExpires(k)
  <2>1. StaleCalls' = StaleCalls
    BY <1>1, <1>2, <1>5 DEF StaleCalls, SessionExpires, callVars
  <2>2. QED
    BY <1>3, <1>4, <2>1, Unchanged
<1>6. ASSUME NEW d \in Digests, OneShotExpires(d)
      PROVE  UNCHANGED Contract!vars \/ \E r \in Calls : Contract!Lapse(r)
  <2>1. d \in Calls /\ oneShots' = [oneShots EXCEPT ![d] = "expired"]
    BY <1>6, GateAssumption DEF OneShotExpires
  <2>2. CASE StageOf(d) = "permitted" /\ scope[d] = "once"
    <3>1. StaleCalls' = StaleCalls \cup {d}
      BY <1>1, <1>2, <2>1, <2>2, GateAssumption
         DEF StaleCalls, callVars, IInv, TypeOK, EngineTypeOK
    <3>2. QED
      BY <1>3, <1>4, <2>1, <2>2, <3>1 DEF Contract!Lapse, Stage, Demand, Answer
  <2>3. CASE ~(StageOf(d) = "permitted" /\ scope[d] = "once")
    <3>1. StaleCalls' = StaleCalls
      BY <1>1, <1>2, <2>1, <2>3, GateAssumption
         DEF StaleCalls, callVars, IInv, TypeOK, EngineTypeOK
    <3>2. QED
      BY <1>3, <1>4, <3>1, Unchanged
  <2>4. QED
    BY <2>2, <2>3
<1>7. QED
  BY <1>5, <1>6 DEF Expire

LEMMA RestartMaps == ASSUME IInv, ReachInv, Restart PROVE Contract!Die
<1> USE DEF IInv, TypeOK, Restart, EngineLost
<1>1. \A q \in Calls :
        StageOf(q)' = IF StageOf(q) \in {"judged", "permitted", "ran", "unsure"} THEN "dead"
                      ELSE StageOf(q)
  BY DEF StageOf, PcStates
<1>2. Stage' = [q \in Calls |->
                  IF Stage[q] \in {"judged", "permitted", "ran", "unsure"} THEN "dead" ELSE Stage[q]]
  BY <1>1 DEF Stage
<1>3. OpenKeys' = {}
  BY GateAssumption DEF OpenKeys, ReachInv
<1>4. StaleCalls' = {}
  BY GateAssumption DEF StaleCalls
<1>5. Demand' = Demand /\ Answer' = Answer
  BY DEF Demand, Policy, PolicyIn, Answer
<1>6. {r \in Calls : pc[r] = "execute"} \subseteq {r \in Calls \ StaleCalls : Stage[r] = "permitted"}
  BY DEF ReachInv, StaleCalls, Stage, StageOf
<1>7. PICK A \in SUBSET {r \in Calls : pc[r] = "execute"} :
        effect' = [r \in Calls |-> IF r \in A THEN effect[r] + 1 ELSE effect[r]]
  OBVIOUS
<1>8. A \in SUBSET {r \in Calls \ StaleCalls : Stage[r] = "permitted"}
  BY <1>6, <1>7
<1>9. QED
  BY <1>2, <1>3, <1>4, <1>5, <1>7, <1>8 DEF Contract!Die, Stage, Demand, Answer

-----------------------------------------------------------------------------
LEMMA CallMaps ==
  ASSUME IInv, ReachInv, NEW r \in Calls, Load(r) \/ RefuseEarly(r) \/ Step(r) \/ Sink(r)
  PROVE  [Contract!Next]_(Contract!vars)
<1>1. CASE Load(r)
  BY <1>1, LoadMaps DEF Contract!Next
<1>2. CASE \/ RefuseEarly(r) \/ DecideDeny(r) \/ TouchIdFails(r)
           \/ SinkUnavailable(r) \/ SinkDeclines(r) \/ PolicyChanged(r) \/ RevalidationFails(r)
           \/ ApprovalExpired(r) \/ NoPassword(r)
  <2> USE DEF Returns, Goes, Refusals, IInv, TypeOK, PhaseInv, Early
  <2>1. CASE RefuseEarly(r)
    <3>1. PICK res \in Refusals : Returns(r, "idle", res)
      BY <2>1 DEF RefuseEarly
    <3>2. QED
      BY <2>1, <3>1, RefuseMaps DEF RefuseEarly, engineVars, Contract!Next
  <2>2. CASE DecideDeny(r) \/ TouchIdFails(r)
    <3>1. PICK res \in {"denied", "touch_failed"} : Returns(r, "decide", res)
      BY <2>2 DEF DecideDeny, TouchIdFails
    <3>2. QED
      BY <2>2, <3>1, RefuseMaps DEF DecideDeny, TouchIdFails, engineVars, Contract!Next
  <2>3. CASE SinkUnavailable(r) \/ SinkDeclines(r)
    <3>1. PICK res \in {"unavailable", "declined"} : Returns(r, "ask", res)
      BY <2>3 DEF SinkUnavailable, SinkDeclines
    <3>2. choice[r] = "none" /\ choice'[r] \in {"decline", "unavailable"}
      BY <2>3 DEF SinkUnavailable, SinkDeclines, Chosen
    <3>3. QED
      BY <2>3, <3>1, <3>2, RefuseMaps
         DEF SinkUnavailable, SinkDeclines, Chosen, engineVars, Contract!Next
  <2>4. CASE PolicyChanged(r) \/ NoPassword(r)
    BY <2>4, RefuseMaps DEF PolicyChanged, NoPassword, engineVars, Contract!Next
  <2>5. CASE RevalidationFails(r)
    <3>1. PICK res \in Refusals : Returns(r, "revalidate", res)
      BY <2>5 DEF RevalidationFails
    <3>2. QED
      BY <2>5, <3>1, RefuseMaps DEF RevalidationFails, engineVars, Contract!Next
  <2>6. CASE ApprovalExpired(r)
    BY <2>6, RefuseMaps, GateAssumption
       DEF ApprovalExpired, ConsumeFails, Consume, EngineTypeOK, Contract!Next
  <2>7. QED
    BY <1>2, <2>1, <2>2, <2>3, <2>4, <2>5, <2>6
<1>3. CASE Authenticate(r) \/ SessionMiss(r) \/ Revalidate(r) \/ NothingToConsume(r)
             \/ ConsumeApproval(r)
  BY <1>3, QuietMaps
<1>4. CASE DecideAllow(r) \/ SessionHit(r)
  BY <1>4, DecideAllowMaps, SessionHitMaps DEF Contract!Next
<1>5. CASE SinkGrantsOnce(r) \/ SinkGrantsSession(r)
  BY <1>5, SinkGrantsMaps DEF Contract!Next
<1>6. CASE ExecuteOk(r) \/ ExecuteFails(r)
  BY <1>6, ExecuteMaps DEF Contract!Next
<1>7. CASE ReportOk(r) \/ ReportError(r)
  BY <1>7, ReportMaps DEF Contract!Next
<1>8. QED
  BY <1>1, <1>2, <1>3, <1>4, <1>5, <1>6, <1>7 DEF Step, Sink

LEMMA EditMaps ==
  ASSUME EditConfig \/ UNCHANGED vars PROVE UNCHANGED Contract!vars
<1>1. UNCHANGED <<engineVars, epoch, callVars>>
  BY DEF EditConfig, vars
<1>2. Stage' = Stage /\ StaleCalls' = StaleCalls
  BY <1>1 DEF Stage, StaleCalls, StageOf, callVars, engineVars
<1>3. QED
  BY <1>1, <1>2, Frame, Unchanged DEF callVars

LEMMA InitMaps == Init => Contract!Init
  BY GateAssumption
     DEF Init, EngineInit, Contract!Init, StageOf, OpenKeys, StaleCalls, Policy, PolicyIn, Policies,
         Actions

LEMMA StepMaps == IInv /\ ReachInv /\ [Next]_vars => [Contract!Next]_(Contract!vars)
  BY CallMaps, EditMaps, ExpireMaps, RestartMaps DEF Next, Environment, Contract!Next

(* run_sql keeps its contract: judged, permitted by a rule, by its own     *)
(* answer or by one given for its key to this server process, and only     *)
(* then run, once, by an answer that has not run out; and what the caller  *)
(* is told agrees with what the database did.                              *)
THEOREM GateKeepsContract == Spec => ContractKept
<1>1. Spec => Contract!Init /\ [][Contract!Next]_(Contract!vars)
  BY InitMaps, StepMaps, GateInvariant, GateReach, PTL DEF Spec
<1>2. QED
  BY <1>1 DEF ContractKept, Contract!Spec

=============================================================================
