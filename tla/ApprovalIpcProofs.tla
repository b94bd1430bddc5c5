-------------------------- MODULE ApprovalIpcProofs --------------------------
(***************************************************************************)
(* Proofs about ApprovalIpc for any sets of asks and connections.          *)
(*                                                                         *)
(* The three safety invariants are not inductive: that nobody overwrites a *)
(* delivered choice depends on where the oneshot sender is. IInv adds it:  *)
(* the sender of a waiting ask is in the slot or with the one connection   *)
(* that took the slot, never in both places and never in two connections.  *)
(***************************************************************************)
EXTENDS ApprovalIpc, TLAPS

SlotInv ==
  slot # None =>
    /\ ask[slot] \in {"waiting", "elapsed"}
    /\ chan[slot] \in {"open", "closed"}
    /\ \A c \in Conns : holds[c] # slot

IdleInv == \A a \in Asks : ask[a] = "idle" => chan[a] = "none"

HoldsInv ==
  \A c \in Conns : holds[c] # None =>
    /\ reply[c] \in Choices
    /\ ask[holds[c]] # "idle"

DecidedInv ==
  \A c \in Conns : /\ conn[c] \in {"decided", "taken"} => reply[c] \in Choices
                   /\ holds[c] # None => conn[c] \in {"taken", "closed"}

ChanInv ==
  \A a \in Asks : chan[a] \in Choices =>
    \E c \in Conns : holds[c] = a /\ reply[c] = chan[a]

ChosenInv == \A a \in Asks : ask[a] = "chosen" => chan[a] \in Choices

ClosedInv ==
  \A a \in Asks : /\ ask[a] = "elapsed" => chan[a] = "closed"
                  /\ chan[a] = "closed" => ask[a] \in {"elapsed", "unavailable"}
                  /\ ask[a] = "unavailable" => chan[a] \notin {"open"} \cup Choices

IInv ==
  /\ TypeOK /\ SlotInv /\ IdleInv /\ HoldsInv /\ DecidedInv
  /\ ChanInv /\ ChosenInv /\ ClosedInv /\ SlotTakenOnce

-----------------------------------------------------------------------------
(* Nobody waits, nothing was taken: the initial state satisfies IInv.      *)
LEMMA InitInv == Init => IInv
  BY IpcAssumption
  DEF Init, IInv, TypeOK, SlotInv, IdleInv, HoldsInv, DecidedInv, ChanInv,
      ChosenInv, ClosedInv, SlotTakenOnce, AskStates, ChanStates, ConnStates,
      Acks, Choices

(* Every step preserves IInv: one case per action of ask and of            *)
(* handle_connection, one step per conjunct the action can disturb.        *)
LEMMA StepInv == IInv /\ [Next]_vars => IInv'
<1> SUFFICES ASSUME IInv, [Next]_vars PROVE IInv'
  OBVIOUS
<1> USE IpcAssumption DEF IInv, TypeOK, AskStates, ChanStates, ConnStates,
        Acks, Choices, askVars, connVars
<1>1. ASSUME NEW a \in Asks, AskBusy(a) PROVE IInv'
  BY <1>1 DEF AskBusy, SlotInv, IdleInv, HoldsInv, DecidedInv, ChanInv,
               ChosenInv, ClosedInv, SlotTakenOnce
<1>2. ASSUME NEW a \in Asks, AskInstall(a) PROVE IInv'
  <2>1. TypeOK'
    BY <1>2 DEF AskInstall, DecidedInv
  <2>2. SlotInv'
    BY <2>1, <1>2 DEF AskInstall, SlotInv, IdleInv, HoldsInv, ClosedInv
  <2>3. IdleInv'
    BY <2>1, <1>2 DEF AskInstall, IdleInv, SlotInv, HoldsInv
  <2>4. HoldsInv'
    BY <2>1, <1>2 DEF AskInstall, HoldsInv, DecidedInv, SlotInv, ClosedInv
  <2>5. DecidedInv'
    BY <2>1, <1>2 DEF AskInstall, DecidedInv, HoldsInv
  <2>6. ChanInv'
    BY <2>1, <1>2 DEF AskInstall, ChanInv, DecidedInv, HoldsInv
  <2>7. ChosenInv'
    BY <2>1, <1>2 DEF AskInstall, ChosenInv, ClosedInv, SlotInv, HoldsInv
  <2>8. ClosedInv'
    BY <2>1, <1>2 DEF AskInstall, ClosedInv, IdleInv, SlotInv, HoldsInv, ChosenInv
  <2>9. SlotTakenOnce'
    BY <2>1, <1>2 DEF AskInstall, SlotTakenOnce, SlotInv, HoldsInv
  <2>10. QED
    BY <2>1, <2>2, <2>3, <2>4, <2>5, <2>6, <2>7, <2>8, <2>9 DEF IInv
<1>3. ASSUME NEW a \in Asks, AskChosen(a) PROVE IInv'
  BY <1>3 DEF AskChosen, SlotInv, IdleInv, HoldsInv, DecidedInv, ChanInv,
               ChosenInv, ClosedInv, SlotTakenOnce
<1>4. ASSUME NEW a \in Asks, AskGone(a) PROVE IInv'
  BY <1>4 DEF AskGone, SlotInv, IdleInv, HoldsInv, DecidedInv, ChanInv,
               ChosenInv, ClosedInv, SlotTakenOnce
<1>5. ASSUME NEW a \in Asks, AskElapsed(a) PROVE IInv'
  <2>1. TypeOK'
    BY <1>5 DEF AskElapsed, DecidedInv
  <2>2. SlotInv'
    BY <2>1, <1>5 DEF AskElapsed, SlotInv, IdleInv, HoldsInv, ClosedInv
  <2>3. IdleInv'
    BY <2>1, <1>5 DEF AskElapsed, IdleInv, SlotInv, HoldsInv
  <2>4. HoldsInv'
    BY <2>1, <1>5 DEF AskElapsed, HoldsInv, DecidedInv, SlotInv, ClosedInv
  <2>5. DecidedInv'
    BY <2>1, <1>5 DEF AskElapsed, DecidedInv, HoldsInv
  <2>6. ChanInv'
    BY <2>1, <1>5 DEF AskElapsed, ChanInv, DecidedInv, HoldsInv
  <2>7. ChosenInv'
    BY <2>1, <1>5 DEF AskElapsed, ChosenInv, ClosedInv, SlotInv, HoldsInv
  <2>8. ClosedInv'
    BY <2>1, <1>5 DEF AskElapsed, ClosedInv, IdleInv, SlotInv, HoldsInv, ChosenInv
  <2>9. SlotTakenOnce'
    BY <2>1, <1>5 DEF AskElapsed, SlotTakenOnce, SlotInv, HoldsInv
  <2>10. QED
    BY <2>1, <2>2, <2>3, <2>4, <2>5, <2>6, <2>7, <2>8, <2>9 DEF IInv
<1>6. ASSUME NEW a \in Asks, AskReap(a) PROVE IInv'
  <2>1. TypeOK'
    BY <1>6 DEF AskReap, DecidedInv, SenderDropped
  <2>2. SlotInv'
    BY <2>1, <1>6 DEF AskReap, SlotInv, IdleInv, HoldsInv, ClosedInv, SenderDropped
  <2>3. IdleInv'
    BY <2>1, <1>6 DEF AskReap, IdleInv, SlotInv, HoldsInv, SenderDropped
  <2>4. HoldsInv'
    BY <2>1, <1>6 DEF AskReap, HoldsInv, DecidedInv, SlotInv, ClosedInv, SenderDropped
  <2>5. DecidedInv'
    BY <2>1, <1>6 DEF AskReap, DecidedInv, HoldsInv, SenderDropped
  <2>6. ChanInv'
    BY <2>1, <1>6 DEF AskReap, ChanInv, DecidedInv, HoldsInv, SenderDropped
  <2>7. ChosenInv'
    BY <2>1, <1>6 DEF AskReap, ChosenInv, ClosedInv, SlotInv, HoldsInv, SenderDropped
  <2>8. ClosedInv'
    BY <2>1, <1>6 DEF AskReap, ClosedInv, IdleInv, SlotInv, HoldsInv, ChosenInv, SenderDropped
  <2>9. SlotTakenOnce'
    BY <2>1, <1>6 DEF AskReap, SlotTakenOnce, SlotInv, HoldsInv, SenderDropped
  <2>10. QED
    BY <2>1, <2>2, <2>3, <2>4, <2>5, <2>6, <2>7, <2>8, <2>9 DEF IInv
<1>7. ASSUME NEW c \in Conns, Connect(c) PROVE IInv'
  BY <1>7 DEF Connect, ConnGoes, SlotInv, IdleInv, HoldsInv, DecidedInv, ChanInv,
               ChosenInv, ClosedInv, SlotTakenOnce
<1>8. ASSUME NEW c \in Conns, PollEnds(c) PROVE IInv'
  BY <1>8 DEF PollEnds, ConnGoes, SlotInv, IdleInv, HoldsInv, DecidedInv, ChanInv,
               ChosenInv, ClosedInv, SlotTakenOnce
<1>9. ASSUME NEW c \in Conns, FetchEmpty(c) PROVE IInv'
  BY <1>9 DEF FetchEmpty, ConnGoes, SlotInv, IdleInv, HoldsInv, DecidedInv, ChanInv,
               ChosenInv, ClosedInv, SlotTakenOnce
<1>10. ASSUME NEW c \in Conns, FetchRequest(c) PROVE IInv'
  BY <1>10 DEF FetchRequest, ConnGoes, SlotInv, IdleInv, HoldsInv, DecidedInv, ChanInv,
               ChosenInv, ClosedInv, SlotTakenOnce
<1>11. ASSUME NEW c \in Conns, PeerLost(c) PROVE IInv'
  BY <1>11 DEF PeerLost, SlotInv, IdleInv, HoldsInv, DecidedInv, ChanInv,
               ChosenInv, ClosedInv, SlotTakenOnce
<1>12. ASSUME NEW c \in Conns, CompanionReplies(c) PROVE IInv'
  BY <1>12 DEF CompanionReplies, ConnGoes, SlotInv, IdleInv, HoldsInv, DecidedInv, ChanInv,
               ChosenInv, ClosedInv, SlotTakenOnce
<1>13. ASSUME NEW c \in Conns, ReplyStale(c) PROVE IInv'
  BY <1>13 DEF ReplyStale, ConnGoes, SlotInv, IdleInv, HoldsInv, DecidedInv, ChanInv,
               ChosenInv, ClosedInv, SlotTakenOnce
<1>14. ASSUME NEW c \in Conns, ReplyBadChoice(c) PROVE IInv'
  BY <1>14 DEF ReplyBadChoice, ConnGoes, SlotInv, IdleInv, HoldsInv, DecidedInv, ChanInv,
               ChosenInv, ClosedInv, SlotTakenOnce
<1>15. ASSUME NEW c \in Conns, ReplyAccepted(c) PROVE IInv'
  BY <1>15 DEF ReplyAccepted, ConnGoes, SlotInv, IdleInv, HoldsInv, DecidedInv, ChanInv,
               ChosenInv, ClosedInv, SlotTakenOnce
<1>16. ASSUME NEW c \in Conns, TakeSlot(c) PROVE IInv'
  <2>1. TypeOK'
    BY <1>16 DEF TakeSlot, DecidedInv, ConnGoes
  <2>2. SlotInv'
    BY <2>1, <1>16 DEF TakeSlot, SlotInv, IdleInv, HoldsInv, ClosedInv, ConnGoes
  <2>3. IdleInv'
    BY <2>1, <1>16 DEF TakeSlot, IdleInv, SlotInv, HoldsInv, ConnGoes
  <2>4. HoldsInv'
    BY <2>1, <1>16 DEF TakeSlot, HoldsInv, DecidedInv, SlotInv, ClosedInv, ConnGoes
  <2>5. DecidedInv'
    BY <2>1, <1>16 DEF TakeSlot, DecidedInv, HoldsInv, ConnGoes
  <2>6. ChanInv'
    BY <2>1, <1>16 DEF TakeSlot, ChanInv, DecidedInv, HoldsInv, ConnGoes
  <2>7. ChosenInv'
    BY <2>1, <1>16 DEF TakeSlot, ChosenInv, ClosedInv, SlotInv, HoldsInv, ConnGoes
  <2>8. ClosedInv'
    BY <2>1, <1>16 DEF TakeSlot, ClosedInv, IdleInv, SlotInv, HoldsInv, ChosenInv, ConnGoes
  <2>9. SlotTakenOnce'
    BY <2>1, <1>16 DEF TakeSlot, SlotTakenOnce, SlotInv, HoldsInv, ConnGoes
  <2>10. QED
    BY <2>1, <2>2, <2>3, <2>4, <2>5, <2>6, <2>7, <2>8, <2>9 DEF IInv
<1>17. ASSUME NEW c \in Conns, SendChoice(c) PROVE IInv'
  <2>1. TypeOK'
    BY <1>17 DEF SendChoice, DecidedInv, ConnGoes
  <2>2. SlotInv'
    BY <2>1, <1>17 DEF SendChoice, SlotInv, IdleInv, HoldsInv, ClosedInv, ConnGoes
  <2>3. IdleInv'
    BY <2>1, <1>17 DEF SendChoice, IdleInv, SlotInv, HoldsInv, ConnGoes
  <2>4. HoldsInv'
    BY <2>1, <1>17 DEF SendChoice, HoldsInv, DecidedInv, SlotInv, ClosedInv, ConnGoes
  <2>5. DecidedInv'
    BY <2>1, <1>17 DEF SendChoice, DecidedInv, HoldsInv, ConnGoes
  <2>6. ChanInv'
    BY <2>1, <1>17 DEF SendChoice, ChanInv, DecidedInv, HoldsInv, ConnGoes
  <2>7. ChosenInv'
    BY <2>1, <1>17 DEF SendChoice, ChosenInv, ClosedInv, SlotInv, HoldsInv, ConnGoes
  <2>8. ClosedInv'
    BY <2>1, <1>17 DEF SendChoice, ClosedInv, IdleInv, SlotInv, HoldsInv, ChosenInv, ConnGoes
  <2>9. SlotTakenOnce'
    BY <2>1, <1>17 DEF SendChoice, SlotTakenOnce, SlotInv, HoldsInv, ConnGoes
  <2>10. QED
    BY <2>1, <2>2, <2>3, <2>4, <2>5, <2>6, <2>7, <2>8, <2>9 DEF IInv
<1>18. CASE UNCHANGED vars
  BY <1>18 DEF vars, SlotInv, IdleInv, HoldsInv, DecidedInv, ChanInv,
               ChosenInv, ClosedInv, SlotTakenOnce
<1>19. QED
  BY <1>1, <1>2, <1>3, <1>4, <1>5, <1>6, <1>7, <1>8, <1>9, <1>10, <1>11, <1>12, <1>13, <1>14, <1>15, <1>16, <1>17, <1>18 DEF Next, AskNext, AskStep, ConnNext

THEOREM IpcInvariant == Spec => []IInv
<1>1. QED
  BY InitInv, StepInv, PTL DEF Spec

(* Every state of the hub and of its connections is one the code has.      *)
THEOREM IpcTypeCorrect == Spec => []TypeOK
<1>1. IInv => TypeOK
  BY DEF IInv
<1>2. QED
  BY IpcInvariant, <1>1, PTL

(* A pending request always belongs to an ask that is still running, so an *)
(* ask is never refused because of a request nobody waits for.             *)
THEOREM IpcSlotHasLiveAsker == Spec => []SlotHasLiveAsker
<1>1. IInv => SlotHasLiveAsker
  BY DEF IInv, SlotInv, SlotHasLiveAsker
<1>2. QED
  BY IpcInvariant, <1>1, PTL

(* ask never fabricates a choice, however asks, timeouts and companions    *)
(* interleave.                                                             *)
THEOREM IpcNeverFabricated == Spec => []NeverFabricated
<1>1. IInv => NeverFabricated
  BY DEF IInv, ChosenInv, ChanInv, HoldsInv, NeverFabricated
<1>2. QED
  BY IpcInvariant, <1>1, PTL

(* At most one connection ever takes the slot of an ask.                   *)
THEOREM IpcSlotTakenOnce == Spec => []SlotTakenOnce
<1>1. IInv => SlotTakenOnce
  BY DEF IInv
<1>2. QED
  BY IpcInvariant, <1>1, PTL

(* A resolved ask keeps its outcome: no late reply reaches it.             *)
THEOREM IpcOutcomeStable == Spec => OutcomeStable
<1> DEFINE Stable == \A a \in Asks : Resolved(a) => ask'[a] = ask[a] /\ chan'[a] = chan[a]
<1>1. ASSUME IInv, [Next]_vars PROVE [Stable]_vars
  <2> USE IpcAssumption DEF IInv, TypeOK, Choices, AskStates, ChanStates, askVars,
          connVars, Resolved
  <2>1. ASSUME NEW b \in Asks, AskNext(b) PROVE Stable
    <3>1. CASE AskReap(b)
      BY <1>1, <3>1 DEF AskReap, SenderDropped, SlotInv
    <3>2. CASE AskBusy(b) \/ AskInstall(b) \/ AskChosen(b) \/ AskGone(b) \/ AskElapsed(b)
      BY <1>1, <3>2 DEF AskBusy, AskInstall, AskChosen, AskGone, AskElapsed
    <3>3. QED
      BY <2>1, <3>1, <3>2 DEF AskNext, AskStep
  <2>2. ASSUME NEW c \in Conns, ConnNext(c) PROVE Stable
    <3>1. CASE SendChoice(c)
      BY <1>1, <3>1 DEF SendChoice, ClosedInv, ChosenInv
    <3>2. CASE ~SendChoice(c)
      BY <1>1, <2>2, <3>2 DEF ConnNext, Connect, PollEnds, FetchEmpty, FetchRequest,
         PeerLost, CompanionReplies, ReplyStale, ReplyBadChoice, ReplyAccepted,
         TakeSlot
    <3>3. QED
      BY <3>1, <3>2
  <2>3. QED
    BY <1>1, <2>1, <2>2 DEF Next
<1>2. QED
  BY <1>1, IpcInvariant, PTL DEF Spec, OutcomeStable
=============================================================================
