----------------------------- MODULE ApprovalIpc -----------------------------
(***************************************************************************)
(* The approval IPC hub (src/src/approval/ipc.rs): gate calls ask for a    *)
(* confirmation through ONE pending slot; companion processes connect,     *)
(* long-poll the slot, are shown the pending request and send one reply.   *)
(*                                                                         *)
(* Each lock acquisition of `inner`, and each poll of the asker's timeout, *)
(* is a step of its own: everything between two of them interleaves.       *)
(* Clocks are abstracted: a deadline may pass whenever its timer runs.     *)
(***************************************************************************)
EXTENDS Naturals, FiniteSets

CONSTANTS Asks,   (* calls of ApprovalIpc::ask, each with its own request id *)
          Conns,  (* accepted companion connections (one exchange each)      *)
          None    (* no request                                              *)

ASSUME IpcAssumption == None \notin Asks

VARIABLES slot,   (* inner.slot: the ask whose request and sender it holds *)
          ask,    (* control state of each ask                            *)
          chan,   (* the oneshot channel of each ask                      *)
          conn,   (* control state of each handle_connection task         *)
          shown,  (* the request a connection has sent to its companion   *)
          reply,  (* the choice in the companion's reply line             *)
          holds,  (* the slot a connection took out with slot.take()      *)
          ack     (* the server's last line on the connection             *)

askVars  == <<ask, chan>>
connVars == <<conn, shown, reply, holds, ack>>
vars     == <<slot, ask, chan, conn, shown, reply, holds, ack>>

Choices == {"once", "session", "decline"}

AskStates  == {"idle", "waiting", "elapsed", "chosen", "unavailable"}
ChanStates == {"none", "open", "dropped", "closed"} \cup Choices
ConnStates == {"idle", "polling", "fetching", "shown", "replied", "decided",
               "taken", "closed"}
Acks       == {"none", "empty", "stale", "bad-choice", "ok"}

(* Type invariant: control states and messages are those the code has.     *)
TypeOK ==
  /\ slot  \in Asks \cup {None}
  /\ ask   \in [Asks -> AskStates]
  /\ chan  \in [Asks -> ChanStates]
  /\ conn  \in [Conns -> ConnStates]
  /\ shown \in [Conns -> Asks \cup {None}]
  /\ reply \in [Conns -> Choices \cup {"none", "bad"}]
  /\ holds \in [Conns -> Asks \cup {None}]
  /\ ack   \in [Conns -> Acks]

Init ==
  /\ slot  = None
  /\ ask   = [a \in Asks |-> "idle"]
  /\ chan  = [a \in Asks |-> "none"]
  /\ conn  = [c \in Conns |-> "idle"]
  /\ shown = [c \in Conns |-> None]
  /\ reply = [c \in Conns |-> "none"]
  /\ holds = [c \in Conns |-> None]
  /\ ack   = [c \in Conns |-> "none"]

-----------------------------------------------------------------------------
(* The asking side: ApprovalIpc::ask.                                      *)

(* A second concurrent ask fails closed rather than queueing. *)
AskBusy(a) ==
  /\ ask[a] = "idle" /\ slot # None
  /\ ask' = [ask EXCEPT ![a] = "unavailable"]
  /\ UNCHANGED <<slot, chan>> /\ UNCHANGED connVars

AskInstall(a) ==
  /\ ask[a] = "idle" /\ slot = None
  /\ slot' = a
  /\ ask'  = [ask EXCEPT ![a] = "waiting"]
  /\ chan' = [chan EXCEPT ![a] = "open"]
  /\ UNCHANGED connVars

AskChosen(a) ==
  /\ ask[a] = "waiting" /\ chan[a] \in Choices
  /\ ask' = [ask EXCEPT ![a] = "chosen"]
  /\ UNCHANGED <<slot, chan>> /\ UNCHANGED connVars

(* Mutant: a dropped sender is taken for a consent. *)
AskGone_FailsOpen(a) ==
  /\ ask[a] = "waiting" /\ chan[a] = "dropped"
  /\ ask' = [ask EXCEPT ![a] = "chosen"]
  /\ UNCHANGED <<slot, chan>> /\ UNCHANGED connVars

(* The sender was dropped without a value. *)
AskGone(a) ==
  /\ ask[a] = "waiting" /\ chan[a] = "dropped"
  /\ ask' = [ask EXCEPT ![a] = "unavailable"]
  /\ UNCHANGED <<slot, chan>> /\ UNCHANGED connVars

(* Mutant: the receiver is awaited without a deadline. *)
AskElapsed_NoDeadline(a) ==
  /\ ask[a] = "waiting" /\ chan[a] = "none"
  /\ ask' = [ask EXCEPT ![a] = "elapsed"]
  /\ UNCHANGED <<slot, chan>> /\ UNCHANGED connVars

(* The timeout polls the receiver first: it only elapses while the channel *)
(* is still empty, and it drops the receiver before the slot is reaped.    *)
AskElapsed(a) ==
  /\ ask[a] = "waiting" /\ chan[a] = "open"
  /\ ask'  = [ask EXCEPT ![a] = "elapsed"]
  /\ chan' = [chan EXCEPT ![a] = "closed"]
  /\ UNCHANGED slot /\ UNCHANGED connVars

(* The channel states after the slot `s` and the sender in it are dropped. *)
SenderDropped(s) ==
  [a \in Asks |-> IF a = s /\ chan[a] = "open" THEN "dropped" ELSE chan[a]]

(* Mutant: the expired slot is not reaped. *)
AskReap_KeepsSlot(a) ==
  /\ ask[a] = "elapsed"
  /\ ask' = [ask EXCEPT ![a] = "unavailable"]
  /\ UNCHANGED <<slot, chan>> /\ UNCHANGED connVars

(* "Reap the expired slot": the assignment clears whatever the slot holds. *)
AskReap(a) ==
  /\ ask[a] = "elapsed"
  /\ slot' = None
  /\ chan' = SenderDropped(slot)
  /\ ask'  = [ask EXCEPT ![a] = "unavailable"]
  /\ UNCHANGED connVars

-----------------------------------------------------------------------------
(* The companion side: one handle_connection task per connection.          *)

ConnGoes(c, from, to) ==
  /\ conn[c] = from
  /\ conn' = [conn EXCEPT ![c] = to]

(* Same-uid peer that sent {"op":"wait"}. *)
Connect(c) ==
  /\ ConnGoes(c, "idle", "polling")
  /\ UNCHANGED <<slot, shown, reply, holds, ack>> /\ UNCHANGED askVars

(* The 25ms polling loop ends on a pending slot or at its own deadline. *)
PollEnds(c) ==
  /\ ConnGoes(c, "polling", "fetching")
  /\ UNCHANGED <<slot, shown, reply, holds, ack>> /\ UNCHANGED askVars

(* The slot is read again under a new lock: it may be empty by now. *)
FetchEmpty(c) ==
  /\ slot = None
  /\ ConnGoes(c, "fetching", "closed")
  /\ ack' = [ack EXCEPT ![c] = "empty"]
  /\ UNCHANGED <<slot, shown, reply, holds>> /\ UNCHANGED askVars

FetchRequest(c) ==
  /\ slot # None
  /\ ConnGoes(c, "fetching", "shown")
  /\ shown' = [shown EXCEPT ![c] = slot]
  /\ UNCHANGED <<slot, reply, holds, ack>> /\ UNCHANGED askVars

(* Peer loss or a malformed line: the task returns without a reply. *)
PeerLost(c) ==
  /\ conn[c] \in {"polling", "fetching", "shown"}
  /\ conn' = [conn EXCEPT ![c] = "closed"]
  /\ UNCHANGED <<slot, shown, reply, holds, ack>> /\ UNCHANGED askVars

(* The companion answers the request it was shown, echoing its id *)
(* (src/src/gui/companion.rs); "bad" is any other choice string.  *)
CompanionReplies(c) ==
  /\ ConnGoes(c, "shown", "replied")
  /\ \E ch \in Choices \cup {"bad"} : reply' = [reply EXCEPT ![c] = ch]
  /\ UNCHANGED <<slot, shown, holds, ack>> /\ UNCHANGED askVars

(* First lock: only the matching id is accepted. *)
ReplyStale(c) ==
  /\ slot # shown[c]
  /\ ConnGoes(c, "replied", "closed")
  /\ ack' = [ack EXCEPT ![c] = "stale"]
  /\ UNCHANGED <<slot, shown, reply, holds>> /\ UNCHANGED askVars

ReplyBadChoice(c) ==
  /\ slot = shown[c] /\ reply[c] \notin Choices
  /\ ConnGoes(c, "replied", "closed")
  /\ ack' = [ack EXCEPT ![c] = "bad-choice"]
  /\ UNCHANGED <<slot, shown, reply, holds>> /\ UNCHANGED askVars

ReplyAccepted(c) ==
  /\ slot = shown[c] /\ reply[c] \in Choices
  /\ ConnGoes(c, "replied", "decided")
  /\ UNCHANGED <<slot, shown, reply, holds, ack>> /\ UNCHANGED askVars

(* Mutant: the slot is read and left in place. *)
TakeSlot_Cloned(c) ==
  /\ ConnGoes(c, "decided", "taken")
  /\ holds' = [holds EXCEPT ![c] = slot]
  /\ UNCHANGED <<slot, shown, reply, ack>> /\ UNCHANGED askVars

(* Second lock: slot.take(), whatever the slot holds by now. *)
TakeSlot(c) ==
  /\ ConnGoes(c, "decided", "taken")
  /\ holds' = [holds EXCEPT ![c] = slot]
  /\ slot'  = None
  /\ UNCHANGED <<shown, reply, ack>> /\ UNCHANGED askVars

(* Mutant: the value is stored although the receiver is gone. *)
SendChoice_Late(c) ==
  /\ ConnGoes(c, "taken", "closed")
  /\ chan' = [a \in Asks |-> IF a = holds[c] THEN reply[c] ELSE chan[a]]
  /\ ack'  = [ack EXCEPT ![c] = "ok"]
  /\ UNCHANGED <<slot, ask, shown, reply, holds>>

(* tx.send(choice), its error ignored, then "ok". *)
SendChoice(c) ==
  /\ ConnGoes(c, "taken", "closed")
  /\ chan' = [a \in Asks |-> IF a = holds[c] /\ chan[a] = "open"
                             THEN reply[c] ELSE chan[a]]
  /\ ack'  = [ack EXCEPT ![c] = "ok"]
  /\ UNCHANGED <<slot, ask, shown, reply, holds>>

-----------------------------------------------------------------------------
AskStep(a)  == AskChosen(a) \/ AskGone(a) \/ AskElapsed(a) \/ AskReap(a)
AskNext(a)  == AskBusy(a) \/ AskInstall(a) \/ AskStep(a)
ConnNext(c) ==
  \/ Connect(c) \/ PollEnds(c) \/ FetchEmpty(c) \/ FetchRequest(c)
  \/ PeerLost(c) \/ CompanionReplies(c)
  \/ ReplyStale(c) \/ ReplyBadChoice(c) \/ ReplyAccepted(c)
  \/ TakeSlot(c) \/ SendChoice(c)

Next == (\E a \in Asks : AskNext(a)) \/ (\E c \in Conns : ConnNext(c))

Spec == Init /\ [][Next]_vars

(* The runtime keeps polling an ask until it returns: its timer and the    *)
(* mutex always make progress. Nothing is assumed of companions.           *)
Fairness == \A a \in Asks : WF_vars(AskStep(a))
FairSpec == Spec /\ Fairness

-----------------------------------------------------------------------------
Resolved(a) == ask[a] \in {"chosen", "unavailable"}

(* The slot never outlives its asker: a request that nobody waits for any  *)
(* more would make every later ask fail with "already pending".            *)
SlotHasLiveAsker == slot # None => ask[slot] \in {"waiting", "elapsed"}

(* "never fabricates a choice": an ask only returns a choice that some     *)
(* companion wrote on a connection which took that ask's slot.             *)
NeverFabricated ==
  \A a \in Asks : ask[a] = "chosen" =>
    \E c \in Conns : holds[c] = a /\ reply[c] \in Choices /\ chan[a] = reply[c]

(* Replies are single-use from the asker's side too: no two connections    *)
(* ever take the same ask's slot, so no second answer can overwrite one.   *)
SlotTakenOnce ==
  \A c, d \in Conns : holds[c] # None /\ holds[c] = holds[d] => c = d

(* Once an ask has resolved, its outcome and the value on its channel stay *)
(* what they are: a late reply cannot turn "unavailable" into a choice.    *)
OutcomeStable ==
  [][\A a \in Asks : Resolved(a) => ask'[a] = ask[a] /\ chan'[a] = chan[a]]_vars

(* ask "blocks up to deadline": every ask resolves, whatever companions do. *)
AskResolves == \A a \in Asks : ask[a] = "waiting" ~> Resolved(a)

-----------------------------------------------------------------------------
(* What the documentation claims and the code does not keep.               *)

(* "replies are single-use and id-bound; a mismatched id is rejected": a   *)
(* delivered choice was given for the ask that receives it.                *)
RepliesIdBound ==
  \A c \in Conns : ack[c] = "ok" /\ holds[c] # None => holds[c] = shown[c]
=============================================================================
