---------------------------- MODULE TransportProofs ----------------------------
(***************************************************************************)
(* Proofs about Transport for any number of calls, connections, ports,     *)
(* known_hosts contents, sessions and edits.                               *)
(*                                                                         *)
(* A call keeps its key from run_sql on, so what it is handed by others,   *)
(* a guard, a session or a pool, can be compared with its own key when it  *)
(* is taken (CallInv, GuardInv, PoolInv).  A guard has one holder and a    *)
(* key has one guard in inflight; a guard leaves inflight only when a      *)
(* session of its key is published, and whoever establishes under such a   *)
(* guard has found that session unusable (LostInv).                        *)
(***************************************************************************)
EXTENDS Transport, TLAPS

(* How far the counters have come, and which tunnels are cached. *)
WorldInv ==
  /\ config.rev <= edits
  /\ \A n \in Conns : config.ssh[n] <= edits + 1 /\ config.pw[n] <= edits
  /\ Len(sessions) <= MaxSessions /\ map \subseteq DOMAIN sessions

(* A session was verified against the content of its key, or a later one. *)
SessionInv ==
  /\ \A g \in DOMAIN sessions : sessions[g].key.stamp <= sessions[g].verified
  /\ HostKeyPinned

(* A call leases sessions of its own key only. *)
CallInv(c) ==
  /\ local[c].key.stamp <= file
  /\ local[c].gen # 0 =>
       local[c].gen \in DOMAIN sessions /\ sessions[local[c].gen].key = local[c].key
  /\ pc[c] \in {"idle", "lookup", "join", "wait", "check", "connect"} => local[c].gen = 0
  /\ pc[c] = "publish" => local[c].gen # 0

(* Guards: who has one, under which key, and who holds it. *)
GuardInv(c) ==
  /\ local[c].guard # None <=> pc[c] \in {"wait", "check", "connect", "publish"}
  /\ local[c].guard # None =>
       pc[local[c].guard] # "idle" /\ local[local[c].guard].key = local[c].key
  /\ pc[c] \in {"check", "connect", "publish"} => holder[local[c].guard] = c
  /\ holder[c] # None =>
       local[holder[c]].guard = c /\ pc[holder[c]] \in {"check", "connect", "publish"}
  /\ c \in inflight => pc[c] # "idle"
  /\ \A d \in inflight : c \in inflight /\ local[c].key = local[d].key => c = d

(* A guard that is no longer found was dropped by a publication, and who   *)
(* establishes under it has seen that the published session was lost.      *)
LostInv(c) ==
  local[c].guard # None /\ local[c].guard \notin inflight =>
    /\ \E g \in DOMAIN sessions :
         sessions[g].key = local[c].key /\ (g \in map \/ sessions[g].draining)
    /\ pc[c] \in Establishing =>
         \E g \in DOMAIN sessions : sessions[g].key = local[c].key /\ ~Usable(g)

(* A pool outlives the call that opened it, with what it was opened with. *)
PoolInv(c) ==
  /\ c \in pools => pc[c] \in {"use", "done"}
  /\ pc[c] = "use" =>
       /\ local[c].pool \in Calls /\ pc[local[c].pool] \in {"use", "done"}
       /\ SamePool(local[c].pool, c) /\ SameCredential(local[c].pool, c)

IInv ==
  /\ TypeOK /\ WorldInv /\ SessionInv
  /\ \A c \in Calls : CallInv(c) /\ GuardInv(c) /\ LostInv(c) /\ PoolInv(c)

-----------------------------------------------------------------------------
(* What the types say of a call and of a session.                          *)

SessionType ==
  [key : Key, verified : 1..Len(KnownHostsFiles), hostkey : HostKeys,
   port : Ports, listening : BOOLEAN, live : BOOLEAN, draining : BOOLEAN]

LEMMA Constants ==
  /\ Len(KnownHostsFiles) \in Nat \ {0} /\ KnownHostsFiles \in Seq(File)
  /\ MaxSessions \in Nat /\ MaxEdits \in Nat /\ None \notin Calls
  /\ Conns # {} /\ HasTunnel \subseteq Conns
  /\ Idents = 0..(MaxEdits + 1) /\ Generations = 0..MaxSessions
BY TransportAssumption DEF TransportAssumption, Idents, Generations

LEMMA CallTypes ==
  ASSUME TypeOK, NEW c \in Calls
  PROVE  /\ local[c] \in Locals /\ pc[c] \in PcStates /\ result[c] \in Results
         /\ local[c].key \in Key /\ local[c].pw \in Idents /\ local[c].pool \in Calls \cup {None}
         /\ local[c].guard \in Calls \cup {None} /\ local[c].gen \in Generations
         /\ local[c].key.stamp \in 1..Len(KnownHostsFiles) /\ holder[c] \in Calls \cup {None}
BY DEF TypeOK, Locals, Key

LEMMA SessionTypes ==
  ASSUME TypeOK
  PROVE  /\ Len(sessions) \in Nat /\ DOMAIN sessions = 1..Len(sessions)
         /\ \A g \in DOMAIN sessions :
              /\ sessions[g] \in SessionType /\ sessions[g].key \in Key
              /\ sessions[g].verified \in 1..Len(KnownHostsFiles)
              /\ sessions[g].hostkey \in HostKeys /\ sessions[g].port \in Ports
              /\ sessions[g].key.stamp \in 1..Len(KnownHostsFiles)
<1>1. sessions \in Seq(SessionType)
  BY DEF TypeOK, SessionType
<1>2. Len(sessions) \in Nat /\ DOMAIN sessions = 1..Len(sessions)
  BY <1>1
<1>3. \A g \in 1..Len(sessions) : sessions[g] \in SessionType
  BY <1>1
<1>4. ASSUME NEW x \in SessionType
      PROVE  /\ x.key \in Key /\ x.verified \in 1..Len(KnownHostsFiles)
             /\ x.hostkey \in HostKeys /\ x.port \in Ports
             /\ x.key.stamp \in 1..Len(KnownHostsFiles)
  BY DEF SessionType, Key
<1> QED
  BY <1>2, <1>3, <1>4

(* Rewriting the sessions in place keeps them a sequence. *)
LEMMA RewriteSessions ==
  ASSUME TypeOK, NEW s, DOMAIN s = DOMAIN sessions, s = [g \in DOMAIN s |-> s[g]],
         \A g \in DOMAIN sessions : s[g] \in SessionType
  PROVE  s \in Seq(SessionType) /\ Len(s) = Len(sessions)
<1>1. s \in [1..Len(sessions) -> SessionType] /\ Len(sessions) \in Nat
  BY SessionTypes
<1>2. s \in Seq(SessionType)
  BY <1>1
<1> QED
  BY <1>1, <1>2

LEMMA InitInv == Init => IInv
<1> SUFFICES ASSUME Init PROVE IInv
  OBVIOUS
<1>1. InitKey \in Key /\ InitKey.stamp = 1
  BY Constants DEF InitKey, Key
<1>2. [key |-> InitKey, pw |-> 0, guard |-> None, gen |-> 0, pool |-> None] \in Locals
  BY <1>1, Constants DEF Locals
<1>3. config \in [rev : Idents, ssh : [Conns -> Idents], pw : [Conns -> Idents]]
  BY Constants DEF Init
<1>4. sessions \in Seq(SessionType) /\ Len(sessions) = 0 /\ DOMAIN sessions = {}
  BY DEF Init
<1>5. TypeOK
  BY <1>2, <1>3, <1>4, Constants DEF Init, TypeOK, SessionType, PcStates, Results
<1>6. WorldInv
  BY <1>4, Constants DEF Init, WorldInv
<1>7. SessionInv
  BY <1>4 DEF SessionInv, HostKeyPinned
<1>8. ASSUME NEW c \in Calls PROVE CallInv(c) /\ GuardInv(c) /\ LostInv(c) /\ PoolInv(c)
  BY <1>1, Constants DEF Init, CallInv, GuardInv, LostInv, PoolInv
<1> QED
  BY <1>5, <1>6, <1>7, <1>8 DEF IInv

-----------------------------------------------------------------------------
(* The rest of the world.                                                  *)

LEMMA Counted ==
  \A m, e, x, y \in Nat :
    e + 1 <= m /\ y <= x + 1 =>
      /\ x <= e + 1 => y <= (e + 1) + 1 /\ y \in 0..(m + 1)
      /\ x <= e => y <= e + 1 /\ y \in 0..(m + 1)
OBVIOUS

LEMMA ConfigStep ==
  ASSUME IInv, Edit,
         config' \in [rev : Nat, ssh : [Conns -> Nat], pw : [Conns -> Nat]],
         config'.rev <= config.rev + 1,
         \A n \in Conns : config'.ssh[n] <= config.ssh[n] + 1 /\ config'.pw[n] <= config.pw[n] + 1,
         UNCHANGED <<file, callVars, tunnelVars, poolVars>>
  PROVE  IInv'
<1> USE DEF configVars, callVars, tunnelVars, poolVars
<1>1. edits \in 0..MaxEdits /\ edits' \in 0..MaxEdits /\ edits' = edits + 1
  BY Constants DEF IInv, TypeOK, Edit
<1>2. /\ config.rev \in Nat /\ config.rev <= edits
      /\ \A n \in Conns : /\ config.ssh[n] \in Nat /\ config.pw[n] \in Nat
                          /\ config.ssh[n] <= edits + 1 /\ config.pw[n] <= edits
  BY Constants DEF IInv, TypeOK, WorldInv
<1>3. /\ config'.rev \in Idents /\ config'.rev <= edits'
      /\ \A n \in Conns : /\ config'.ssh[n] \in Idents /\ config'.pw[n] \in Idents
                          /\ config'.ssh[n] <= edits' + 1 /\ config'.pw[n] <= edits'
  <2>1. MaxEdits \in Nat /\ Idents = 0..(MaxEdits + 1)
    BY Constants
  <2>2. config'.rev \in Nat /\ config'.rev <= config.rev + 1
    OBVIOUS
  <2>3. ASSUME NEW n \in Conns
        PROVE  /\ config'.ssh[n] \in Idents /\ config'.pw[n] \in Idents
               /\ config'.ssh[n] <= edits' + 1 /\ config'.pw[n] <= edits'
    <3>1. /\ config'.ssh[n] \in Nat /\ config'.ssh[n] <= config.ssh[n] + 1
          /\ config'.pw[n] \in Nat /\ config'.pw[n] <= config.pw[n] + 1
      OBVIOUS
    <3>2. /\ config.ssh[n] \in Nat /\ config.ssh[n] <= edits + 1
          /\ config.pw[n] \in Nat /\ config.pw[n] <= edits
      BY <1>2
    <3>3. edits \in Nat /\ edits' = edits + 1 /\ edits' <= MaxEdits
      BY <1>1, <2>1
    <3> QED
      BY <2>1, <3>1, <3>2, <3>3, Counted
  <2>4. config'.rev \in Idents /\ config'.rev <= edits'
    BY <1>1, <1>2, <2>1, <2>2
  <2> QED
    BY <2>3, <2>4
<1>4. config' \in [rev : Idents, ssh : [Conns -> Idents], pw : [Conns -> Idents]]
  BY <1>3
<1>5. TypeOK'
  BY <1>1, <1>4 DEF IInv, TypeOK
<1>6. WorldInv'
  BY <1>3 DEF IInv, WorldInv
<1>7. SessionInv'
  BY DEF IInv, SessionInv, HostKeyPinned
<1>8. ASSUME NEW c \in Calls PROVE (CallInv(c) /\ GuardInv(c) /\ LostInv(c) /\ PoolInv(c))'
  <2>1. CallInv(c) /\ GuardInv(c) /\ LostInv(c) /\ PoolInv(c)
    BY DEF IInv
  <2> QED
    BY <2>1 DEF CallInv, GuardInv, LostInv, PoolInv, SamePool, SameCredential, Usable
<1> QED
  BY <1>5, <1>6, <1>7, <1>8 DEF IInv

LEMMA ReconfigureStep ==
  ASSUME IInv, NEW n \in Conns, Reconfigure(n)
  PROVE  IInv'
<1>1. /\ config \in [rev : Idents, ssh : [Conns -> Idents], pw : [Conns -> Idents]]
      /\ Idents \subseteq Nat
  BY Constants DEF IInv, TypeOK
<1>2. PICK s \in {config.ssh[n], config.ssh[n] + 1} :
        config' = [config EXCEPT !.rev = @ + 1, !.ssh[n] = s]
  BY DEF Reconfigure
<1>3. config.ssh[n] \in Nat /\ config.rev \in Nat
  BY <1>1
<1>4. s \in Nat /\ s <= config.ssh[n] + 1
  BY <1>3
<1>5. /\ config'.rev = config.rev + 1 /\ config'.pw = config.pw
      /\ config'.ssh = [config.ssh EXCEPT ![n] = s]
      /\ config' = [rev |-> config'.rev, ssh |-> config'.ssh, pw |-> config'.pw]
  BY <1>1, <1>2
<1>6. config' \in [rev : Nat, ssh : [Conns -> Nat], pw : [Conns -> Nat]]
  BY <1>1, <1>3, <1>4, <1>5
<1>7. \A m \in Conns : config.ssh[m] \in Nat /\ config.pw[m] \in Nat
  BY <1>1
<1>8. \A m \in Conns : config'.ssh[m] <= config.ssh[m] + 1 /\ config'.pw[m] <= config.pw[m] + 1
  BY <1>1, <1>4, <1>5, <1>7
<1> QED
  BY <1>3, <1>5, <1>6, <1>8, ConfigStep DEF Reconfigure

LEMMA RotatePasswordStep ==
  ASSUME IInv, NEW n \in Conns, RotatePassword(n)
  PROVE  IInv'
<1>1. /\ config \in [rev : Idents, ssh : [Conns -> Idents], pw : [Conns -> Idents]]
      /\ Idents \subseteq Nat
  BY Constants DEF IInv, TypeOK
<1>2. config' = [config EXCEPT !.pw[n] = @ + 1]
  BY DEF RotatePassword
<1>3. /\ config'.rev = config.rev /\ config'.ssh = config.ssh
      /\ config'.pw = [config.pw EXCEPT ![n] = config.pw[n] + 1]
      /\ config' = [rev |-> config'.rev, ssh |-> config'.ssh, pw |-> config'.pw]
  BY <1>1, <1>2
<1>4. \A m \in Conns : config.ssh[m] \in Nat /\ config.pw[m] \in Nat
  BY <1>1
<1>5. config' \in [rev : Nat, ssh : [Conns -> Nat], pw : [Conns -> Nat]]
  BY <1>1, <1>3, <1>4
<1>6. config'.rev <= config.rev + 1
  BY <1>1, <1>3
<1>7. \A m \in Conns : config'.ssh[m] <= config.ssh[m] + 1 /\ config'.pw[m] <= config.pw[m] + 1
  BY <1>1, <1>3, <1>4
<1> QED
  BY <1>5, <1>6, <1>7, ConfigStep DEF RotatePassword

LEMMA EditKnownHostsStep ==
  ASSUME IInv, EditKnownHosts
  PROVE  IInv'
<1> USE DEF EditKnownHosts, configVars, callVars, tunnelVars, poolVars
<1>1. edits \in 0..MaxEdits /\ edits' \in 0..MaxEdits /\ edits' = edits + 1
  BY Constants DEF IInv, TypeOK, Edit
<1>2. file \in 1..Len(KnownHostsFiles) /\ file' \in 1..Len(KnownHostsFiles) /\ file <= file'
  BY Constants DEF IInv, TypeOK
<1>3. TypeOK'
  BY <1>1, <1>2 DEF IInv, TypeOK
<1>4. WorldInv'
  <2>1. /\ config.rev \in Nat /\ config.rev <= edits
        /\ \A n \in Conns : /\ config.ssh[n] \in Nat /\ config.pw[n] \in Nat
                            /\ config.ssh[n] <= edits + 1 /\ config.pw[n] <= edits
    BY Constants DEF IInv, TypeOK, WorldInv
  <2> QED
    BY <1>1, <2>1 DEF IInv, WorldInv
<1>5. SessionInv'
  BY DEF IInv, SessionInv, HostKeyPinned
<1>6. ASSUME NEW c \in Calls PROVE (CallInv(c) /\ GuardInv(c) /\ LostInv(c) /\ PoolInv(c))'
  <2>1. CallInv(c) /\ GuardInv(c) /\ LostInv(c) /\ PoolInv(c)
    BY DEF IInv
  <2>2. local[c].key.stamp \in 1..Len(KnownHostsFiles)
    BY CallTypes DEF IInv
  <2>3. CallInv(c)'
    BY <1>2, <2>1, <2>2, Constants DEF CallInv
  <2> QED
    BY <2>1, <2>3 DEF GuardInv, LostInv, PoolInv, SamePool, SameCredential, Usable
<1> QED
  BY <1>3, <1>4, <1>5, <1>6 DEF IInv

(* A session that loses its life or its listener changes nothing else. *)
LEMMA SessionEnds ==
  ASSUME IInv, sessions' \in Seq(SessionType), DOMAIN sessions' = DOMAIN sessions,
         Len(sessions') = Len(sessions),
         \A g \in DOMAIN sessions :
           /\ sessions'[g].key = sessions[g].key /\ sessions'[g].verified = sessions[g].verified
           /\ sessions'[g].hostkey = sessions[g].hostkey
           /\ sessions'[g].draining = sessions[g].draining
           /\ sessions'[g].live => sessions[g].live,
         UNCHANGED <<configVars, callVars, map, older, inflight, holder, poolVars>>
  PROVE  IInv'
<1> USE DEF configVars, callVars, poolVars
<1>1. TypeOK'
  BY DEF IInv, TypeOK, SessionType
<1>2. WorldInv'
  BY DEF IInv, WorldInv
<1>3. SessionInv'
  BY DEF IInv, SessionInv, HostKeyPinned
<1>4. ASSUME NEW c \in Calls PROVE (CallInv(c) /\ GuardInv(c) /\ LostInv(c) /\ PoolInv(c))'
  <2>1. CallInv(c) /\ GuardInv(c) /\ LostInv(c) /\ PoolInv(c)
    BY DEF IInv
  <2>2. CallInv(c)'
    BY <2>1 DEF CallInv
  <2>3. GuardInv(c)' /\ PoolInv(c)'
    BY <2>1 DEF GuardInv, PoolInv, SamePool, SameCredential
  <2>4. LostInv(c)'
    BY <2>1 DEF LostInv, Usable
  <2> QED
    BY <2>2, <2>3, <2>4
<1> QED
  BY <1>1, <1>2, <1>3, <1>4 DEF IInv

LEMMA SessionDiesStep ==
  ASSUME IInv, NEW g \in DOMAIN sessions, SessionDies(g)
  PROVE  IInv'
<1>1. sessions' = [sessions EXCEPT ![g] = [@ EXCEPT !.live = FALSE]]
  BY DEF SessionDies
<1>2. TypeOK /\ sessions[g] \in SessionType
  BY SessionTypes DEF IInv
<1>3. [sessions[g] EXCEPT !.live = FALSE] \in SessionType
  BY <1>2 DEF SessionType
<1>4. /\ DOMAIN sessions' = DOMAIN sessions
      /\ sessions' \in Seq(SessionType) /\ Len(sessions') = Len(sessions)
  BY <1>1, <1>2, <1>3, SessionTypes, RewriteSessions
<1>5. \A h \in DOMAIN sessions :
        /\ sessions'[h].key = sessions[h].key /\ sessions'[h].verified = sessions[h].verified
        /\ sessions'[h].hostkey = sessions[h].hostkey
        /\ sessions'[h].draining = sessions[h].draining
        /\ sessions'[h].live => sessions[h].live
  BY <1>1, <1>2, SessionTypes DEF SessionType
<1> QED
  BY <1>4, <1>5, SessionEnds DEF SessionDies

LEMMA ListenerStopsStep ==
  ASSUME IInv, NEW g \in DOMAIN sessions, ListenerStops(g)
  PROVE  IInv'
<1>1. sessions' = [sessions EXCEPT ![g] = [@ EXCEPT !.listening = FALSE]]
  BY DEF ListenerStops
<1>2. TypeOK /\ sessions[g] \in SessionType
  BY SessionTypes DEF IInv
<1>3. [sessions[g] EXCEPT !.listening = FALSE] \in SessionType
  BY <1>2 DEF SessionType
<1>4. /\ DOMAIN sessions' = DOMAIN sessions
      /\ sessions' \in Seq(SessionType) /\ Len(sessions') = Len(sessions)
  BY <1>1, <1>2, <1>3, SessionTypes, RewriteSessions
<1>5. \A h \in DOMAIN sessions :
        /\ sessions'[h].key = sessions[h].key /\ sessions'[h].verified = sessions[h].verified
        /\ sessions'[h].hostkey = sessions[h].hostkey
        /\ sessions'[h].draining = sessions[h].draining
        /\ sessions'[h].live => sessions[h].live
  BY <1>1, <1>2, SessionTypes DEF SessionType
<1> QED
  BY <1>4, <1>5, SessionEnds DEF ListenerStops

-----------------------------------------------------------------------------
(* What the updates of a step do.                                          *)

LEMMA GotoFacts ==
  ASSUME TypeOK, NEW c \in Calls, NEW to \in PcStates, Goto(c, to)
  PROVE  pc' \in [Calls -> PcStates] /\ pc'[c] = to /\ \A d \in Calls \ {c} : pc'[d] = pc[d]
BY DEF TypeOK, Goto

LEMMA ReturnFacts ==
  ASSUME TypeOK, NEW c \in Calls, NEW r \in Results, Return(c, r)
  PROVE  /\ pc' \in [Calls -> PcStates] /\ pc'[c] = "done"
         /\ result' \in [Calls -> Results] /\ \A d \in Calls \ {c} : pc'[d] = pc[d]
BY DEF TypeOK, Return, Goto, PcStates

(* Only c's record is written. *)
Writes(c, key, pw, guard, gen, pool) ==
  /\ local' \in [Calls -> Locals]
  /\ \A d \in Calls \ {c} : local'[d] = local[d]
  /\ local'[c].key = key /\ local'[c].pw = pw /\ local'[c].guard = guard
  /\ local'[c].gen = gen /\ local'[c].pool = pool

LEMMA WriteFacts ==
  ASSUME TypeOK, NEW c \in Calls, NEW r \in Locals, local' = [local EXCEPT ![c] = r]
  PROVE  Writes(c, r.key, r.pw, r.guard, r.gen, r.pool)
BY DEF TypeOK, Writes

LEMMA CallFacts ==
  ASSUME TypeOK, NEW c \in Calls, NEW n \in Conns,
         local' = [local EXCEPT ![c] = [@ EXCEPT !.key = tunnel_key(n), !.pw = config.pw[n]]]
  PROVE  /\ tunnel_key(n) \in Key /\ tunnel_key(n).stamp = file
         /\ Writes(c, tunnel_key(n), config.pw[n], local[c].guard, local[c].gen, local[c].pool)
<1>1. tunnel_key(n) \in Key /\ tunnel_key(n).stamp = file /\ config.pw[n] \in Idents
  BY DEF TypeOK, tunnel_key, Key
<1> DEFINE k == tunnel_key(n)
           r == [local[c] EXCEPT !.key = k, !.pw = config.pw[n]]
<1> HIDE DEF k
<1>2. /\ r \in Locals /\ r.key = k /\ r.pw = config.pw[n] /\ r.guard = local[c].guard
      /\ r.gen = local[c].gen /\ r.pool = local[c].pool
  BY <1>1, CallTypes DEF Locals, k
<1>3. local' = [local EXCEPT ![c] = r]
  BY DEF k
<1> HIDE DEF r
<1>4. Writes(c, k, config.pw[n], local[c].guard, local[c].gen, local[c].pool)
  BY <1>2, <1>3, WriteFacts
<1> QED
  BY <1>1, <1>4 DEF k

LEMMA LeaseFacts ==
  ASSUME TypeOK, NEW c \in Calls, NEW g \in Generations,
         local' = [local EXCEPT ![c] = [@ EXCEPT !.gen = g, !.guard = None]]
  PROVE  Writes(c, local[c].key, local[c].pw, None, g, local[c].pool)
<1> DEFINE r == [local[c] EXCEPT !.gen = g, !.guard = None]
<1>1. /\ r \in Locals /\ r.key = local[c].key /\ r.pw = local[c].pw /\ r.guard = None
      /\ r.gen = g /\ r.pool = local[c].pool
  BY CallTypes DEF Locals
<1>2. local' = [local EXCEPT ![c] = r]
  OBVIOUS
<1> HIDE DEF r
<1> QED
  BY <1>1, <1>2, WriteFacts

LEMMA GuardFacts ==
  ASSUME TypeOK, NEW c \in Calls, NEW d \in Calls \cup {None},
         local' = [local EXCEPT ![c].guard = d]
  PROVE  Writes(c, local[c].key, local[c].pw, d, local[c].gen, local[c].pool)
<1> DEFINE r == [local[c] EXCEPT !.guard = d]
<1>1. /\ r \in Locals /\ r.key = local[c].key /\ r.pw = local[c].pw /\ r.guard = d
      /\ r.gen = local[c].gen /\ r.pool = local[c].pool
  BY CallTypes DEF Locals
<1>2. local' = [local EXCEPT ![c] = r]
  OBVIOUS
<1> HIDE DEF r
<1> QED
  BY <1>1, <1>2, WriteFacts

LEMMA GenFacts ==
  ASSUME TypeOK, NEW c \in Calls, NEW g \in Generations,
         local' = [local EXCEPT ![c].gen = g]
  PROVE  Writes(c, local[c].key, local[c].pw, local[c].guard, g, local[c].pool)
<1> DEFINE r == [local[c] EXCEPT !.gen = g]
<1>1. /\ r \in Locals /\ r.key = local[c].key /\ r.pw = local[c].pw /\ r.guard = local[c].guard
      /\ r.gen = g /\ r.pool = local[c].pool
  BY CallTypes DEF Locals
<1>2. local' = [local EXCEPT ![c] = r]
  OBVIOUS
<1> HIDE DEF r
<1> QED
  BY <1>1, <1>2, WriteFacts

LEMMA PoolFacts ==
  ASSUME TypeOK, NEW c \in Calls, NEW p \in Calls,
         local' = [local EXCEPT ![c].pool = p]
  PROVE  Writes(c, local[c].key, local[c].pw, local[c].guard, local[c].gen, p)
<1> DEFINE r == [local[c] EXCEPT !.pool = p]
<1>1. /\ r \in Locals /\ r.key = local[c].key /\ r.pw = local[c].pw /\ r.guard = local[c].guard
      /\ r.gen = local[c].gen /\ r.pool = p
  BY CallTypes DEF Locals
<1>2. local' = [local EXCEPT ![c] = r]
  OBVIOUS
<1> HIDE DEF r
<1> QED
  BY <1>1, <1>2, WriteFacts

LEMMA ReleasedFacts ==
  ASSUME TypeOK, NEW c \in Calls, local[c].guard # None, holder' = Released(c)
  PROVE  /\ holder' \in [Calls -> Calls \cup {None}] /\ holder'[local[c].guard] = None
         /\ \A d \in Calls \ {local[c].guard} : holder'[d] = holder[d]
BY CallTypes DEF TypeOK, Released

LEMMA TouchedFacts ==
  ASSUME TypeOK, NEW G \in SUBSET (1..MaxSessions), NEW g \in G, older' = Touched(G, g)
  PROVE  older' \subseteq (1..MaxSessions) \X (1..MaxSessions)
BY DEF TypeOK, Touched

(* The generations so far are within the bound. *)
LEMMA Generated ==
  ASSUME IInv
  PROVE  DOMAIN sessions \in SUBSET (1..MaxSessions)
BY SessionTypes, Constants DEF IInv, WorldInv

(* The parts of the invariant that only the sessions and the map matter to. *)
LEMMA Untouched ==
  ASSUME IInv, UNCHANGED <<configVars, sessions, map>>
  PROVE  WorldInv' /\ SessionInv'
BY DEF IInv, WorldInv, SessionInv, HostKeyPinned, configVars

-----------------------------------------------------------------------------
(* The steps of a call.                                                    *)

LEMMA CallStep ==
  ASSUME IInv, NEW c \in Calls, NEW n \in Conns, Call(c, n)
  PROVE  IInv'
<1> DEFINE k  == tunnel_key(n)
           to == IF config.ssh[n] = 0 THEN "pool" ELSE "lookup"
<1>1. /\ TypeOK /\ pc[c] = "idle"
      /\ UNCHANGED <<result, configVars, tunnelVars, poolVars>>
      /\ to \in {"pool", "lookup"} /\ Goto(c, to)
  BY DEF IInv, Call
<1>2. /\ k \in Key /\ k.stamp = file
      /\ Writes(c, k, config.pw[n], local[c].guard, local[c].gen, local[c].pool)
  BY <1>1, CallFacts DEF Call
<1> HIDE DEF k, to
<1>3. pc' \in [Calls -> PcStates] /\ pc'[c] \in {"pool", "lookup"} /\ \A d \in Calls \ {c} : pc'[d] = pc[d]
  BY <1>1, GotoFacts DEF PcStates
<1>4. \A d \in Calls : CallInv(d) /\ GuardInv(d) /\ LostInv(d) /\ PoolInv(d)
  BY DEF IInv
<1>5. local[c].gen = 0 /\ local[c].guard = None
  BY <1>1, <1>4 DEF CallInv, GuardInv
<1> USE DEF configVars, tunnelVars, poolVars
<1>6. TypeOK'
  BY <1>1, <1>2, <1>3 DEF TypeOK, Writes
<1>7. WorldInv' /\ SessionInv'
  BY <1>1, Untouched
<1>8. ASSUME NEW d \in Calls PROVE CallInv(d)'
  <2>1. CASE d = c
    <3>1. file \in Nat
      BY <1>1, Constants DEF TypeOK
    <3> QED
      BY <1>1, <1>2, <1>3, <1>5, <2>1, <3>1 DEF CallInv, Writes
  <2>2. CASE d # c
    BY <1>1, <1>2, <1>3, <1>4, <2>2 DEF CallInv, Writes
  <2> QED
    BY <2>1, <2>2
<1>9. ASSUME NEW d \in Calls PROVE GuardInv(d)' /\ LostInv(d)'
  <2>1. CASE d = c
    <3>1. holder[c] \in Calls \cup {None} /\ c \notin inflight
      BY <1>1, <1>4, CallTypes DEF GuardInv
    <3> QED
      BY <1>1, <1>2, <1>3, <1>4, <1>5, <2>1, <3>1 DEF GuardInv, LostInv, Writes
  <2>2. CASE d # c
    <3>1. /\ local[d].guard \in Calls \cup {None} /\ holder[d] \in Calls \cup {None}
          /\ local[d].guard # c /\ holder[d] # c /\ c \notin inflight
      <4>1. c # None /\ GuardInv(d) /\ GuardInv(c)
        BY <1>4, Constants
      <4> QED
        BY <1>1, <4>1, CallTypes DEF GuardInv
    <3>2. local'[d] = local[d] /\ pc'[d] = pc[d] /\ UNCHANGED <<sessions, map, inflight, holder>>
      BY <1>1, <1>2, <1>3, <2>2 DEF Writes
    <3>3. GuardInv(d)'
      <4>1. \A e \in Calls \ {c} : local'[e] = local[e] /\ pc'[e] = pc[e]
        BY <1>2, <1>3 DEF Writes
      <4>2. GuardInv(d) /\ \A e \in inflight : e \in Calls \ {c}
        BY <1>1, <1>4, <3>1 DEF TypeOK
      <4> QED
        BY <2>2, <3>1, <3>2, <4>1, <4>2 DEF GuardInv
    <3>4. LostInv(d)'
      BY <1>4, <3>2 DEF LostInv, Usable
    <3> QED
      BY <3>3, <3>4
  <2> QED
    BY <2>1, <2>2
<1>10. ASSUME NEW d \in Calls PROVE PoolInv(d)'
  BY <1>1, <1>2, <1>3, <1>4 DEF PoolInv, Writes, SamePool, SameCredential
<1> QED
  BY <1>6, <1>7, <1>8, <1>9, <1>10 DEF IInv

LEMMA CachedFacts ==
  ASSUME IInv, NEW g \in map
  PROVE  g \in DOMAIN sessions /\ g \in Generations /\ g # 0
<1>1. g \in DOMAIN sessions /\ g \in 1..MaxSessions
  BY DEF IInv, WorldInv, TypeOK
<1> QED
  BY <1>1, Constants

(* A step of a call that has no guard leaves the guards alone. *)
LEMMA GuardsKept ==
  ASSUME IInv, NEW c \in Calls, UNCHANGED <<sessions, map, inflight, holder>>,
         pc[c] \in {"lookup", "join", "pool", "store", "use"},
         pc'[c] \in {"lookup", "join", "pool", "store", "use", "done"},
         \A d \in Calls \ {c} : pc'[d] = pc[d],
         \A d \in Calls : local'[d].key = local[d].key /\ local'[d].guard = local[d].guard
  PROVE  \A d \in Calls : GuardInv(d)' /\ LostInv(d)'
<1> SUFFICES ASSUME NEW d \in Calls PROVE GuardInv(d)' /\ LostInv(d)'
  OBVIOUS
<1>1. TypeOK /\ GuardInv(c) /\ GuardInv(d) /\ LostInv(d)
  BY DEF IInv
<1>2. /\ \A e \in inflight : e \in Calls
      /\ holder[d] \in Calls \cup {None} /\ local[d].guard \in Calls \cup {None}
  BY <1>1, CallTypes DEF TypeOK
<1>3. local[c].guard = None /\ c # None /\ (holder[d] # None => holder[d] # c)
  BY <1>1, Constants DEF GuardInv
<1>4. GuardInv(d)'
  BY <1>1, <1>2, <1>3 DEF GuardInv
<1>5. LostInv(d)'
  <2>1. CASE d = c
    BY <1>3, <2>1 DEF LostInv
  <2>2. CASE d # c
    <3>1. pc'[d] = pc[d] /\ local'[d].key = local[d].key /\ local'[d].guard = local[d].guard
      BY <2>2
    <3> QED
      BY <1>1, <3>1 DEF LostInv, Usable
  <2> QED
    BY <2>1, <2>2
<1> QED
  BY <1>4, <1>5

(* A call on its way to a pool has none in the cache that others use. *)
LEMMA PoolsKept ==
  ASSUME IInv, NEW c \in Calls, pools' \subseteq pools,
         pc[c] \notin {"use", "done"}, pc'[c] # "use",
         \A d \in Calls \ {c} : pc'[d] = pc[d] /\ local'[d].key = local[d].key
           /\ local'[d].pw = local[d].pw /\ local'[d].gen = local[d].gen /\ local'[d].pool = local[d].pool
  PROVE  \A d \in Calls : PoolInv(d)'
<1> SUFFICES ASSUME NEW d \in Calls PROVE PoolInv(d)'
  OBVIOUS
<1>1. PoolInv(d) /\ PoolInv(c)
  BY DEF IInv
<1>2. CASE d = c
  BY <1>1, <1>2 DEF PoolInv
<1>3. CASE d # c
  <2>1. pc[d] = "use" => local[d].pool \in Calls \ {c}
    BY <1>1 DEF PoolInv
  <2> QED
    BY <1>1, <1>3, <2>1 DEF PoolInv, SamePool, SameCredential
<1> QED
  BY <1>2, <1>3

LEMMA LookupStep ==
  ASSUME IInv, NEW c \in Calls, Lookup(c)
  PROVE  IInv'
<1>1. /\ TypeOK /\ pc[c] = "lookup"
      /\ UNCHANGED <<result, configVars, sessions, map, inflight, holder, poolVars>>
  BY DEF IInv, Lookup
<1>2. \A d \in Calls : CallInv(d) /\ GuardInv(d) /\ LostInv(d) /\ PoolInv(d)
  BY DEF IInv
<1>3. WorldInv' /\ SessionInv'
  BY <1>1, Untouched
<1> USE DEF configVars, poolVars
<1>4. CASE \E g \in Cached(local[c].key) : Lease(c, g)
  <2>1. PICK g \in map : sessions[g].key = local[c].key /\ Lease(c, g)
    BY <1>4 DEF Cached
  <2>2. g \in DOMAIN sessions /\ g \in Generations /\ g # 0
    BY <2>1, CachedFacts
  <2>3. /\ Writes(c, local[c].key, local[c].pw, None, g, local[c].pool)
        /\ local[c].guard = None
    BY <1>1, <1>2, <2>1, <2>2, LeaseFacts DEF Lease, GuardInv
  <2>4. pc' \in [Calls -> PcStates] /\ pc'[c] = "pool" /\ \A d \in Calls \ {c} : pc'[d] = pc[d]
    BY <1>1, <2>1, GotoFacts DEF Lease, PcStates
  <2>5. older' \subseteq (1..MaxSessions) \X (1..MaxSessions)
    BY <1>1, <2>1, <2>2, Generated, TouchedFacts DEF Lease
  <2>6. TypeOK'
    BY <1>1, <2>3, <2>4, <2>5 DEF TypeOK, Writes
  <2>7. \A d \in Calls : CallInv(d)'
    BY <1>1, <1>2, <2>1, <2>2, <2>3, <2>4 DEF CallInv, Writes
  <2>8. \A d \in Calls : GuardInv(d)' /\ LostInv(d)'
    BY <1>1, <2>3, <2>4, GuardsKept DEF Writes
  <2>9. \A d \in Calls : PoolInv(d)'
    BY <1>1, <2>3, <2>4, PoolsKept DEF Writes
  <2> QED
    BY <1>3, <2>6, <2>7, <2>8, <2>9 DEF IInv
<1>5. CASE Goto(c, "join") /\ UNCHANGED <<local, older>>
  <2>1. pc' \in [Calls -> PcStates] /\ pc'[c] = "join" /\ \A d \in Calls \ {c} : pc'[d] = pc[d]
    BY <1>1, <1>5, GotoFacts DEF PcStates
  <2>2. TypeOK'
    BY <1>1, <1>5, <2>1 DEF TypeOK
  <2>3. \A d \in Calls : CallInv(d)'
    BY <1>1, <1>2, <1>5, <2>1 DEF CallInv
  <2>4. \A d \in Calls : GuardInv(d)' /\ LostInv(d)'
    BY <1>1, <1>5, <2>1, GuardsKept
  <2>5. \A d \in Calls : PoolInv(d)'
    BY <1>1, <1>5, <2>1, PoolsKept
  <2> QED
    BY <1>3, <2>2, <2>3, <2>4, <2>5 DEF IInv
<1> QED
  BY <1>4, <1>5 DEF Lookup

(* What was said of a guard that was dropped stays true. *)
LEMMA LostKept ==
  ASSUME IInv, NEW d \in Calls, DOMAIN sessions \subseteq DOMAIN sessions',
         \A g \in DOMAIN sessions :
           /\ sessions'[g].key = sessions[g].key
           /\ sessions[g].draining => sessions'[g].draining
           /\ ~Usable(g) => ~Usable(g)'
           /\ g \in map => g \in map' \/ sessions'[g].draining,
         local'[d].key = local[d].key, local'[d].guard = local[d].guard,
         local[d].guard \in inflight => local[d].guard \in inflight',
         pc'[d] \in Establishing => pc[d] \in Establishing
  PROVE  LostInv(d)'
<1> SUFFICES ASSUME local[d].guard # None, local[d].guard \notin inflight'
             PROVE  LostInv(d)'
  BY DEF LostInv
<1>1. LostInv(d) /\ local[d].guard \notin inflight
  BY DEF IInv
<1>2. PICK g \in DOMAIN sessions :
        sessions[g].key = local[d].key /\ (g \in map \/ sessions[g].draining)
  BY <1>1 DEF LostInv
<1>3. g \in DOMAIN sessions' /\ sessions'[g].key = local'[d].key /\ (g \in map' \/ sessions'[g].draining)
  BY <1>2
<1>4. ASSUME pc'[d] \in Establishing
      PROVE  \E h \in DOMAIN sessions' : sessions'[h].key = local'[d].key /\ ~Usable(h)'
  <2>1. PICK h \in DOMAIN sessions : sessions[h].key = local[d].key /\ ~Usable(h)
    BY <1>1, <1>4 DEF LostInv
  <2> QED
    BY <2>1
<1> QED
  BY <1>3, <1>4 DEF LostInv

(* The holder of a guard leaves and releases it. *)
LEMMA GuardGivenBack ==
  ASSUME IInv, NEW c \in Calls, pc[c] \in {"check", "connect", "publish"}, holder' = Released(c),
         inflight' \subseteq inflight, pc'[c] \in {"pool", "done"}, local'[c].guard = None,
         \A d \in Calls \ {c} : pc'[d] = pc[d] /\ local'[d].guard = local[d].guard,
         \A d \in Calls : local'[d].key = local[d].key
  PROVE  \A d \in Calls : GuardInv(d)'
<1> DEFINE g == local[c].guard
<1>1. TypeOK /\ \A d \in Calls : GuardInv(d)
  BY DEF IInv
<1>2. g \in Calls /\ g # None /\ holder[g] = c /\ c # None
  BY <1>1, CallTypes, Constants DEF GuardInv
<1> HIDE DEF g
<1>3. holder'[g] = None /\ \A d \in Calls \ {g} : holder'[d] = holder[d]
  BY <1>1, <1>2, ReleasedFacts DEF g
<1> SUFFICES ASSUME NEW d \in Calls PROVE GuardInv(d)'
  OBVIOUS
<1>4. /\ holder[d] \in Calls \cup {None} /\ local[d].guard \in Calls \cup {None}
      /\ \A e \in inflight : e \in Calls
  BY <1>1, CallTypes DEF TypeOK
<1>5. pc'[d] \in {"check", "connect", "publish"} => holder'[local'[d].guard] = d
  <2> SUFFICES ASSUME pc'[d] \in {"check", "connect", "publish"} PROVE holder'[local'[d].guard] = d
    OBVIOUS
  <2>1. d # c /\ pc[d] \in {"check", "connect", "publish"} /\ local'[d].guard = local[d].guard
    OBVIOUS
  <2>2. holder[local[d].guard] = d /\ local[d].guard # None
    BY <1>1, <2>1 DEF GuardInv
  <2>3. local[d].guard # g
    BY <1>2, <2>1, <2>2
  <2> QED
    BY <1>3, <1>4, <2>1, <2>2, <2>3
<1>6. holder'[d] # None =>
        local'[holder'[d]].guard = d /\ pc'[holder'[d]] \in {"check", "connect", "publish"}
  <2> SUFFICES ASSUME holder'[d] # None
               PROVE  local'[holder'[d]].guard = d /\ pc'[holder'[d]] \in {"check", "connect", "publish"}
    OBVIOUS
  <2>1. d # g /\ holder'[d] = holder[d] /\ holder[d] # None
    BY <1>3
  <2>2. local[holder[d]].guard = d /\ pc[holder[d]] \in {"check", "connect", "publish"}
    BY <1>1, <2>1 DEF GuardInv
  <2>3. holder[d] # c
    BY <2>1, <2>2 DEF g
  <2> QED
    BY <1>4, <2>1, <2>2, <2>3
<1>7. GuardInv(d) /\ GuardInv(c)
  BY <1>1
<1> QED
  BY <1>4, <1>5, <1>6, <1>7 DEF GuardInv

LEMMA JoinStep ==
  ASSUME IInv, NEW c \in Calls, Join(c)
  PROVE  IInv'
<1>1. /\ TypeOK /\ pc[c] = "join" /\ Goto(c, "wait")
      /\ UNCHANGED <<result, configVars, sessions, map, older, holder, poolVars>>
  BY DEF IInv, Join
<1>2. \A d \in Calls : CallInv(d) /\ GuardInv(d) /\ LostInv(d) /\ PoolInv(d)
  BY DEF IInv
<1>3. PICK g \in IF GuardOf(c) = {} THEN {c} ELSE GuardOf(c) :
        inflight' = inflight \cup {g} /\ local' = [local EXCEPT ![c].guard = g]
  BY DEF Join
<1>4. inflight \subseteq Calls /\ c # None
  BY <1>1, Constants DEF TypeOK
<1>5. g \in Calls /\ g # None /\ local[g].key = local[c].key /\ pc[g] # "idle"
  BY <1>1, <1>2, <1>3, <1>4, Constants DEF GuardOf, GuardInv
<1>6. \A d, e \in inflight' : local[d].key = local[e].key => d = e
  <2>1. \A d, e \in inflight : local[d].key = local[e].key => d = e
    BY <1>2, <1>4 DEF GuardInv
  <2>2. CASE GuardOf(c) = {}
    BY <1>3, <2>1, <2>2 DEF GuardOf
  <2>3. CASE GuardOf(c) # {}
    BY <1>3, <2>1, <2>3 DEF GuardOf
  <2> QED
    BY <2>2, <2>3
<1>7. Writes(c, local[c].key, local[c].pw, g, local[c].gen, local[c].pool)
  BY <1>1, <1>3, <1>5, GuardFacts
<1>8. pc' \in [Calls -> PcStates] /\ pc'[c] = "wait" /\ \A d \in Calls \ {c} : pc'[d] = pc[d]
  BY <1>1, GotoFacts DEF PcStates
<1> USE DEF configVars, poolVars
<1>9. TypeOK'
  BY <1>1, <1>3, <1>5, <1>7, <1>8 DEF TypeOK, Writes
<1>10. WorldInv' /\ SessionInv'
  BY <1>1, Untouched
<1>11. \A d \in Calls : CallInv(d)'
  BY <1>1, <1>2, <1>7, <1>8 DEF CallInv, Writes
<1>12. ASSUME NEW d \in Calls PROVE GuardInv(d)'
  <2>1. /\ GuardInv(d) /\ local[c].guard = None
        /\ holder[d] \in Calls \cup {None} /\ local[d].guard \in Calls \cup {None}
    BY <1>1, <1>2, CallTypes DEF GuardInv
  <2>2. holder[d] # None => holder[d] # c
    BY <1>1, <2>1 DEF GuardInv
  <2>3. \A e \in Calls : local'[e].key = local[e].key /\ (pc[e] # "idle" => pc'[e] # "idle")
    BY <1>7, <1>8 DEF Writes
  <2>4. d \in inflight' => pc'[d] # "idle"
    BY <1>3, <1>5, <2>1, <2>3 DEF GuardInv
  <2>5. \A e \in inflight' : d \in inflight' /\ local'[d].key = local'[e].key => d = e
    BY <1>3, <1>4, <1>5, <1>6, <2>3
  <2>6. CASE d = c
    <3>1. local'[c].guard = g /\ local'[g].key = local'[c].key /\ pc'[g] # "idle"
      BY <1>5, <1>7, <2>3 DEF Writes
    <3>2. holder'[c] # None =>
            local'[holder'[c]].guard = c /\ pc'[holder'[c]] \in {"check", "connect", "publish"}
      BY <1>1, <1>7, <1>8, <2>1, <2>2, <2>6 DEF Writes, GuardInv
    <3> QED
      BY <1>5, <1>8, <2>4, <2>5, <2>6, <3>1, <3>2 DEF GuardInv
  <2>7. CASE d # c
    <3>1. local'[d] = local[d] /\ pc'[d] = pc[d]
      BY <1>7, <1>8, <2>7 DEF Writes
    <3>2. holder'[d] # None =>
            local'[holder'[d]].guard = d /\ pc'[holder'[d]] \in {"check", "connect", "publish"}
      BY <1>1, <1>7, <1>8, <2>1, <2>2 DEF Writes, GuardInv
    <3> QED
      BY <1>1, <2>1, <2>3, <2>4, <2>5, <3>1, <3>2 DEF GuardInv
  <2> QED
    BY <2>6, <2>7
<1>13. ASSUME NEW d \in Calls PROVE LostInv(d)'
  <2>1. CASE d = c
    BY <1>3, <1>7, <2>1 DEF LostInv, Writes
  <2>2. CASE d # c
    BY <1>1, <1>3, <1>7, <1>8, <2>2, LostKept DEF Writes, Usable
  <2> QED
    BY <2>1, <2>2
<1>14. \A d \in Calls : PoolInv(d)'
  BY <1>1, <1>7, <1>8, PoolsKept DEF Writes
<1> QED
  BY <1>9, <1>10, <1>11, <1>12, <1>13, <1>14 DEF IInv

LEMMA AcquireStep ==
  ASSUME IInv, NEW c \in Calls, Acquire(c)
  PROVE  IInv'
<1> DEFINE g == local[c].guard
<1>1. /\ TypeOK /\ pc[c] = "wait" /\ holder[g] = None /\ Goto(c, "check")
      /\ holder' = [holder EXCEPT ![g] = c]
      /\ UNCHANGED <<local, result, configVars, sessions, map, older, inflight, poolVars>>
  BY DEF IInv, Acquire
<1>2. \A d \in Calls : CallInv(d) /\ GuardInv(d) /\ LostInv(d) /\ PoolInv(d)
  BY DEF IInv
<1>3. g \in Calls /\ g # None /\ c # None
  BY <1>1, <1>2, CallTypes, Constants DEF GuardInv
<1> HIDE DEF g
<1>4. pc' \in [Calls -> PcStates] /\ pc'[c] = "check" /\ \A d \in Calls \ {c} : pc'[d] = pc[d]
  BY <1>1, GotoFacts DEF PcStates
<1>5. /\ holder' \in [Calls -> Calls \cup {None}] /\ holder'[g] = c
      /\ \A d \in Calls \ {g} : holder'[d] = holder[d]
  BY <1>1, <1>3 DEF TypeOK
<1> USE DEF configVars, poolVars
<1>6. TypeOK'
  BY <1>1, <1>4, <1>5 DEF TypeOK
<1>7. WorldInv' /\ SessionInv'
  BY <1>1, Untouched
<1>8. \A d \in Calls : CallInv(d)'
  BY <1>1, <1>2, <1>4 DEF CallInv
<1>9. ASSUME NEW d \in Calls PROVE GuardInv(d)'
  <2>1. /\ GuardInv(d) /\ holder[d] \in Calls \cup {None} /\ local[d].guard \in Calls \cup {None}
        /\ \A e \in inflight : e \in Calls
    BY <1>1, <1>2, CallTypes DEF TypeOK
  <2>2. pc'[d] \in {"check", "connect", "publish"} => holder'[local[d].guard] = d
    <3>1. CASE d = c
      BY <1>5, <3>1 DEF g
    <3>2. CASE d # c
      <4> SUFFICES ASSUME pc'[d] \in {"check", "connect", "publish"} PROVE holder'[local[d].guard] = d
        OBVIOUS
      <4>1. holder[local[d].guard] = d /\ local[d].guard # None /\ d # None
        BY <1>4, <2>1, <3>2, Constants DEF GuardInv
      <4>2. local[d].guard # g
        BY <1>1, <4>1
      <4> QED
        BY <1>5, <2>1, <4>1, <4>2
    <3> QED
      BY <3>1, <3>2
  <2>3. holder'[d] # None =>
          local[holder'[d]].guard = d /\ pc'[holder'[d]] \in {"check", "connect", "publish"}
    <3>1. CASE d = g
      BY <1>4, <1>5, <3>1 DEF g
    <3>2. CASE d # g
      BY <1>1, <1>4, <1>5, <2>1, <3>2 DEF GuardInv
    <3> QED
      BY <3>1, <3>2
  <2>4. /\ pc'[d] \in {"wait", "check", "connect", "publish"} <=> pc[d] \in {"wait", "check", "connect", "publish"}
        /\ \A e \in Calls : pc[e] # "idle" => pc'[e] # "idle"
    BY <1>1, <1>4
  <2> QED
    BY <1>1, <2>1, <2>2, <2>3, <2>4 DEF GuardInv
<1>10. ASSUME NEW d \in Calls PROVE LostInv(d)'
  <2>1. pc'[d] \in Establishing => pc[d] \in Establishing
    BY <1>4 DEF Establishing
  <2> QED
    BY <1>1, <2>1, LostKept DEF Usable
<1>11. \A d \in Calls : PoolInv(d)'
  BY <1>1, <1>4, PoolsKept
<1> QED
  BY <1>6, <1>7, <1>8, <1>9, <1>10, <1>11 DEF IInv

LEMMA DoubleCheckStep ==
  ASSUME IInv, NEW c \in Calls, DoubleCheck(c)
  PROVE  IInv'
<1>1. /\ TypeOK /\ pc[c] = "check"
      /\ UNCHANGED <<result, configVars, sessions, map, inflight, poolVars>>
  BY DEF IInv, DoubleCheck
<1>2. \A d \in Calls : CallInv(d) /\ GuardInv(d) /\ LostInv(d) /\ PoolInv(d)
  BY DEF IInv
<1>3. WorldInv' /\ SessionInv'
  BY <1>1, Untouched
<1>4. local[c].guard # None /\ holder[local[c].guard] = c
  BY <1>1, <1>2 DEF GuardInv
<1> USE DEF configVars, poolVars
<1>5. CASE \E g \in Cached(local[c].key) : Lease(c, g) /\ holder' = Released(c)
  <2>1. PICK g \in map : sessions[g].key = local[c].key /\ Lease(c, g) /\ holder' = Released(c)
    BY <1>5 DEF Cached
  <2>2. g \in DOMAIN sessions /\ g \in Generations /\ g # 0
    BY <2>1, CachedFacts
  <2>3. Writes(c, local[c].key, local[c].pw, None, g, local[c].pool)
    BY <1>1, <2>1, <2>2, LeaseFacts DEF Lease
  <2>4. pc' \in [Calls -> PcStates] /\ pc'[c] = "pool" /\ \A d \in Calls \ {c} : pc'[d] = pc[d]
    BY <1>1, <2>1, GotoFacts DEF Lease, PcStates
  <2>5. older' \subseteq (1..MaxSessions) \X (1..MaxSessions) /\ holder' \in [Calls -> Calls \cup {None}]
    BY <1>1, <1>4, <2>1, <2>2, Generated, TouchedFacts, ReleasedFacts DEF Lease
  <2>6. TypeOK'
    BY <1>1, <2>3, <2>4, <2>5 DEF TypeOK, Writes
  <2>7. \A d \in Calls : CallInv(d)'
    BY <1>1, <1>2, <2>1, <2>2, <2>3, <2>4 DEF CallInv, Writes
  <2>8. \A d \in Calls : GuardInv(d)'
    BY <1>1, <2>1, <2>3, <2>4, GuardGivenBack DEF Writes
  <2>9. ASSUME NEW d \in Calls PROVE LostInv(d)'
    <3>1. CASE d = c
      BY <2>3, <3>1 DEF LostInv, Writes
    <3>2. CASE d # c
      BY <1>1, <2>3, <2>4, <3>2, LostKept DEF Writes, Usable
    <3> QED
      BY <3>1, <3>2
  <2>10. \A d \in Calls : PoolInv(d)'
    BY <1>1, <2>3, <2>4, PoolsKept DEF Writes
  <2> QED
    BY <1>3, <2>6, <2>7, <2>8, <2>9, <2>10 DEF IInv
<1>6. CASE /\ {g \in Cached(local[c].key) : Usable(g)} = {}
           /\ Goto(c, "connect") /\ UNCHANGED <<local, older, holder>>
  <2>1. pc' \in [Calls -> PcStates] /\ pc'[c] = "connect" /\ \A d \in Calls \ {c} : pc'[d] = pc[d]
    BY <1>1, <1>6, GotoFacts DEF PcStates
  <2>2. TypeOK'
    BY <1>1, <1>6, <2>1 DEF TypeOK
  <2>3. \A d \in Calls : CallInv(d)'
    BY <1>1, <1>2, <1>6, <2>1 DEF CallInv
  <2>4. ASSUME NEW d \in Calls PROVE GuardInv(d)'
    <3>1. /\ GuardInv(d) /\ holder[d] \in Calls \cup {None} /\ local[d].guard \in Calls \cup {None}
          /\ \A e \in inflight : e \in Calls
      BY <1>1, <1>2, CallTypes DEF TypeOK
    <3>2. \A e \in Calls :
            /\ pc[e] \in {"check", "connect", "publish"} <=> pc'[e] \in {"check", "connect", "publish"}
            /\ pc[e] \in {"wait", "check", "connect", "publish"} <=> pc'[e] \in {"wait", "check", "connect", "publish"}
            /\ pc[e] # "idle" => pc'[e] # "idle"
      BY <1>1, <2>1
    <3> QED
      BY <1>1, <1>6, <3>1, <3>2 DEF GuardInv
  <2>5. ASSUME NEW d \in Calls PROVE LostInv(d)'
    <3>1. CASE d = c
      (* No cached session of the key is usable, and a draining one never is. *)
      <4> SUFFICES ASSUME local[c].guard \notin inflight PROVE LostInv(c)'
        BY <1>1, <1>6, <3>1 DEF LostInv
      <4>1. PICK g \in DOMAIN sessions :
              sessions[g].key = local[c].key /\ (g \in map \/ sessions[g].draining)
        BY <1>2, <1>4 DEF LostInv
      <4>2. ~Usable(g)
        BY <1>6, <4>1 DEF Cached, Usable
      <4> QED
        BY <1>1, <1>6, <4>1, <4>2 DEF LostInv, Usable
    <3>2. CASE d # c
      BY <1>1, <1>6, <2>1, <3>2, LostKept DEF Usable
    <3> QED
      BY <3>1, <3>2
  <2>6. \A d \in Calls : PoolInv(d)'
    BY <1>1, <1>6, <2>1, PoolsKept
  <2> QED
    BY <1>3, <2>2, <2>3, <2>4, <2>5, <2>6 DEF IInv
<1> QED
  BY <1>5, <1>6 DEF DoubleCheck

Pinned(n, key, F) ==
  LET named == {e \in F.entries : n \in e.hosts} IN
    /\ \A e \in named : ~(e.key = key /\ e.marker = "@revoked")
    /\ named # {} \/ Policies[n] = "strict" => \E e \in named : e.key = key

(* A key that decide_host_key accepts is not revoked, and is one the file  *)
(* names for the host, if it names any or must.                            *)
LEMMA DecidePinned ==
  ASSUME NEW n, NEW key, NEW F, F.readable, decide_host_key(Policies[n], n, loaded(F), key)
  PROVE  Pinned(n, key, F)
BY DEF Pinned, decide_host_key, verify_host_key, match_host, loaded

(* establish gave up: the guard is released, its entry stays. *)
LEMMA FailsStep ==
  ASSUME IInv, NEW c \in Calls, pc[c] = "connect", Fails(c),
         UNCHANGED <<sessions, configVars, map, older, inflight, poolVars>>
  PROVE  IInv'
<1> USE DEF configVars, poolVars
<1>1. TypeOK /\ \A d \in Calls : CallInv(d) /\ GuardInv(d) /\ LostInv(d) /\ PoolInv(d)
  BY DEF IInv
<1>2. /\ pc' \in [Calls -> PcStates] /\ pc'[c] = "done" /\ result' \in [Calls -> Results]
      /\ \A d \in Calls \ {c} : pc'[d] = pc[d]
  BY <1>1, ReturnFacts DEF Fails, Results
<1>3. Writes(c, local[c].key, local[c].pw, None, local[c].gen, local[c].pool)
  BY <1>1, GuardFacts DEF Fails
<1>4. holder' = Released(c) /\ holder' \in [Calls -> Calls \cup {None}]
  BY <1>1, ReleasedFacts DEF Fails, GuardInv
<1>5. TypeOK'
  BY <1>1, <1>2, <1>3, <1>4 DEF TypeOK, Writes
<1>6. WorldInv' /\ SessionInv'
  BY Untouched
<1>7. \A d \in Calls : CallInv(d)'
  BY <1>1, <1>2, <1>3 DEF CallInv, Writes
<1>8. \A d \in Calls : GuardInv(d)'
  BY <1>2, <1>3, <1>4, GuardGivenBack DEF Writes
<1>9. ASSUME NEW d \in Calls PROVE LostInv(d)'
  <2>1. CASE d = c
    BY <1>3, <2>1 DEF LostInv, Writes
  <2>2. CASE d # c
    BY <1>2, <1>3, <2>2, LostKept DEF Writes, Usable
  <2> QED
    BY <2>1, <2>2
<1>10. \A d \in Calls : PoolInv(d)'
  BY <1>2, <1>3, PoolsKept DEF Writes
<1> QED
  BY <1>5, <1>6, <1>7, <1>8, <1>9, <1>10 DEF IInv

LEMMA ConnectStep ==
  ASSUME IInv, NEW c \in Calls, Connect(c)
  PROVE  IInv'
<1>1. /\ TypeOK /\ pc[c] = "connect"
      /\ UNCHANGED <<configVars, map, inflight, poolVars>>
  BY DEF IInv, Connect
<1>2. \A d \in Calls : CallInv(d) /\ GuardInv(d) /\ LostInv(d) /\ PoolInv(d)
  BY DEF IInv
<1>3. CASE Fails(c) /\ UNCHANGED <<sessions, older>>
  BY <1>1, <1>3, FailsStep
<1>4. CASE ~(Fails(c) /\ UNCHANGED <<sessions, older>>)
  <2> DEFINE New(key, p) ==
        [key |-> local[c].key, verified |-> file, hostkey |-> key, port |-> p,
         listening |-> TRUE, live |-> TRUE, draining |-> FALSE]
      n == local[c].key.conn
  <2>1. PICK key \in HostKeys, p \in Ports :
          /\ ~load_error(KnownHostsFiles[file], TRUE) /\ Len(sessions) < MaxSessions
          /\ decide_host_key(Policies[n], n, loaded(KnownHostsFiles[file]), key)
          /\ sessions' = Append(sessions, New(key, p))
          /\ older' = Touched(DOMAIN sessions', Len(sessions'))
          /\ local' = [local EXCEPT ![c].gen = Len(sessions) + 1]
          /\ Goto(c, "publish") /\ UNCHANGED <<result, holder>>
    BY <1>4 DEF Connect
  <2> DEFINE s == New(key, p)
             g == Len(sessions) + 1
  <2>2. file \in 1..Len(KnownHostsFiles) /\ local[c].key \in Key
    BY <1>1, CallTypes DEF TypeOK
  <2>3. /\ s \in SessionType /\ s.key = local[c].key /\ s.verified = file /\ s.hostkey = key
    BY <2>1, <2>2 DEF SessionType
  <2>4. KnownHostsFiles[file].readable
    BY <2>1 DEF load_error
  <2> HIDE DEF New
  <2>5. Pinned(s.key.conn, s.hostkey, KnownHostsFiles[s.verified])
    BY <2>1, <2>3, <2>4, DecidePinned
  <2>6. /\ sessions \in Seq(SessionType) /\ Len(sessions) \in Nat
        /\ sessions' = Append(sessions, s)
    BY <1>1, <2>1, SessionTypes DEF TypeOK, SessionType
  <2> HIDE DEF s
  <2>7. /\ sessions' \in Seq(SessionType) /\ Len(sessions') = g
        /\ DOMAIN sessions = 1..Len(sessions) /\ DOMAIN sessions' = 1..g
        /\ sessions'[g] = s /\ \A h \in DOMAIN sessions : sessions'[h] = sessions[h]
    BY <2>3, <2>6
  <2>8. /\ g \in 1..MaxSessions /\ g \in Generations /\ g # 0 /\ g \in DOMAIN sessions'
        /\ DOMAIN sessions' = DOMAIN sessions \cup {g}
    BY <2>1, <2>6, <2>7, Constants
  <2>9. /\ Writes(c, local[c].key, local[c].pw, local[c].guard, g, local[c].pool)
        /\ pc' \in [Calls -> PcStates] /\ pc'[c] = "publish" /\ \A d \in Calls \ {c} : pc'[d] = pc[d]
    BY <1>1, <2>1, <2>8, GenFacts, GotoFacts DEF PcStates
  <2> USE DEF configVars, poolVars
  <2>10. TypeOK'
    <3>1. DOMAIN sessions' \in SUBSET (1..MaxSessions)
      BY <2>8, Generated
    <3> HIDE DEF g
    <3>2. older' \subseteq (1..MaxSessions) \X (1..MaxSessions)
      BY <1>1, <2>1, <2>7, <2>8, <3>1, TouchedFacts
    <3> QED
      BY <1>1, <2>1, <2>7, <2>9, <3>2 DEF TypeOK, SessionType, Writes
  <2> HIDE DEF g
  <2>11. WorldInv'
    BY <1>1, <2>7, <2>8 DEF IInv, WorldInv, g
  <2>12. SessionInv'
    <3>1. \A h \in DOMAIN sessions' : sessions'[h].key.stamp <= sessions'[h].verified
      BY <1>2, <2>3, <2>7, <2>8 DEF IInv, SessionInv, CallInv
    <3>2. HostKeyPinned'
      <4>1. \A h \in DOMAIN sessions :
              Pinned(sessions[h].key.conn, sessions[h].hostkey, KnownHostsFiles[sessions[h].verified])
        BY DEF IInv, SessionInv, HostKeyPinned, Pinned
      <4>2. \A h \in DOMAIN sessions' :
              Pinned(sessions'[h].key.conn, sessions'[h].hostkey, KnownHostsFiles[sessions'[h].verified])
        BY <2>5, <2>7, <2>8, <4>1
      <4> QED
        BY <4>2 DEF HostKeyPinned, Pinned
    <3> QED
      BY <3>1, <3>2 DEF SessionInv
  <2>13. \A d \in Calls : CallInv(d)'
    <3> SUFFICES ASSUME NEW d \in Calls PROVE CallInv(d)'
      OBVIOUS
    <3>1. CASE d = c
      <4>1. local'[c].key = local[c].key /\ local'[c].gen = g /\ pc'[c] = "publish"
        BY <2>9 DEF Writes
      <4>2. g \in DOMAIN sessions' /\ g # 0 /\ sessions'[g].key = local[c].key
        BY <2>3, <2>7, <2>8
      <4>3. local[c].key.stamp <= file /\ file' = file
        BY <1>1, <1>2 DEF CallInv
      <4> QED
        BY <3>1, <4>1, <4>2, <4>3 DEF CallInv
    <3>2. CASE d # c
      <4>1. local'[d] = local[d] /\ pc'[d] = pc[d] /\ file' = file /\ CallInv(d)
        BY <1>1, <1>2, <2>9, <3>2 DEF Writes
      <4>2. \A h \in DOMAIN sessions : h \in DOMAIN sessions' /\ sessions'[h] = sessions[h]
        BY <2>7, <2>8
      <4> QED
        BY <4>1, <4>2 DEF CallInv
    <3> QED
      BY <3>1, <3>2
  <2>14. ASSUME NEW d \in Calls PROVE GuardInv(d)'
    <3>1. /\ GuardInv(d) /\ holder[d] \in Calls \cup {None} /\ local[d].guard \in Calls \cup {None}
          /\ \A e \in inflight : e \in Calls
      BY <1>1, <1>2, CallTypes DEF TypeOK
    <3>2. \A e \in Calls :
            /\ pc[e] \in {"check", "connect", "publish"} <=> pc'[e] \in {"check", "connect", "publish"}
            /\ pc[e] \in {"wait", "check", "connect", "publish"} <=> pc'[e] \in {"wait", "check", "connect", "publish"}
            /\ pc[e] # "idle" => pc'[e] # "idle"
            /\ local'[e].key = local[e].key /\ local'[e].guard = local[e].guard
      BY <1>1, <2>9 DEF Writes
    <3> QED
      BY <1>1, <2>1, <3>1, <3>2 DEF GuardInv
  <2>15. ASSUME NEW d \in Calls PROVE LostInv(d)'
    <3>1. pc'[d] \in Establishing => pc[d] \in Establishing
      BY <1>1, <2>9 DEF Establishing
    <3>2. local'[d].key = local[d].key /\ local'[d].guard = local[d].guard
      BY <2>9 DEF Writes
    <3>3. DOMAIN sessions \subseteq DOMAIN sessions'
      BY <2>8
    <3> QED
      BY <1>1, <2>7, <3>1, <3>2, <3>3, LostKept DEF Usable
  <2>16. \A d \in Calls : PoolInv(d)'
    BY <1>1, <2>9, PoolsKept DEF Writes
  <2> QED
    BY <2>10, <2>11, <2>12, <2>13, <2>14, <2>15, <2>16 DEF IInv
<1> QED
  BY <1>3, <1>4

(* What a publication does to the map and to the sessions. *)
LEMMA PublishFacts ==
  ASSUME IInv, NEW c \in Calls, Publish(c)
  PROVE  LET g == local[c].gen IN
         /\ g \in DOMAIN sessions /\ g # 0 /\ g \in 1..MaxSessions
         /\ sessions[g].key = local[c].key
         /\ map' \subseteq map \cup {g} /\ g \in map'
         /\ sessions' \in Seq(SessionType) /\ DOMAIN sessions' = DOMAIN sessions
         /\ Len(sessions') = Len(sessions)
         /\ \A h \in DOMAIN sessions :
              /\ sessions'[h].key = sessions[h].key /\ sessions'[h].verified = sessions[h].verified
              /\ sessions'[h].hostkey = sessions[h].hostkey /\ sessions'[h].live = sessions[h].live
              /\ sessions[h].draining => sessions'[h].draining
              /\ h \in map => h \in map' \/ sessions'[h].draining
<1> DEFINE g == local[c].gen
           kept == Kept(g)
           retired == map \ kept
           F(h) == IF h \in retired \cup Replaced(g)
                   THEN [sessions[h] EXCEPT !.draining = TRUE] ELSE sessions[h]
<1>1. TypeOK /\ pc[c] = "publish" /\ CallInv(c) /\ map \subseteq DOMAIN sessions
  BY DEF IInv, Publish, WorldInv
<1>2. g \in DOMAIN sessions /\ g # 0 /\ sessions[g].key = local[c].key /\ g \in 1..MaxSessions
  <2>1. g \in DOMAIN sessions /\ g # 0 /\ sessions[g].key = local[c].key /\ g \in Generations
    BY <1>1, CallTypes DEF CallInv
  <2> HIDE DEF g
  <2>2. g \in 1..MaxSessions
    BY <2>1, Constants
  <2> QED
    BY <2>1, <2>2
<1>3. /\ map' = (kept \ Replaced(g)) \cup {g}
      /\ sessions' = [h \in DOMAIN sessions |-> F(h)]
  BY DEF Publish
<1>4. kept \subseteq map
  BY DEF Kept
<1> HIDE DEF g, kept
<1>5. map' \subseteq map \cup {g} /\ g \in map'
  BY <1>3, <1>4
<1>6. \A h \in map : h \in map' \/ h \in retired \cup Replaced(g)
  BY <1>3
<1> HIDE DEF retired
<1>7. ASSUME NEW h \in DOMAIN sessions
      PROVE  /\ F(h) \in SessionType /\ F(h).key = sessions[h].key
             /\ F(h).verified = sessions[h].verified /\ F(h).hostkey = sessions[h].hostkey
             /\ F(h).live = sessions[h].live /\ (sessions[h].draining => F(h).draining)
             /\ h \in retired \cup Replaced(g) => F(h).draining
  <2>1. sessions[h] \in SessionType
    BY <1>1, SessionTypes
  <2> QED
    BY <2>1 DEF SessionType
<1> HIDE DEF F
<1>8. sessions' \in Seq(SessionType) /\ DOMAIN sessions' = DOMAIN sessions /\ Len(sessions') = Len(sessions)
  BY <1>1, <1>3, <1>7, RewriteSessions
<1>9. \A h \in DOMAIN sessions : sessions'[h] = F(h)
  BY <1>3
<1> QED
  BY <1>1, <1>2, <1>5, <1>6, <1>7, <1>8, <1>9 DEF g

LEMMA PublishStep ==
  ASSUME IInv, NEW c \in Calls, Publish(c)
  PROVE  IInv'
<1> DEFINE g == local[c].gen
           k == local[c].key
<1>1. /\ TypeOK /\ pc[c] = "publish" /\ Goto(c, "pool") /\ UNCHANGED <<result, configVars, older>>
      /\ holder' = Released(c) /\ local' = [local EXCEPT ![c].guard = None]
      /\ inflight' = inflight \ {d \in Calls : local[d].key = k}
  BY DEF IInv, Publish
<1>2. \A d \in Calls : CallInv(d) /\ GuardInv(d) /\ LostInv(d) /\ PoolInv(d)
  BY DEF IInv
<1>3. /\ g \in DOMAIN sessions /\ g # 0 /\ g \in 1..MaxSessions /\ sessions[g].key = k
      /\ map' \subseteq map \cup {g} /\ g \in map'
      /\ sessions' \in Seq(SessionType) /\ DOMAIN sessions' = DOMAIN sessions
      /\ Len(sessions') = Len(sessions)
      /\ \A h \in DOMAIN sessions :
           /\ sessions'[h].key = sessions[h].key /\ sessions'[h].verified = sessions[h].verified
           /\ sessions'[h].hostkey = sessions[h].hostkey /\ sessions'[h].live = sessions[h].live
           /\ sessions[h].draining => sessions'[h].draining
           /\ h \in map => h \in map' \/ sessions'[h].draining
  BY PublishFacts
<1>4. pools' \subseteq pools /\ closed' \subseteq closed \cup pools
  BY DEF Publish, Evicted, Riding
<1>5. Writes(c, k, local[c].pw, None, g, local[c].pool)
  BY <1>1, GuardFacts
<1> HIDE DEF g, k
<1>6. pc' \in [Calls -> PcStates] /\ pc'[c] = "pool" /\ \A d \in Calls \ {c} : pc'[d] = pc[d]
  BY <1>1, GotoFacts DEF PcStates
<1>7. /\ local[c].guard # None /\ holder[local[c].guard] = c
      /\ holder' \in [Calls -> Calls \cup {None}]
  BY <1>1, <1>2, ReleasedFacts DEF GuardInv
<1> USE DEF configVars
<1>8. TypeOK'
  BY <1>1, <1>3, <1>4, <1>5, <1>6, <1>7 DEF TypeOK, SessionType, Writes
<1>9. WorldInv'
  BY <1>1, <1>3 DEF IInv, WorldInv
<1>10. SessionInv'
  BY <1>1, <1>3 DEF IInv, SessionInv, HostKeyPinned
<1>11. ASSUME NEW d \in Calls PROVE CallInv(d)'
  <2>1. CASE d = c
    BY <1>1, <1>2, <1>3, <1>5, <1>6, <2>1 DEF CallInv, Writes, g, k
  <2>2. CASE d # c
    BY <1>1, <1>2, <1>3, <1>5, <1>6, <2>2 DEF CallInv, Writes
  <2> QED
    BY <2>1, <2>2
<1>12. \A d \in Calls : local'[d].key = local[d].key
  BY <1>5 DEF Writes, k
<1>13. \A d \in Calls \ {c} : local'[d] = local[d]
  BY <1>5 DEF Writes
<1>14. \A d \in Calls : GuardInv(d)'
  <2>1. inflight' \subseteq inflight /\ local'[c].guard = None
    BY <1>1, <1>5 DEF Writes
  <2> QED
    BY <1>1, <1>6, <1>12, <1>13, <2>1, GuardGivenBack
<1>15. \A h \in DOMAIN sessions : ~Usable(h) => ~Usable(h)'
  BY <1>3 DEF Usable
<1>16. ASSUME NEW d \in Calls PROVE LostInv(d)'
  <2>1. CASE d = c
    BY <1>5, <2>1 DEF LostInv, Writes
  <2>2. CASE d # c /\ (local[d].guard \in inflight => local[d].guard \in inflight')
    <3>1. pc'[d] \in Establishing => pc[d] \in Establishing
      BY <1>6, <2>2
    <3>2. local'[d].key = local[d].key /\ local'[d].guard = local[d].guard
      BY <1>13, <2>2
    <3> QED
      BY <1>3, <1>15, <2>2, <3>1, <3>2, LostKept
  <2>3. CASE d # c /\ local[d].guard \in inflight \ inflight'
    (* c published the key of d. *)
    <3>1. local[d].guard \in Calls /\ local[d].guard # None /\ local[local[d].guard].key = k
      BY <1>1, <2>3, Constants DEF TypeOK
    <3>2. local[d].key = k
      BY <1>2, <3>1 DEF GuardInv
    <3>3. ASSUME pc'[d] \in Establishing
          PROVE  \E h \in DOMAIN sessions' : sessions'[h].key = local'[d].key /\ ~Usable(h)'
      <4>1. pc[d] \in {"connect", "publish"}
        BY <1>6, <2>3, <3>3 DEF Establishing
      <4>2. holder[local[d].guard] = d /\ local[d].guard # local[c].guard
        BY <1>2, <1>7, <2>3, <4>1 DEF GuardInv
      <4>3. local[local[c].guard].key = k
        BY <1>2, <1>7 DEF GuardInv, k
      <4>4. local[c].guard \notin inflight
        BY <1>2, <2>3, <3>1, <4>2, <4>3 DEF GuardInv
      <4>5. PICK h \in DOMAIN sessions : sessions[h].key = k /\ ~Usable(h)
        BY <1>1, <1>2, <1>7, <4>4 DEF LostInv, Establishing, k
      <4> QED
        BY <1>3, <1>12, <1>15, <3>2, <4>5
    <3>4. \E h \in DOMAIN sessions' :
            sessions'[h].key = local'[d].key /\ (h \in map' \/ sessions'[h].draining)
      BY <1>3, <1>12, <3>2
    <3> QED
      BY <3>3, <3>4 DEF LostInv
  <2> QED
    BY <2>1, <2>2, <2>3
<1>17. \A d \in Calls : PoolInv(d)'
  BY <1>1, <1>4, <1>6, <1>13, PoolsKept
<1> QED
  BY <1>8, <1>9, <1>10, <1>11, <1>14, <1>16, <1>17 DEF IInv

(* A call takes a pool that was opened for what it asks for itself. *)
LEMMA TakeStep ==
  ASSUME IInv, NEW c \in Calls, NEW p \in Calls, pc[c] \in {"pool", "store"}, Take(c, p),
         p = c \/ p \in Found(c),
         pools' \subseteq pools \cup {c}, closed' \subseteq closed \cup pools,
         UNCHANGED <<result, configVars, tunnelVars>>
  PROVE  IInv'
<1> USE DEF configVars, tunnelVars
<1>1. TypeOK /\ \A d \in Calls : CallInv(d) /\ GuardInv(d) /\ LostInv(d) /\ PoolInv(d)
  BY DEF IInv
<1>2. /\ Writes(c, local[c].key, local[c].pw, local[c].guard, local[c].gen, p)
      /\ pc' \in [Calls -> PcStates] /\ pc'[c] = "use" /\ \A d \in Calls \ {c} : pc'[d] = pc[d]
  BY <1>1, PoolFacts, GotoFacts DEF Take, PcStates
<1>3. TypeOK'
  BY <1>1, <1>2 DEF TypeOK, Writes
<1>4. WorldInv' /\ SessionInv'
  BY Untouched
<1>5. \A d \in Calls : CallInv(d)'
  BY <1>1, <1>2 DEF CallInv, Writes
<1>6. \A d \in Calls : GuardInv(d)' /\ LostInv(d)'
  BY <1>2, GuardsKept DEF Writes
<1>7. \A d \in Calls : /\ local'[d].key = local[d].key /\ local'[d].pw = local[d].pw
                       /\ local'[d].gen = local[d].gen
  BY <1>2 DEF Writes
<1>8. ASSUME NEW d \in Calls PROVE PoolInv(d)'
  <2>1. d \in pools' => pc'[d] \in {"use", "done"}
    BY <1>1, <1>2 DEF PoolInv
  <2>2. CASE d = c
    <3>1. local'[c].pool = p
      BY <1>2 DEF Writes
    <3>2. pc'[p] \in {"use", "done"}
      BY <1>1, <1>2 DEF Found, PoolInv
    <3>3. SamePool(p, c)' /\ SameCredential(p, c)'
      BY <1>7 DEF Found, SamePool, SameCredential
    <3> QED
      BY <2>1, <2>2, <3>1, <3>2, <3>3 DEF PoolInv, SamePool, SameCredential
  <2>3. CASE d # c
    <3>1. local'[d].pool = local[d].pool /\ pc'[d] = pc[d]
      BY <1>2, <2>3 DEF Writes
    <3>2. pc[d] = "use" => local[d].pool \in Calls \ {c}
      BY <1>1 DEF PoolInv
    <3> QED
      BY <1>1, <1>2, <1>7, <2>1, <3>1, <3>2 DEF PoolInv, SamePool, SameCredential
  <2> QED
    BY <2>2, <2>3
<1> QED
  BY <1>3, <1>4, <1>5, <1>6, <1>8 DEF IInv

(* A call goes on, or returns, without taking a pool. *)
LEMMA PassStep ==
  ASSUME IInv, NEW c \in Calls, NEW to \in {"store", "done"},
         pc[c] \in {"pool", "store"} \/ (pc[c] = "use" /\ to = "done"),
         pc' = [pc EXCEPT ![c] = to], result' \in [Calls -> Results],
         pools' \subseteq pools, closed' \subseteq closed \cup pools,
         UNCHANGED <<local, configVars, tunnelVars>>
  PROVE  IInv'
<1> USE DEF configVars, tunnelVars
<1>1. TypeOK /\ \A d \in Calls : CallInv(d) /\ GuardInv(d) /\ LostInv(d) /\ PoolInv(d)
  BY DEF IInv
<1>2. pc' \in [Calls -> PcStates] /\ pc'[c] = to /\ \A d \in Calls \ {c} : pc'[d] = pc[d]
  BY <1>1 DEF TypeOK, PcStates
<1>3. TypeOK'
  BY <1>1, <1>2 DEF TypeOK
<1>4. WorldInv' /\ SessionInv'
  BY Untouched
<1>5. \A d \in Calls : CallInv(d)'
  BY <1>1, <1>2 DEF CallInv
<1>6. \A d \in Calls : GuardInv(d)' /\ LostInv(d)'
  BY <1>2, GuardsKept
<1>7. ASSUME NEW d \in Calls PROVE PoolInv(d)'
  <2>1. \A e \in Calls : pc[e] \in {"use", "done"} => pc'[e] \in {"use", "done"}
    BY <1>2
  <2>2. pc'[d] = "use" => pc[d] = "use"
    BY <1>2
  <2> QED
    BY <1>1, <2>1, <2>2 DEF PoolInv, SamePool, SameCredential
<1> QED
  BY <1>3, <1>4, <1>5, <1>6, <1>7 DEF IInv

LEMMA FindPoolStep ==
  ASSUME IInv, NEW c \in Calls, FindPool(c)
  PROVE  IInv'
<1>1. PICK p \in Found(c) : Take(c, p)
  BY DEF FindPool
<1>2. p \in Calls
  BY <1>1 DEF Found, IInv, TypeOK
<1> QED
  BY <1>1, <1>2, TakeStep DEF FindPool, poolVars

LEMMA ProbeStep ==
  ASSUME IInv, NEW c \in Calls, Probe(c)
  PROVE  IInv'
<1>1. TypeOK
  BY DEF IInv
<1>2. CASE Return(c, "error")
  <2>1. "error" \in Results
    BY DEF Results
  <2>2. result' \in [Calls -> Results] /\ pc' = [pc EXCEPT ![c] = "done"]
    BY <1>1, <1>2, <2>1, ReturnFacts DEF Return, Goto
  <2> QED
    BY <2>2, PassStep DEF Probe, poolVars
<1>3. CASE Goto(c, "store") /\ UNCHANGED result
  <2>1. result' \in [Calls -> Results] /\ pc' = [pc EXCEPT ![c] = "store"]
    BY <1>1, <1>3 DEF Goto, TypeOK
  <2> QED
    BY <2>1, PassStep DEF Probe, poolVars
<1> QED
  BY <1>2, <1>3 DEF Probe

LEMMA StoreStep ==
  ASSUME IInv, NEW c \in Calls, Store(c)
  PROVE  IInv'
<1> DEFINE old == {p \in pools : SamePool(p, c)}
<1>1. TypeOK /\ pools \subseteq Calls /\ old \subseteq pools
  BY DEF IInv, TypeOK
<1> HIDE DEF old
<1>2. CASE \E p \in Published(c) : Take(c, p) /\ UNCHANGED <<result, poolVars>>
  <2>1. PICK p \in Found(c) : Take(c, p) /\ UNCHANGED <<result, poolVars>>
    BY <1>2 DEF Published
  <2>2. p \in Calls
    BY <1>1 DEF Found
  <2> QED
    BY <2>1, <2>2, TakeStep DEF Store, poolVars
<1>3. CASE Return(c, "full") /\ pools' = pools \ old /\ closed' = closed \cup old /\ UNCHANGED local
  BY <1>1, <1>3, ReturnFacts, PassStep DEF Store, Results, Return, Goto
<1>4. CASE /\ Take(c, c) /\ pools' = (pools \ old) \cup {c} /\ closed' = closed \cup old
           /\ UNCHANGED result
  BY <1>1, <1>4, TakeStep DEF Store
<1> QED
  BY <1>2, <1>3, <1>4 DEF Store, old

LEMMA UseStep ==
  ASSUME IInv, NEW c \in Calls, Use(c)
  PROVE  IInv'
<1>1. TypeOK /\ pc[c] = "use"
  BY DEF IInv, Use
<1>2. PICK r \in Results : Return(c, r)
  <2>1. CASE Return(c, "error")
    BY <2>1 DEF Results
  <2>2. CASE \E n \in Reaches(local[c].pool) : Return(c, n)
    <3>1. PICK n \in Reaches(local[c].pool) : Return(c, n)
      BY <2>2
    <3>2. local[c].pool \in Calls
      BY <1>1 DEF IInv, PoolInv
    <3>3. n \in Conns
      BY <1>1, <3>1, <3>2, CallTypes, SessionTypes DEF Reaches, Behind, Key
    <3> QED
      BY <3>1, <3>3 DEF Results
  <2> QED
    BY <2>1, <2>2 DEF Use
<1> QED
  BY <1>1, <1>2, ReturnFacts, PassStep DEF Use, Return, Goto, poolVars

-----------------------------------------------------------------------------
(* The theorems.                                                           *)

LEMMA NextInv == IInv /\ [Next]_vars => IInv'
<1> SUFFICES ASSUME IInv, [Next]_vars PROVE IInv'
  OBVIOUS
<1>1. CASE UNCHANGED vars
  <2>1. ASSUME NEW c \in Calls PROVE (CallInv(c) /\ GuardInv(c) /\ LostInv(c) /\ PoolInv(c))'
    BY <1>1 DEF IInv, vars, configVars, callVars, tunnelVars, poolVars, CallInv, GuardInv,
      LostInv, PoolInv, SamePool, SameCredential, Usable
  <2>2. TypeOK' /\ WorldInv' /\ SessionInv'
    BY <1>1, Untouched
      DEF IInv, TypeOK, vars, configVars, callVars, tunnelVars, poolVars
  <2> QED
    BY <2>1, <2>2 DEF IInv
<1>2. ASSUME NEW c \in Calls, Step(c) PROVE IInv'
  BY <1>2, LookupStep, JoinStep, AcquireStep, DoubleCheckStep, ConnectStep, PublishStep,
    FindPoolStep, ProbeStep, StoreStep, UseStep DEF Step
<1>3. ASSUME NEW c \in Calls, NEW n \in Conns, Call(c, n) PROVE IInv'
  BY <1>3, CallStep
<1>4. ASSUME NEW n \in Conns, Reconfigure(n) \/ RotatePassword(n) PROVE IInv'
  BY <1>4, ReconfigureStep, RotatePasswordStep
<1>5. CASE EditKnownHosts
  BY <1>5, EditKnownHostsStep
<1>6. ASSUME NEW g \in DOMAIN sessions, SessionDies(g) \/ ListenerStops(g) PROVE IInv'
  BY <1>6, SessionDiesStep, ListenerStopsStep
<1> QED
  BY <1>1, <1>2, <1>3, <1>4, <1>5, <1>6 DEF Next

(* The invariant of tunnels and pools holds throughout. *)
THEOREM TransportInvariant == Spec => []IInv
<1>1. Init => IInv
  BY InitInv
<1>2. IInv /\ [Next]_vars => IInv'
  BY NextInv
<1> QED
  BY <1>1, <1>2, PTL DEF Spec

(* Types, with every counter within its bound. *)
THEOREM TransportTypeCorrect == Spec => []TypeOK
<1>1. IInv => TypeOK
  BY DEF IInv
<1> QED
  BY <1>1, TransportInvariant, PTL

(* However many calls ask for a tunnel of one key, one establishes it at a *)
(* time, unless a tunnel of that key was lost meanwhile (tunnel_endpoint). *)
THEOREM TransportCoalesced == Spec => []Coalesced
<1>1. IInv => Coalesced
  <2> SUFFICES ASSUME IInv, NEW c \in Calls, NEW d \in Calls, c # d,
                      {pc[c], pc[d]} \subseteq Establishing, local[c].key = local[d].key
               PROVE  \E g \in DOMAIN sessions : sessions[g].key = local[c].key /\ ~Usable(g)
    BY DEF Coalesced
  <2>1. \A e \in Calls : GuardInv(e) /\ LostInv(e)
    BY DEF IInv
  <2>2. /\ pc[c] \in Establishing /\ pc[d] \in Establishing
        /\ pc[c] \in {"connect", "publish"} /\ pc[d] \in {"connect", "publish"}
    BY DEF Establishing
  <2>3. /\ holder[local[c].guard] = c /\ local[c].guard # None
        /\ holder[local[d].guard] = d /\ local[d].guard # None
        /\ local[local[c].guard].key = local[c].key /\ local[local[d].guard].key = local[d].key
    BY <2>1, <2>2 DEF GuardInv
  <2>4. local[c].guard \in Calls /\ local[d].guard \in Calls /\ local[c].guard # local[d].guard
    BY <2>3, CallTypes DEF IInv
  <2>5. local[c].guard \notin inflight \/ local[d].guard \notin inflight
    BY <2>1, <2>3, <2>4 DEF GuardInv
  <2> QED
    BY <2>1, <2>2, <2>3, <2>5 DEF LostInv
<1> QED
  BY <1>1, TransportInvariant, PTL

(* A statement runs on a pool opened with its own connection, revision,    *)
(* tunnel generation and password (verified_pool).                         *)
THEOREM TransportOwnPool == Spec => []OwnPool
<1>1. IInv => OwnPool
  BY DEF IInv, PoolInv, OwnPool
<1> QED
  BY <1>1, TransportInvariant, PTL

(* No call leases a session whose host key was checked against an older    *)
(* known_hosts content than the call found (tunnel_key, establish).        *)
THEOREM TransportLeaseFresh == Spec => []LeaseVerifiedFresh
<1>1. IInv => LeaseVerifiedFresh
  <2> SUFFICES ASSUME IInv, NEW c \in Calls, local[c].gen # 0
               PROVE  sessions[local[c].gen].verified >= local[c].key.stamp
    BY DEF LeaseVerifiedFresh
  <2> DEFINE g == local[c].gen
  <2>1. g \in DOMAIN sessions /\ sessions[g].key = local[c].key
    BY DEF IInv, CallInv
  <2>2. sessions[g].key.stamp <= sessions[g].verified
    BY <2>1 DEF IInv, SessionInv
  <2>3. sessions[g].key.stamp \in Nat /\ sessions[g].verified \in Nat
    BY <2>1, SessionTypes, Constants DEF IInv
  <2> QED
    BY <2>1, <2>2, <2>3
<1> QED
  BY <1>1, TransportInvariant, PTL

(* Every session was opened to a key the known_hosts content of its        *)
(* handshake accepts for the bastion (check_server_key, decide_host_key).  *)
THEOREM TransportHostKeyPinned == Spec => []HostKeyPinned
<1>1. IInv => HostKeyPinned
  BY DEF IInv, SessionInv
<1> QED
  BY <1>1, TransportInvariant, PTL

(* Whoever holds the guard that a call waits for is establishing, or       *)
(* about to, for the same key.                                             *)
THEOREM TransportGuardsReleased == Spec => []GuardsReleased
<1>1. IInv => GuardsReleased
  <2> SUFFICES ASSUME IInv, NEW c \in Calls, pc[c] = "wait", holder[local[c].guard] # None
               PROVE  LET d == holder[local[c].guard] IN
                        pc[d] \in {"check"} \cup Establishing /\ local[d].key = local[c].key
    BY DEF GuardsReleased
  <2> DEFINE g == local[c].guard
             d == holder[g]
  <2>1. TypeOK /\ \A e \in Calls : GuardInv(e)
    BY DEF IInv
  <2>2. g \in Calls /\ g # None /\ local[g].key = local[c].key
    BY <2>1, CallTypes, Constants DEF GuardInv
  <2> HIDE DEF g
  <2>3. d \in Calls /\ local[d].guard = g /\ pc[d] \in {"check", "connect", "publish"}
    BY <2>1, <2>2, CallTypes DEF GuardInv, g
  <2> HIDE DEF d
  <2>4. local[g].key = local[d].key
    BY <2>1, <2>2, <2>3 DEF GuardInv
  <2> QED
    BY <2>2, <2>3, <2>4 DEF Establishing, d, g
<1> QED
  BY <1>1, TransportInvariant, PTL

(* The pools that ride a retired tunnel leave the cache in the same step   *)
(* (retire, invalidate_generation).                                        *)
THEOREM TransportRetiredEvicted == Spec => RetiredEvicted
<1>1. IInv /\ [Next]_vars =>
        [\A g \in map \ map' :
           \/ sessions[g].live /\ \E h \in map' : sessions[h]'.key = sessions[g].key
           \/ \A p \in pools' : local[p].gen # g]_vars
  <2> SUFFICES ASSUME IInv, [Next]_vars, NEW g \in map \ map'
               PROVE  \/ sessions[g].live /\ \E h \in map' : sessions[h]'.key = sessions[g].key
                      \/ \A p \in pools' : local[p].gen # g
    OBVIOUS
  <2>1. PICK c \in Calls : Publish(c)
    BY DEF Next, Step, vars, configVars, callVars, tunnelVars, poolVars, Call, Lookup, Join,
      Acquire, DoubleCheck, Connect, FindPool, Probe, Store, Use, Reconfigure, RotatePassword,
      EditKnownHosts, SessionDies, ListenerStops, Lease
  <2> DEFINE n == local[c].gen
             kept == Kept(n)
  <2>2. /\ map' = (kept \ Replaced(n)) \cup {n} /\ pools' = pools \ Evicted(map \ kept)
        /\ n \in DOMAIN sessions /\ g \in DOMAIN sessions
        /\ sessions'[n].key = sessions[n].key
    <3>1. n \in DOMAIN sessions /\ sessions'[n].key = sessions[n].key
      BY <2>1, PublishFacts
    <3>2. g \in DOMAIN sessions
      BY CachedFacts
    <3> QED
      BY <2>1, <3>1, <3>2 DEF Publish
  <2>3. CASE g \in kept
    <3>1. sessions[g].live /\ sessions[g].key = sessions[n].key
      BY <2>2, <2>3 DEF Kept, Dead, Replaced
    <3> QED
      BY <2>2, <3>1
  <2>4. CASE g \notin kept
    BY <2>2, <2>4 DEF Evicted, Riding
  <2> QED
    BY <2>3, <2>4
<1> QED
  BY <1>1, TransportInvariant, PTL DEF Spec, RetiredEvicted

=============================================================================
