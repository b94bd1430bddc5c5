------------------------------ MODULE Transport ------------------------------
(***************************************************************************)
(* SSH tunnels and MySQL pools: tunnel_endpoint, establish and retire of   *)
(* src/src/sql/ssh.rs and verified_pool of src/src/sql/pool.rs, as run_sql *)
(* of src/src/app/gate.rs calls them.  Concurrent calls share both caches  *)
(* while connections are edited, passwords change, the known_hosts file    *)
(* changes, sessions die and local ports are used again.                   *)
(*                                                                         *)
(* A call opens at most one tunnel and one pool, so a guard and a pool are *)
(* named by the call that created them.  The SSH identity of a connection, *)
(* a number, stands for bastion, user, method, secret and bridge; 0 is a   *)
(* direct connection.  Each bastion is the host of its connection.         *)
(***************************************************************************)
EXTENDS Naturals, Sequences, FiniteSets, KnownHosts

CONSTANTS Calls, Ports, None,
          KnownHostsFiles, (* the contents the known_hosts file has in turn  *)
          Policies,        (* host key policy of each host                   *)
          HasTunnel,       (* connections with an SSH tunnel at the start    *)
          MaxTunnels, MaxPools,
          MaxSessions,     (* bound: SSH sessions ever established           *)
          MaxEdits         (* bound: edits of any kind                       *)

Conns == Hosts

ASSUME TransportAssumption ==
  /\ KnownHostsFiles \in Seq(File) /\ KnownHostsFiles # <<>>
  /\ Policies \in [Hosts -> {"strict", "lenient"}] /\ HasTunnel \subseteq Conns
  /\ {MaxTunnels, MaxPools} \subseteq Nat \ {0} /\ {MaxSessions, MaxEdits} \subseteq Nat
  /\ None \notin Calls /\ Conns # {}

VARIABLES config,  (* revision, and per connection its SSH identity, password *)
          file,    (* which content known_hosts has                           *)
          edits,
          pc, local, result,
          sessions,(* every SSH session with its listener, by generation      *)
          map,     (* TUNNELS.map: the cached generations                     *)
          older,   (* last_used of the sessions: <<h, g>>, g used after h     *)
          inflight,(* TUNNELS.inflight: the guards found under their keys     *)
          holder,  (* who holds a guard                                       *)
          pools,   (* the shared pool cache                                   *)
          closed   (* pools that were disconnected                            *)

configVars == <<config, file, edits>>
callVars   == <<pc, local, result>>
tunnelVars == <<sessions, map, older, inflight, holder>>
poolVars   == <<pools, closed>>
vars       == <<configVars, callVars, tunnelVars, poolVars>>

Idents == 0..(MaxEdits + 1)
Generations == 0..MaxSessions (* 0: no tunnel *)

Key == [conn : Conns, rev : Idents, ssh : Idents, stamp : 1..Len(KnownHostsFiles)]

PcStates == {"idle", "lookup", "join", "wait", "check", "connect", "publish",
             "pool", "store", "use", "done"}

(* The server the statement ran on, or why it did not run. *)
Results == {"none", "error", "full"} \cup Conns

Locals == [key : Key, pw : Idents, guard : Calls \cup {None},
           gen : Generations, pool : Calls \cup {None}]

TypeOK ==
  /\ config \in [rev : Idents, ssh : [Conns -> Idents], pw : [Conns -> Idents]]
  /\ file \in 1..Len(KnownHostsFiles) /\ edits \in 0..MaxEdits
  /\ pc \in [Calls -> PcStates] /\ local \in [Calls -> Locals]
  /\ result \in [Calls -> Results]
  /\ sessions \in Seq([key : Key, verified : 1..Len(KnownHostsFiles), hostkey : HostKeys,
                       port : Ports, listening : BOOLEAN, live : BOOLEAN, draining : BOOLEAN])
  /\ map \subseteq 1..MaxSessions /\ older \subseteq (1..MaxSessions) \X (1..MaxSessions)
  /\ inflight \in SUBSET Calls /\ holder \in [Calls -> Calls \cup {None}]
  /\ pools \in SUBSET Calls /\ closed \in SUBSET Calls

InitKey == [conn |-> CHOOSE n \in Conns : TRUE, rev |-> 0, ssh |-> 0, stamp |-> 1]

Init ==
  /\ config = [rev |-> 0, ssh |-> [n \in Conns |-> IF n \in HasTunnel THEN 1 ELSE 0],
               pw |-> [n \in Conns |-> 0]]
  /\ file = 1 /\ edits = 0
  /\ pc = [c \in Calls |-> "idle"] /\ result = [c \in Calls |-> "none"]
  /\ local = [c \in Calls |-> [key |-> InitKey, pw |-> 0, guard |-> None,
                               gen |-> 0, pool |-> None]]
  /\ sessions = <<>> /\ map = {} /\ older = {} /\ inflight = {}
  /\ holder = [c \in Calls |-> None]
  /\ pools = {} /\ closed = {}

Goto(c, to) == pc' = [pc EXCEPT ![c] = to]

Return(c, r) == Goto(c, "done") /\ result' = [result EXCEPT ![c] = r]

-----------------------------------------------------------------------------
(* Tunnels.                                                                *)

tunnel_key(n) ==
  [conn |-> n, rev |-> config.rev, ssh |-> config.ssh[n], stamp |-> file]

(* run_sql on connection n with the configuration and secrets of now. *)
Call(c, n) ==
  /\ pc[c] = "idle"
  /\ local' = [local EXCEPT ![c] = [@ EXCEPT !.key = tunnel_key(n), !.pw = config.pw[n]]]
  /\ Goto(c, IF config.ssh[n] = 0 THEN "pool" ELSE "lookup")
  /\ UNCHANGED <<result, configVars, tunnelVars, poolVars>>

Usable(g) == sessions[g].live /\ ~sessions[g].draining

(* Mutant: the known_hosts content is not part of a tunnel's identity. *)
Cached_NoStamp(k) == {g \in map : [sessions[g].key EXCEPT !.stamp = k.stamp] = k}

Cached(k) == {g \in map : sessions[g].key = k}

(* The order among the sessions G once g is the most recently used. *)
Touched(G, g) == (older \cap ((G \ {g}) \X G)) \cup ((G \ {g}) \X {g})

(* A lease on generation g, which it touches. *)
Lease(c, g) ==
  /\ local' = [local EXCEPT ![c] = [@ EXCEPT !.gen = g, !.guard = None]]
  /\ older' = Touched(DOMAIN sessions, g)
  /\ Goto(c, "pool")

Lookup(c) ==
  /\ pc[c] = "lookup"
  /\ LET hits == {g \in Cached(local[c].key) : Usable(g)} IN
      \/ \E g \in hits : Lease(c, g)
      \/ hits = {} /\ Goto(c, "join") /\ UNCHANGED <<local, older>>
  /\ UNCHANGED <<result, configVars, sessions, map, inflight, holder, poolVars>>

(* Mutant: every caller makes a guard of its own. *)
GuardOf_New(c) == {}

(* The guard under c's key, if there is one. *)
GuardOf(c) == {d \in inflight : local[d].key = local[c].key}

Join(c) ==
  /\ pc[c] = "join"
  /\ \E d \in IF GuardOf(c) = {} THEN {c} ELSE GuardOf(c) :
       /\ inflight' = inflight \cup {d}
       /\ local' = [local EXCEPT ![c].guard = d]
  /\ Goto(c, "wait")
  /\ UNCHANGED <<result, configVars, sessions, map, older, holder, poolVars>>

Acquire(c) ==
  /\ pc[c] = "wait" /\ holder[local[c].guard] = None
  /\ holder' = [holder EXCEPT ![local[c].guard] = c]
  /\ Goto(c, "check")
  /\ UNCHANGED <<local, result, configVars, sessions, map, older, inflight, poolVars>>

(* The guard is released wherever the holder leaves. *)
Released(c) == [holder EXCEPT ![local[c].guard] = None]

DoubleCheck(c) ==
  /\ pc[c] = "check"
  /\ LET hits == {g \in Cached(local[c].key) : Usable(g)} IN
      \/ \E g \in hits : Lease(c, g) /\ holder' = Released(c)
      \/ hits = {} /\ Goto(c, "connect") /\ UNCHANGED <<local, older, holder>>
  /\ UNCHANGED <<result, configVars, sessions, map, inflight, poolVars>>

(* Mutant: a failed establishment keeps its guard. *)
Fails_Held(c) == Return(c, "error") /\ UNCHANGED <<local, holder>>

(* An error of establish; the guard's entry stays in inflight. *)
Fails(c) ==
  /\ Return(c, "error") /\ holder' = Released(c)
  /\ local' = [local EXCEPT ![c].guard = None]

(* The known_hosts file is read, and then handshake, authentication, bind  *)
(* and generation follow, within fifteen seconds or not.  The bastion      *)
(* shows any key.                                                          *)
Connect(c) ==
  /\ pc[c] = "connect"
  /\ \/ Fails(c) /\ UNCHANGED <<sessions, older>>
     \/ /\ ~load_error(KnownHostsFiles[file], TRUE) /\ Len(sessions) < MaxSessions
        /\ \E key \in HostKeys, p \in Ports :
             /\ LET n == local[c].key.conn IN
                  decide_host_key(Policies[n], n, loaded(KnownHostsFiles[file]), key)
             /\ \A g \in DOMAIN sessions : sessions[g].listening => sessions[g].port # p
             /\ sessions' = Append(sessions,
                  [key |-> local[c].key, verified |-> file, hostkey |-> key, port |-> p,
                   listening |-> TRUE, live |-> TRUE, draining |-> FALSE])
        /\ older' = Touched(DOMAIN sessions', Len(sessions'))
        /\ local' = [local EXCEPT ![c].gen = Len(sessions) + 1]
        /\ Goto(c, "publish") /\ UNCHANGED <<result, holder>>
  /\ UNCHANGED <<configVars, map, inflight, poolVars>>

(* The pools that ride one of the generations G. *)
Riding(G) == {p \in pools : local[p].gen \in G}

(* Mutant: retirement leaves the pools where they are. *)
Evicted_Kept(G) == {}

Evicted(G) == Riding(G)

(* What publishing session g retires: the other tunnels of its connection, *)
(* the dead ones, and then the least recently used while there is no room. *)
Stale(g) == {h \in map : sessions[h].key.conn = sessions[g].key.conn
                                /\ sessions[h].key # sessions[g].key}
Dead == {h \in map : ~sessions[h].live}

Kept(g) ==
  LET rest == map \ (Stale(g) \cup Dead) IN
    {h \in rest : Cardinality({k \in rest : <<h, k>> \in older}) < MaxTunnels - 1}

(* An entry with the same key that is still there is dropped: its listener *)
(* and session end with it, but its pools are not evicted.                 *)
Replaced(g) == {h \in Kept(g) : sessions[h].key = sessions[g].key}

Publish(c) ==
  /\ pc[c] = "publish"
  /\ LET g       == local[c].gen
         kept    == Kept(g)
         retired == map \ kept IN
      /\ map' = (kept \ Replaced(g)) \cup {g}
      /\ sessions' = [h \in DOMAIN sessions |->
                        IF h \in retired \cup Replaced(g)
                        THEN [sessions[h] EXCEPT !.draining = TRUE] ELSE sessions[h]]
      /\ closed' = closed \cup Evicted(retired) /\ pools' = pools \ Evicted(retired)
  /\ inflight' = inflight \ {d \in Calls : local[d].key = local[c].key}
  /\ holder' = Released(c) /\ local' = [local EXCEPT ![c].guard = None]
  /\ Goto(c, "pool")
  /\ UNCHANGED <<result, configVars, older>>

-----------------------------------------------------------------------------
(* Pools.                                                                  *)

(* config_key: connection, revision and tunnel generation. *)
SamePool(p, c) ==
  /\ local[p].key.conn = local[c].key.conn /\ local[p].key.rev = local[c].key.rev
  /\ local[p].gen = local[c].gen

SameCredential(p, c) == local[p].pw = local[c].pw

Take(c, p) == local' = [local EXCEPT ![c].pool = p] /\ Goto(c, "use")

Found(c) == {p \in pools : SamePool(p, c) /\ SameCredential(p, c)}

FindPool(c) ==
  /\ pc[c] = "pool"
  /\ \E p \in Found(c) : Take(c, p)
  /\ UNCHANGED <<result, configVars, tunnelVars, poolVars>>

(* Where a new connection to the loopback port of c's lease ends up. *)
Behind(c) ==
  {h \in DOMAIN sessions : sessions[h].listening /\ sessions[h].port = sessions[local[c].gen].port}

Reaches(c) ==
  IF local[c].gen = 0 THEN {local[c].key.conn}
  ELSE {sessions[h].key.conn : h \in {i \in Behind(c) : Usable(i)}}

(* The candidate is probed outside the lock, within fifteen seconds. *)
Probe(c) ==
  /\ pc[c] = "pool" /\ Found(c) = {}
  /\ \/ Return(c, "error")
     \/ Reaches(c) # {} /\ Goto(c, "store") /\ UNCHANGED result
  /\ UNCHANGED <<local, configVars, tunnelVars, poolVars>>

(* Mutant: a pool under the same key is taken whatever its credential. *)
Published_Any(c) == {p \in pools : SamePool(p, c)}

Published(c) == Found(c)

Store(c) ==
  /\ pc[c] = "store"
  /\ LET old == {p \in pools : SamePool(p, c)} IN
      \/ /\ \E p \in Published(c) : Take(c, p)
         /\ UNCHANGED <<result, poolVars>>
      \/ /\ Published(c) = {} /\ closed' = closed \cup old
         /\ IF Cardinality(pools \ old) >= MaxPools
            THEN Return(c, "full") /\ pools' = pools \ old /\ UNCHANGED local
            ELSE Take(c, c) /\ pools' = (pools \ old) \cup {c} /\ UNCHANGED result
  /\ UNCHANGED <<configVars, tunnelVars>>

(* The statement runs on a connection of the pool: the one that was        *)
(* probed, while its own session lasts, or a new one.                      *)
Use(c) ==
  /\ pc[c] = "use"
  /\ \/ Return(c, "error")
     \/ /\ local[c].pool \notin closed
        /\ \E n \in Reaches(local[c].pool) : Return(c, n)
  /\ UNCHANGED <<local, configVars, tunnelVars, poolVars>>

-----------------------------------------------------------------------------
(* The rest of the world.                                                  *)

Edit == edits < MaxEdits /\ edits' = edits + 1

(* A new revision, with or without another SSH identity for n. *)
Reconfigure(n) ==
  /\ Edit
  /\ \E s \in {config.ssh[n], config.ssh[n] + 1} :
       config' = [config EXCEPT !.rev = @ + 1, !.ssh[n] = s]
  /\ UNCHANGED <<file, callVars, tunnelVars, poolVars>>

RotatePassword(n) ==
  /\ Edit /\ config' = [config EXCEPT !.pw[n] = @ + 1]
  /\ UNCHANGED <<file, callVars, tunnelVars, poolVars>>

EditKnownHosts ==
  /\ Edit /\ file < Len(KnownHostsFiles) /\ file' = file + 1
  /\ UNCHANGED <<config, callVars, tunnelVars, poolVars>>

(* A session is closed: by a lost bastion, three missed keepalives, or the *)
(* disconnect that follows its retirement.                                 *)
SessionDies(g) ==
  /\ sessions[g].live
  /\ sessions' = [sessions EXCEPT ![g].live = FALSE]
  /\ UNCHANGED <<configVars, callVars, map, older, inflight, holder, poolVars>>

(* The accept loop ends: told to shut down, or at the next connection.     *)
ListenerStops(g) ==
  /\ sessions[g].listening /\ ~Usable(g)
  /\ sessions' = [sessions EXCEPT ![g].listening = FALSE]
  /\ UNCHANGED <<configVars, callVars, map, older, inflight, holder, poolVars>>

Step(c) ==
  \/ Lookup(c) \/ Join(c) \/ Acquire(c) \/ DoubleCheck(c)
  \/ Connect(c) \/ Publish(c) \/ FindPool(c) \/ Probe(c) \/ Store(c) \/ Use(c)

Next ==
  \/ \E c \in Calls : Step(c) \/ \E n \in Conns : Call(c, n)
  \/ \E n \in Conns : Reconfigure(n) \/ RotatePassword(n)
  \/ EditKnownHosts
  \/ \E g \in DOMAIN sessions : SessionDies(g) \/ ListenerStops(g)

Spec == Init /\ [][Next]_vars

-----------------------------------------------------------------------------

Establishing == {"connect", "publish"}

(* One establishment per key at a time, however many calls ask for it,     *)
(* unless a tunnel of that key was lost meanwhile.                         *)
Coalesced ==
  \A c, d \in Calls :
    c # d /\ {pc[c], pc[d]} \subseteq Establishing /\ local[c].key = local[d].key =>
      \E g \in DOMAIN sessions : sessions[g].key = local[c].key /\ ~Usable(g)

(* The pool a call runs on was opened with the call's own connection,      *)
(* revision, tunnel generation and password, even while those change under *)
(* concurrent calls.                                                       *)
OwnPool ==
  \A c \in Calls : pc[c] = "use" =>
    SamePool(local[c].pool, c) /\ SameCredential(local[c].pool, c)

(* A lease is never on a session whose host key was checked against an     *)
(* older known_hosts content than the call found.                          *)
LeaseVerifiedFresh ==
  \A c \in Calls : pc[c] = "pool" /\ local[c].gen # 0 =>
    sessions[local[c].gen].verified >= local[c].key.stamp

(* No session was opened to a host whose key the file it was checked       *)
(* against revokes, or names another key for, or, when strict, none.       *)
HostKeyPinned ==
  \A g \in DOMAIN sessions :
    LET s     == sessions[g]
        named == {e \in KnownHostsFiles[s.verified].entries : s.key.conn \in e.hosts} IN
      /\ \A e \in named : ~(e.key = s.hostkey /\ e.marker = "@revoked")
      /\ named # {} \/ Policies[s.key.conn] = "strict" => \E e \in named : e.key = s.hostkey

(* The pools of a retired tunnel leave the cache with it (a tunnel that is *)
(* replaced under its own key while it lives is the exception).            *)
RetiredEvicted ==
  [][\A g \in map \ map' :
       \/ sessions[g].live /\ \E h \in map' : sessions[h]'.key = sessions[g].key
       \/ \A p \in pools' : local[p].gen # g]_vars

(* Nobody waits for a guard that is never given back: its holder is still  *)
(* on its way to publish, or to fail.                                      *)
GuardsReleased ==
  \A c \in Calls : pc[c] = "wait" /\ holder[local[c].guard] # None =>
    LET d == holder[local[c].guard] IN
      pc[d] \in {"check"} \cup Establishing /\ local[d].key = local[c].key

(* ssh.rs: "a pool can never outlive its tunnel and get spliced onto a     *)
(* later transport that reuses the same ephemeral port".                   *)
NeverSpliced ==
  \A c \in Calls : result[c] \in Conns => result[c] = local[c].key.conn

=============================================================================
