------------------------------ MODULE KnownHosts ------------------------------
(***************************************************************************)
(* The known_hosts engine of src/src/sql/known_hosts.rs: which keys a file *)
(* accepts for a host.  An entry is the set of hosts its patterns, plain,  *)
(* wildcard, "[host]:port" or hashed, match; matching is data of the       *)
(* model.  A file that cannot be read, or has lines none of which parses,  *)
(* is an error when the configuration names it.                            *)
(***************************************************************************)
EXTENDS Naturals

CONSTANTS Hosts, HostKeys

Entry == [hosts : SUBSET Hosts, key : HostKeys, marker : {"none", "@cert-authority", "@revoked"}]

File == [readable : BOOLEAN, lines : BOOLEAN, entries : SUBSET Entry]

load_error(file, explicit) ==
  \/ ~file.readable /\ explicit
  \/ file.readable /\ file.lines /\ file.entries = {}

loaded(file) == IF file.readable THEN file.entries ELSE {}

match_host(entries, host) == {e \in entries : host \in e.hosts}

(* A key is matched by any entry that is not a revocation. *)
verify_host_key(key, host, entries) ==
  LET candidates == match_host(entries, host)
      same       == {e \in candidates : e.key = key} IN
    [matched |-> \E e \in same : e.marker # "@revoked",
     had_matching_host_entry |-> candidates # {},
     revoked |-> \E e \in same : e.marker = "@revoked"]

(* Mutant: a revocation counts as an entry that does not match. *)
decide_host_key_Revoked(policy, host, entries, key) ==
  LET r == verify_host_key(key, host, entries) IN
    /\ policy = "strict" => r.matched
    /\ r.had_matching_host_entry => r.matched

(* Lenient accepts one thing more than strict: a host no entry names. *)
decide_host_key(policy, host, entries, key) ==
  LET r == verify_host_key(key, host, entries) IN
    /\ ~r.revoked
    /\ policy = "strict" => r.had_matching_host_entry /\ r.matched
    /\ r.had_matching_host_entry => r.matched

=============================================================================
