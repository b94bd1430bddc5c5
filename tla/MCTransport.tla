------------------------------ MODULE MCTransport ------------------------------
(* Small instances of Transport for TLC. *)
EXTENDS Transport, TLC

CONSTANTS a, b, c1, c2, c3, k1, k2, p1, p2

Named(hosts, key, marker) == [hosts |-> hosts, key |-> key, marker |-> marker]
Lines(entries) == [readable |-> TRUE, lines |-> TRUE, entries |-> entries]

(* First k1 is known for a; then it is revoked as well, and k2 takes over. *)
RevokedLater ==
  <<Lines({Named({a}, k1, "none")}),
    Lines({Named({a}, k1, "none"), Named({a, b}, k1, "@revoked"), Named({a}, k2, "none")})>>

OneFile == <<Lines({Named({a, b}, k1, "none")})>>

Symmetry == Permutations(Calls) \cup Permutations(Ports)

StrictForA == [h \in Hosts |-> IF h = a THEN "strict" ELSE "lenient"]
=============================================================================
