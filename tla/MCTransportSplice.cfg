CONSTANTS
  a = a
  b = b
  c1 = c1
  c2 = c2
  c3 = c3
  p1 = p1
  p2 = p2
  k1 = k1
  k2 = k2
  None = None
  Hosts = {a, b}
  HostKeys = {k1, k2}
  Calls = {c1, c2}
  Ports = {p1}
  KnownHostsFiles <- OneFile
  Policies <- StrictForA
  HasTunnel = {a, b}
  MaxTunnels = 1
  MaxPools = 1
  MaxSessions = 2
  MaxEdits = 0
SPECIFICATION Spec
CHECK_DEADLOCK FALSE
INVARIANTS NeverSpliced
