SPECIFICATION Spec
CONSTANTS
  c1 = c1
  c2 = c2
  s1 = s1
  s2 = s2
  a1 = a1
  a2 = a2
  None = None
  Clients = {c1}
  Servers = {s1}
  Addr = {a1, a2}
  Owner <- OneServer
  Discover = 1
  FirstTry = 1
  LastTry = 2
  MinRetry = 1
  T1 = 2
  T2 = 3
  Lease = 5
  Optional = FALSE
  Unset = {0, 1, 7}
  Late = TRUE
  MaxFaults = 0
CHECK_DEADLOCK FALSE
INVARIANTS
  LeaseCovered
