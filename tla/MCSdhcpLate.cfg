SPECIFICATION SilentSpec
CONSTANTS
  c1 = c1
  c2 = c2
  s1 = s1
  s2 = s2
  a1 = a1
  a2 = a2
  None = None
  Clients = {c1}
  Servers = {s1}
  Addr = {a1}
  Owner <- OneAddress
  Discover = 1
  FirstTry = 1
  LastTry = 1
  MinRetry = 1
  T1 = 1
  T2 = 2
  Lease = 3
  Optional = FALSE
  Unset = {0, 1, 7}
  Late = TRUE
  MaxFaults = 1
CHECK_DEADLOCK FALSE
PROPERTIES
  RenewalSettles
