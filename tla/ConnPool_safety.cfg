SPECIFICATION Spec
CONSTANTS
  Threads = {t1, t2, t3}
  Conns = {c1, c2, c3, c4}
  NoConn = NoConn
  MaxOpen = 3
  MaxIdle = 2
  Timed = TRUE
  Lifetime = TRUE
  OpenTries = 3
  MaxHeld = 2
SYMMETRY Symm
INVARIANTS TypeOK Accounting OpenBound IdleBound SoleOwner NoLostWakeup WaitsOnlyOnClients
PROPERTIES ExpiredIdleOnlyCloses ImplementsLending
CHECK_DEADLOCK FALSE
