SPECIFICATION TimeoutSpec
CONSTANTS
  Threads = {t1, t2}
  Conns = {c1}
  NoConn = NoConn
  MaxOpen = 1
  MaxIdle = 1
  Timed = TRUE
  Lifetime = FALSE
  OpenTries = 1
  MaxHeld = 1
  TimeoutTicks = 2
INVARIANTS BlocksUpToTimeout
CHECK_DEADLOCK FALSE
