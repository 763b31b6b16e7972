SPECIFICATION ClientSpec
CONSTANTS
  Threads = {t1, t2, t3}
  Conns = {c1, c2}
  NoConn = NoConn
  MaxOpen = 1
  MaxIdle = 1
  Timed = FALSE
  Lifetime = TRUE
  OpenTries = 1
  MaxHeld = 1
  MaxCalls = 2
PROPERTIES EveryCallReturns
CHECK_DEADLOCK FALSE
