SPECIFICATION Spec
CONSTANTS
  Threads = {t1, t2, t3}
  NoToken = NoToken
  Lifetime = 5
  Buffer = 2
  Timeout = 1
  MaxTime = 7
INVARIANTS GivenTokenLives
PROPERTIES FetchedOnce
CHECK_DEADLOCK FALSE
