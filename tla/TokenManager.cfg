SPECIFICATION FairSpec
CONSTANTS
  Threads = {t1, t2}
  NoThread = NoThread
  Accounts = {a1, a2}
  Refreshable = {a1}
  Absent = Absent
  Torn = Torn
  Lifetime = 2
  Buffer = 1
  AutoRefresh = TRUE
  SaveFaults = TRUE
  MaxTokens = 2
INVARIANTS Persisted DeletionIsFinal
PROPERTIES TokensAdvance MutexReturned
CHECK_DEADLOCK FALSE
