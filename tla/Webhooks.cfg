SPECIFICATION Spec
CONSTANTS
  Threads = {t1, t2}
  NoThread = NoThread
  SecretSet = TRUE
  Requests <- MCRequests
  Registrations <- MCRegistrations
  MaxRequests = 2
  MaxCallbacks = 2
INVARIANTS CallbacksInOrder CountsAgree
PROPERTIES TrueIsComplete CallsReturn
CHECK_DEADLOCK FALSE
