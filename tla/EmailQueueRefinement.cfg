SPECIFICATION Spec
CONSTANTS
  Emails = {e1, e2, e3}
  Controllers = {c1, c2}
  Priorities = {0}
  MaxQueueSize = 1
  BatchSize = 1
  MaxRetries = 1
  RetryDelay = 0
  DelayCap = 0
SYMMETRY Symmetry
INVARIANTS QueueBound OwnedWorker
PROPERTIES ImplementsDelivery
CHECK_DEADLOCK FALSE
