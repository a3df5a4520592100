SPECIFICATION Spec
CONSTANTS
  Emails = {e1, e2}
  Controllers = {c1}
  Priorities = {0, 1}
  MaxQueueSize = 2
  BatchSize = 2
  MaxRetries = 2
  RetryDelay = 1
  DelayCap = 3
SYMMETRY Symmetry
INVARIANTS TypeOK Accounted DeliveredOnce AttemptsFollowRetries StatisticsAgree FifoWithinPriority NoThreadFault NoWorkerAfterStop
PROPERTIES RetryNotEarly
CHECK_DEADLOCK FALSE
