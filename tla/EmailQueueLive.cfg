SPECIFICATION FairSpec
CONSTANTS
  Emails = {e1, e2}
  Controllers = {c1}
  Priorities = {0, 1}
  MaxQueueSize = 2
  BatchSize = 1
  MaxRetries = 1
  RetryDelay = 1
  DelayCap = 1
PROPERTIES EveryEmailResolved StopReachesBusyWorker
CHECK_DEADLOCK FALSE
