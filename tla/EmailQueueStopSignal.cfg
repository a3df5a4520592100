SPECIFICATION FairSpec
CONSTANTS
  Emails = {e1}
  Controllers = {c1}
  Priorities = {0}
  MaxQueueSize = 1
  BatchSize = 1
  MaxRetries = 0
  RetryDelay = 1
  DelayCap = 1
PROPERTIES StopSignalEndsWait
CHECK_DEADLOCK FALSE
