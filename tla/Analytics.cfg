SPECIFICATION Spec
CONSTANTS
  ProviderNames = {"sendgrid", "mailgun"}
  Latencies = {1, 2}
  Window = 2
  MaxOperations = 6
INVARIANTS MetricsAgree LatencyWindow
CHECK_DEADLOCK FALSE
