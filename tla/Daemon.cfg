SPECIFICATION Spec
CONSTANTS
  Shells = {s1, s2}
  Pids = {p1, p2, p3}
  NoPid = NoPid
  NoFile = NoFile
  EmptyFile = EmptyFile
  Faults = {"crash", "reuse", "unwritable"}
SYMMETRY Symmetry
INVARIANTS SingleDaemon Reachable StopHitsDaemon
CHECK_DEADLOCK FALSE
