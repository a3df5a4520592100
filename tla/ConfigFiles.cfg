SPECIFICATION Spec
CONSTANTS
  p1 = p1
  p2 = p2
  a1 = a1
  a12 = a12
  Procs = {p1, p2}
  DirsOf <- MCDirsOf
  Domains = {d1}
  Users = {u1}
  Templates = {t1}
  Patterns = {a1, a12}
  Providers = {sendgrid, mailgun}
  Longer <- MCLonger
  Earlier <- MCEarlier
  Absent = Absent
  Faults = TRUE
  MaxCommands = 3
  MaxSecond = 1
  MaxCut = 1
SYMMETRY Symmetry
INVARIANTS LastCommandHolds ErrorsExplained AccountKeyThere SectionsTrue
PROPERTIES ExtractionIsSaved
CHECK_DEADLOCK FALSE
