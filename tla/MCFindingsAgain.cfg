\* The public entry only, and nobody else edits: a fault, then run again.
CONSTANTS
  m1 = m1 s1 = s1 s2 = s2 reader = reader critic = critic f = f
  None = None
  Slices = {s1, s2}
  Milestone = m1
  Position <- Order
  Route <- ByRisk
  Base = {f}
  Prefix <- Prefixes
  Said <- FewReports
  Seen = {"open", "closed_by_review"}
  Entries = {"run"}
  MaxReports = 4
  MaxFaults = 1
  MaxEdits = 0
SPECIFICATION Spec
CHECK_DEADLOCK FALSE
INVARIANTS
  RunAgainIsAdmitted
