\* Two slices and their gate: four reports, a fault, an edit.
CONSTANTS
  m1 = m1 s1 = s1 s2 = s2 reader = reader critic = critic f = f
  None = None
  Slices = {s1, s2}
  Milestone = m1
  Position <- Order
  Route <- ByRisk
  Base = {f}
  Prefix <- Prefixes
  Said <- FewReports
  Seen = {"open", "closed_by_review"}
  Entries = {"run", "loop"}
  MaxReports = 4
  MaxFaults = 1
  MaxEdits = 1
SPECIFICATION FairSpec
CHECK_DEADLOCK FALSE
INVARIANTS
  IndexIsExact
PROPERTIES
  PassLeavesNothingOpen
  EveryFindingCounts
  BacklogCatchesUp
