\* Two slices over the same two files: two rounds, an edit and a commit of others.
\* A round whose coder failed, or a closed milestone, stops.
CONSTANTS
  s1 = s1 s2 = s2 kept = kept fresh = fresh old = old new = new
  Absent = Absent
  Milestone = Milestone
  Slices = {s1, s2}
  Position <- Order
  Paths = {kept, fresh}
  Contents = {old, new}
  Initially <- Committed
  Writable <- Everywhere
  Policies = {TRUE, FALSE}
  MaxRounds = 2
  MaxEdits = 1
  MaxCommits = 1
SPECIFICATION Spec
CHECK_DEADLOCK FALSE
INVARIANTS
  WorkIsAccounted
  ClosureIsCurrent
PROPERTIES
  CommitIsReviewed
  ReviewSeesAll
  OthersWorkStays
