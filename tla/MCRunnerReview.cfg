\* Three rounds and two reviewers: two runs, a crash, two edits.
\* A run that is used up, or a round left to people, stops.
CONSTANTS
  m1 = m1 s1 = s1 coder = coder reader = reader critic = critic
  None = None
  MilestoneOf <- OneMilestone
  Position <- Order
  Milestones = {m1}
  Slices = {s1}
  HolisticReview = {}
  Autonomy = TRUE
  Invocations = {i1, i2, i3, i4}
  Contracts <- Digests
  Runs = {r1, r2}
  Authorities = {a1, a2}
  Allowances <- WithRetry
  Operations = {}
  MaxRound = 3
  MaxCeiling = 2
  MaxSeconds = 1
  MaxMeasured = 0
  Route <- TwoReaders
  Coder = coder
  Suite = suite
  ProbePlan = {}
  CorrectiveRounds = 2
  Contents = {base, c1}
  Base = base
  Entries = {"run", "loop"}
  Failures = {failure, another, cut}
  Inconclusive = {cut}
  Sweeps = {FALSE}
  MaxCrashes = 1
  MaxEdits = 2
SYMMETRY Names
SPECIFICATION RunnerSpec
CHECK_DEADLOCK FALSE
INVARIANTS
  NothingIsRepeated
  ReviewIsOfTested
  AcceptedWasReviewed
  StallEndsCoding
