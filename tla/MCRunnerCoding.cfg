\* The coder and its probe: two runs, a crash, a retry.
\* A run that is used up, or a round left to people, stops.
CONSTANTS
  m1 = m1 s1 = s1 coder = coder reader = reader critic = critic
  None = None
  MilestoneOf <- OneMilestone
  Position <- Order
  Milestones = {m1}
  Slices = {s1}
  HolisticReview = {}
  Autonomy = TRUE
  Invocations = {i1, i2, i3, i4}
  Contracts <- Digests
  Runs = {r1, r2}
  Authorities = {a1, a2}
  Allowances <- Scarce
  Operations = {}
  MaxRound = 1
  MaxCeiling = 0
  MaxSeconds = 1
  MaxMeasured = 1
  Route <- OneReader
  Coder = coder
  Suite = suite
  ProbePlan = {coder}
  CorrectiveRounds = 1
  Contents = {base, c1}
  Base = base
  Entries = {"run", "loop"}
  Failures = {failure}
  Inconclusive = {}
  Sweeps = {TRUE, FALSE}
  MaxCrashes = 1
  MaxEdits = 0
SYMMETRY Names
SPECIFICATION RunnerSpec
CHECK_DEADLOCK FALSE
INVARIANTS
  CoderDispatchedOnce
  DispatchIsProbed
