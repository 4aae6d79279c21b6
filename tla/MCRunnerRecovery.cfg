\* One run that crashes twice and is started again.
\* A run that is used up, or a round left to people, stops.
CONSTANTS
  m1 = m1 s1 = s1 coder = coder reader = reader critic = critic
  None = None
  MilestoneOf <- OneMilestone
  Position <- Order
  Milestones = {m1}
  Slices = {s1}
  HolisticReview = {}
  Autonomy = TRUE
  Invocations = {i1, i2, i3, i4}
  Contracts <- Digests
  Runs = {r1}
  Authorities = {a1}
  Allowances <- WithRetry
  Operations = {}
  MaxRound = 2
  MaxCeiling = 0
  MaxSeconds = 1
  MaxMeasured = 1
  Route <- OneReader
  Coder = coder
  Suite = suite
  ProbePlan = {}
  CorrectiveRounds = 1
  Contents = {base, c1}
  Base = base
  Entries = {"loop"}
  Failures = {failure}
  Inconclusive = {}
  Sweeps = {FALSE}
  MaxCrashes = 2
  MaxEdits = 0
SPECIFICATION FairSpec
CHECK_DEADLOCK FALSE
PROPERTIES
  SettledIsRecorded
  InterruptedMergeResumes
