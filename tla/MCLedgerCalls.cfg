\* Three calls of one run: retries, fresh contexts and overruns.
\* A run whose allowance is spent with its milestone still active stops.
CONSTANTS
  m1 = m1 s1 = s1 s2 = s2
  None = None
  MilestoneOf <- OneMilestone
  Position <- Order
  Milestones = {m1}
  Slices = {s1}
  HolisticReview = {}
  Autonomy = TRUE
  Invocations = {i1, i2, i3}
  Contracts = {c1}
  Runs = {r1}
  Authorities = {a1}
  Allowances <- RetryAllowance
  Operations = {}
  MaxRound = 1
  MaxCeiling = 0
  MaxSeconds = 1
  MaxMeasured = 2
SYMMETRY Names
SPECIFICATION Spec
CHECK_DEADLOCK FALSE
INVARIANTS
  ChainIsBounded
  ContextSentOnce
  AllowanceRespected
  ConsumptionAttributed
