\* Two slices and their holistic gate, every way back to work, two run grants
\* and an extension, no calls.
\* A run that is closed or used up with its milestone still active stops.
CONSTANTS
  m1 = m1 s1 = s1 s2 = s2
  None = None
  MilestoneOf <- OneMilestone
  Position <- Order
  Milestones = {m1}
  Slices = {s1, s2}
  HolisticReview = {m1}
  Autonomy = TRUE
  Invocations = {}
  Contracts = {}
  Runs = {r1, r2}
  Authorities = {a1, a2}
  Allowances <- OneAllowance
  Operations = {o1, o2}
  MaxRound = 2
  MaxCeiling = 0
  MaxSeconds = 1
  MaxMeasured = 2
SYMMETRY Names
SPECIFICATION Spec
CHECK_DEADLOCK FALSE
INVARIANTS
  TypeOK
  AcceptedHasEvidence
  ClosureSound
  OpenRunIsHeadWithWorkAhead
PROPERTIES
  RoundPromptedOnce
  ClosedRunStaysClosed
