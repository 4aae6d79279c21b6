---------------------------- MODULE LedgerProofs ----------------------------
(***************************************************************************)
(* Theorems about the ledger, for every roadmap, set of identities and     *)
(* allowance, and for every value of the bounds.                           *)
(***************************************************************************)
EXTENDS Ledger, FiniteSetTheorems, WellFoundedInduction, TLAPS

-----------------------------------------------------------------------------
(* Lemmas about the folded records *)

(* Sending a slice back keeps its shape, and puts it in the next round.     *)
LEMMA SentBackFacts ==
  ASSUME NEW sl \in SliceState
  PROVE  /\ SentBack(sl) \in SliceState
         /\ SentBack(sl).step = "fix" /\ SentBack(sl).round = sl.round + 1
  <1>. DEFINE fixed == [sl EXCEPT !.step = "fix"]
  <1>1. fixed \in SliceState
    BY DEF SliceState, Steps
  <1>2. fixed.round = sl.round /\ sl.round \in Nat /\ fixed.step = "fix"
    BY DEF SliceState
  <1>3. SentBack(sl) = [fixed EXCEPT !.round = sl.round + 1]
    BY DEF SentBack
  <1>. HIDE DEF fixed
  <1>4. [fixed EXCEPT !.round = sl.round + 1] \in SliceState
    BY <1>1, <1>2 DEF SliceState
  <1>. QED BY <1>1, <1>2, <1>3, <1>4 DEF SliceState

LEMMA ReopenFacts ==
  ASSUME NEW sl \in SliceState
  PROVE  /\ Reopen(sl) \in SliceState
         /\ Reopen(sl).step = "fix" /\ Reopen(sl).round = sl.round + 1
         /\ ReopenForFindings(sl) \in SliceState
         /\ ReopenForFindings(sl).step = "fix"
         /\ ReopenForFindings(sl).round = sl.round + 1
  <1>1. /\ Reopen(sl) \in SliceState
        /\ Reopen(sl).step = "fix" /\ Reopen(sl).round = sl.round + 1
    BY SentBackFacts DEF Reopen, SliceState
  <1>2. /\ ReopenForFindings(sl) \in SliceState
        /\ ReopenForFindings(sl).step = "fix"
        /\ ReopenForFindings(sl).round = sl.round + 1
    BY <1>1 DEF ReopenForFindings, SliceState, Holistic
  <1>. QED BY <1>1, <1>2

(* The steps of a round keep the shape of the slice; only the ways back to  *)
(* work change its round, and only acceptance makes it accepted.            *)
LEMMA StepFacts ==
  ASSUME NEW sl \in SliceState, NEW b \in BOOLEAN, NEW v \in Verdicts
  PROVE  /\ Prompted(sl) \in SliceState /\ Prompted(sl).step = "coding"
         /\ CodedAs(sl, b) \in SliceState /\ CodedAs(sl, b).step # "accepted"
         /\ VerifiedAs(sl, b) \in SliceState /\ VerifiedAs(sl, b).step # "accepted"
         /\ ReviewedAs(sl, v) \in SliceState /\ ReviewedAs(sl, v).step # "accepted"
         /\ AcceptedAs(sl) \in SliceState /\ AcceptedAs(sl).round = sl.round
         /\ AcceptedAs(sl).step = "accepted"
  <1>0. sl.round \in Nat /\ sl.corrective \in Nat
    BY DEF SliceState
  <1>1. Prompted(sl) \in SliceState /\ Prompted(sl).step = "coding"
    <2>. DEFINE coding == [sl EXCEPT !.step = "coding"]
                issued == [coding EXCEPT !.last_prompt = sl.round]
                used   == sl.corrective + (IF sl.round > 1 THEN 1 ELSE 0)
    <2>1. coding \in SliceState /\ coding.step = "coding"
      BY DEF SliceState, Steps
    <2>. HIDE DEF coding
    <2>2. issued \in SliceState /\ issued.step = "coding"
      BY <1>0, <2>1 DEF SliceState
    <2>3. used \in Nat
      BY <1>0
    <2>4. Prompted(sl) = [issued EXCEPT !.corrective = used]
      BY DEF Prompted, coding
    <2>. HIDE DEF issued, used
    <2>. QED BY <2>2, <2>3, <2>4 DEF SliceState
  <1>2. CodedAs(sl, b) \in SliceState /\ CodedAs(sl, b).step # "accepted"
    BY DEF CodedAs, SliceState, Steps
  <1>3. VerifiedAs(sl, b) \in SliceState /\ VerifiedAs(sl, b).step # "accepted"
    <2>. DEFINE seen == [sl EXCEPT !.last_receipt = sl.round]
    <2>1. seen \in SliceState
      BY <1>0 DEF SliceState
    <2>2. VerifiedAs(sl, b) = IF b THEN [seen EXCEPT !.step = "reviewing"] ELSE SentBack(seen)
      BY DEF VerifiedAs
    <2>. HIDE DEF seen
    <2>3. [seen EXCEPT !.step = "reviewing"] \in SliceState
          /\ [seen EXCEPT !.step = "reviewing"].step = "reviewing"
      BY <2>1 DEF SliceState, Steps
    <2>. QED BY <2>1, <2>2, <2>3, SentBackFacts
  <1>4. ReviewedAs(sl, v) \in SliceState /\ ReviewedAs(sl, v).step # "accepted"
    <2>. DEFINE seen == [sl EXCEPT !.last_report = sl.round]
    <2>1. seen \in SliceState
      BY <1>0 DEF SliceState
    <2>2. \/ ReviewedAs(sl, v) = SentBack(seen)
          \/ ReviewedAs(sl, v) = [seen EXCEPT !.step = "blocked"]
          \/ ReviewedAs(sl, v) = [seen EXCEPT !.step = "accept_pending"]
      BY DEF ReviewedAs, Verdicts
    <2>. HIDE DEF seen
    <2>3. /\ [seen EXCEPT !.step = "blocked"] \in SliceState
          /\ [seen EXCEPT !.step = "blocked"].step = "blocked"
          /\ [seen EXCEPT !.step = "accept_pending"] \in SliceState
          /\ [seen EXCEPT !.step = "accept_pending"].step = "accept_pending"
      BY <2>1 DEF SliceState, Steps
    <2>. QED BY <2>1, <2>2, <2>3, SentBackFacts
  <1>5. /\ AcceptedAs(sl) \in SliceState /\ AcceptedAs(sl).round = sl.round
        /\ AcceptedAs(sl).step = "accepted"
    <2>. DEFINE accepted == [sl EXCEPT !.step = "accepted"]
    <2>1. accepted \in SliceState /\ accepted.round = sl.round /\ accepted.step = "accepted"
      BY DEF SliceState, Steps
    <2>2. AcceptedAs(sl) = [accepted EXCEPT !.reopened = FALSE]
      BY DEF AcceptedAs
    <2>. HIDE DEF accepted
    <2>. QED BY <2>1, <2>2 DEF SliceState
  <1>. QED BY <1>1, <1>2, <1>3, <1>4, <1>5

(* Reopening work of a milestone keeps the shape of the gates.              *)
LEMMA ReviewAgainType ==
  ASSUME holistic \in [Milestones -> GateState], NEW m \in Milestones
  PROVE  ReviewAgain(m) \in [Milestones -> GateState]
  BY DEF ReviewAgain, GateState, Gates

(* An admitted run has the shape of one; an open run is admitted.           *)
LEMMA AdmittedType ==
  ASSUME runs \in [Runs -> RunState \cup {NoRun}]
  PROVE  /\ \A r \in Admitted : r \in Runs /\ runs[r] \in RunState
         /\ \A r : Open(r) => r \in Admitted /\ runs[r].closed = "open"
         /\ \A r \in Runs : runs[r] \in RunState => r \in Admitted
  BY DEF Admitted, Open, NoRun, RunState, Closures

(* Charging and settling a run keep its shape.                              *)
LEMMA ChargeType ==
  ASSUME NEW run \in RunState, NEW a \in Starts
  PROVE  /\ Charges(a) \in [Units -> Nat]
         /\ Charged(run, a) \in RunState
  <1>1. a.seconds \in Nat
    BY BoundAssumption DEF Starts
  <1>2. Charges(a) \in [Units -> Nat]
    BY <1>1 DEF Charges, Units
  <1>3. [u \in Units |-> run.consumed[u] + Charges(a)[u]] \in [Units -> Int]
    BY <1>2 DEF RunState
  <1>. QED BY <1>2, <1>3 DEF Charged, RunState

LEMMA SettleType ==
  ASSUME NEW run \in RunState, NEW o \in Outcomes, NEW n \in Nat, NEW k \in Nat
  PROVE  /\ FinalSeconds(o, n, k) \in Nat
         /\ Settled(run, o, n, k) \in RunState
  <1>1. FinalSeconds(o, n, k) \in Nat
    BY DEF FinalSeconds
  <1>2. run.consumed \in [Units -> Int] /\ run.closed \in Closures
    BY DEF RunState
  <1>3. [run.consumed EXCEPT !["seconds"] = @ + FinalSeconds(o, n, k) - n] \in [Units -> Int]
    BY <1>1, <1>2 DEF Units
  <1>4. (IF k > n THEN "overrun" ELSE run.closed) \in Closures
    BY <1>2 DEF Closures
  <1>. QED BY <1>1, <1>3, <1>4 DEF Settled, RunState

-----------------------------------------------------------------------------
(* Type correctness *)

LEMMA InitType == Init => TypeOK
  <1>. SUFFICES ASSUME Init PROVE TypeOK
    OBVIOUS
  <1>1. NewSlice \in SliceState
    BY DEF NewSlice, SliceState, Steps
  <1>2. NoGate \in GateState
    BY DEF NoGate, GateState, Gates
  <1>. QED BY <1>1, <1>2 DEF Init, TypeOK

(* A step of the slices alone that gives a slice another well-formed state. *)
LEMMA SliceStepType ==
  ASSUME TypeOK, NEW s \in Slices, NEW sl \in SliceState,
         slices' = [slices EXCEPT ![s] = sl],
         UNCHANGED <<status, done, holistic, calls, commits, grants>>
  PROVE  TypeOK'
  BY DEF TypeOK, calls, commits, grants

(* An approval records at most its intent and closes at most the head run.  *)
LEMMA ApprovalType ==
  ASSUME TypeOK, NEW scope \in Scopes, NEW op \in Operations \cup {None},
         Intend(op, scope), CloseAtBoundary(scope)
  PROVE  /\ intents' \in [Operations -> Scopes \cup {None}]
         /\ runs' \in [Runs -> RunState \cup {NoRun}]
  <1>1. intents' \in [Operations -> Scopes \cup {None}]
    BY DEF TypeOK, Intend
  <1>2. CASE Ends(scope)
    <2>1. head \in Runs /\ runs[head] \in RunState
      BY <1>2, AdmittedType DEF Ends, TypeOK
    <2>2. [runs[head] EXCEPT !.closed = "boundary"] \in RunState
      BY <2>1 DEF RunState, Closures
    <2>3. runs' = [runs EXCEPT ![head] = [runs[head] EXCEPT !.closed = "boundary"]]
      BY <1>2 DEF CloseAtBoundary
    <2>. QED BY <1>1, <2>1, <2>2, <2>3 DEF TypeOK
  <1>3. CASE ~Ends(scope)
    BY <1>1, <1>3 DEF CloseAtBoundary, TypeOK
  <1>. QED BY <1>2, <1>3

LEMMA PromptType ==
  ASSUME TypeOK, NEW s \in Slices, Prompt(s) PROVE TypeOK'
  BY SliceStepType, StepFacts DEF Prompt, TypeOK, Verdicts

LEMMA CodedType ==
  ASSUME TypeOK, NEW s \in Slices, NEW b \in BOOLEAN, Coded(s, b) PROVE TypeOK'
  BY SliceStepType, StepFacts DEF Coded, TypeOK, Verdicts

LEMMA VerifiedType ==
  ASSUME TypeOK, NEW s \in Slices, NEW b \in BOOLEAN, Verified(s, b) PROVE TypeOK'
  BY SliceStepType, StepFacts DEF Verified, TypeOK, Verdicts

LEMMA ReviewedType ==
  ASSUME TypeOK, NEW s \in Slices, NEW v \in Verdicts, Reviewed(s, v) PROVE TypeOK'
  BY SliceStepType, StepFacts DEF Reviewed, TypeOK

LEMMA ResolvedType ==
  ASSUME TypeOK, NEW s \in Slices, Resolved(s) PROVE TypeOK'
  BY SliceStepType, SentBackFacts DEF Resolved, TypeOK

LEMMA AcceptedType ==
  ASSUME TypeOK, NEW s \in Slices, NEW op \in Operations \cup {None}, Accepted(s, op)
  PROVE  TypeOK'
  <1>1. /\ intents' \in [Operations -> Scopes \cup {None}]
        /\ runs' \in [Runs -> RunState \cup {NoRun}]
    BY ApprovalType DEF Accepted, Scopes
  <1>2. AcceptedAs(slices[s]) \in SliceState
    BY StepFacts DEF TypeOK, Verdicts
  <1>3. slices' \in [Slices -> SliceState]
    BY <1>2 DEF Accepted, TypeOK
  <1>. QED BY <1>1, <1>3 DEF Accepted, TypeOK, calls

LEMMA ReopenedType ==
  ASSUME TypeOK, NEW s \in Slices, Reopened(s) PROVE TypeOK'
  <1>1. slices' \in [Slices -> SliceState]
    BY ReopenFacts DEF Reopened, TypeOK
  <1>2. holistic' \in [Milestones -> GateState]
    BY ReviewAgainType, RoadmapAssumption DEF Reopened, TypeOK
  <1>. QED BY <1>1, <1>2 DEF Reopened, TypeOK, calls, commits, grants

LEMMA HolisticReviewedType ==
  ASSUME TypeOK, NEW m \in Milestones, NEW v \in Verdicts, NEW S \in SUBSET Slices,
         HolisticReviewed(m, v, S)
  PROVE  TypeOK'
  <1>1. slices' \in [Slices -> SliceState]
    BY ReopenFacts DEF HolisticReviewed, TypeOK
  <1>2. [s \in Slices |-> slices[s].round] \in [Slices -> Nat]
    BY DEF TypeOK, SliceState
  <1>3. GateVerdict(v) \in Gates
    BY DEF GateVerdict, Gates
  <1>4. [step |-> GateVerdict(v), covers |-> [s \in Slices |-> slices[s].round]] \in GateState
    BY <1>2, <1>3 DEF GateState
  <1>5. holistic' \in [Milestones -> GateState]
    BY <1>4 DEF HolisticReviewed, TypeOK
  <1>. QED BY <1>1, <1>5 DEF HolisticReviewed, TypeOK, calls, commits, grants

LEMMA ResolvedGateType ==
  ASSUME TypeOK, NEW m \in Milestones, ResolvedGate(m) PROVE TypeOK'
  <1>1. holistic' \in [Milestones -> GateState]
    BY DEF ResolvedGate, TypeOK, GateState, Gates
  <1>. QED BY <1>1 DEF ResolvedGate, TypeOK, calls, commits, grants

LEMMA MilestoneDoneType ==
  ASSUME TypeOK, NEW m \in Milestones, NEW op \in Operations \cup {None}, MilestoneDone(m, op)
  PROVE  TypeOK'
  <1>1. /\ intents' \in [Operations -> Scopes \cup {None}]
        /\ runs' \in [Runs -> RunState \cup {NoRun}]
    BY ApprovalType DEF MilestoneDone, Scopes
  <1>2. holistic' \in [Milestones -> GateState]
    BY DEF MilestoneDone, TypeOK, GateState, Gates
  <1>. QED BY <1>1, <1>2 DEF MilestoneDone, TypeOK, calls

LEMMA CommitCancelledType ==
  ASSUME TypeOK, NEW op \in Operations, NEW retain \in BOOLEAN, CommitCancelled(op, retain)
  PROVE  TypeOK'
  <1>1. slices' \in [Slices -> SliceState]
    BY ReopenFacts DEF CommitCancelled, TypeOK, lifecycle
  <1>2. holistic' \in [Milestones -> GateState]
    <2>1. CASE UNCHANGED holistic
      BY <2>1 DEF TypeOK
    <2>2. CASE \E s \in Slices : holistic' = ReviewAgain(MilestoneOf[s])
      BY <2>2, ReviewAgainType, RoadmapAssumption DEF TypeOK
    <2>3. CASE \E m \in Milestones : holistic' = [holistic EXCEPT ![m].step = "reviewing"]
      BY <2>3 DEF TypeOK, GateState, Gates
    <2>. QED BY <2>1, <2>2, <2>3 DEF CommitCancelled, lifecycle
  <1>3. done' \in SUBSET Milestones /\ cancelled' \in SUBSET Operations
    BY DEF CommitCancelled, TypeOK, lifecycle
  <1>. QED BY <1>1, <1>2, <1>3 DEF CommitCancelled, TypeOK, calls, grants

LEMMA AttemptStartedType ==
  ASSUME TypeOK, NEW i \in Invocations, NEW a \in Starts, AttemptStarted(i, a)
  PROVE  TypeOK'
  <1>1. RootOf(i, a) \in Invocations
    <2>1. CASE a.parent = None
      BY <2>1 DEF RootOf
    <2>2. CASE a.parent # None
      <3>1. a.parent \in Invocations /\ attempts[a.parent].phase \in Outcomes
        BY <2>2 DEF AttemptStarted, RetryBound, Finished
      <3>2. attempts[a.parent] \in AttemptState
        BY <3>1 DEF TypeOK, NoAttempt, Outcomes
      <3>. QED BY <2>2, <3>2 DEF RootOf, AttemptState
    <2>. QED BY <2>1, <2>2
  <1>2. [phase |-> "started", start |-> a, measured |-> 0, run |-> head, root |-> RootOf(i, a)]
          \in AttemptState
    BY <1>1 DEF TypeOK, AttemptState
  <1>3. attempts' \in [Invocations -> AttemptState \cup {NoAttempt}]
    BY <1>2 DEF AttemptStarted, TypeOK
  <1>4. runs' \in [Runs -> RunState \cup {NoRun}]
    <2>1. CASE Autonomy
      <3>1. head \in Runs /\ runs[head] \in RunState
        BY <2>1, AdmittedType DEF AttemptStarted, GrantAdmits, TypeOK
      <3>2. Charged(runs[head], a) \in RunState
        BY <3>1, ChargeType
      <3>. QED BY <2>1, <3>1, <3>2 DEF AttemptStarted, TypeOK
    <2>2. CASE ~Autonomy
      BY <2>2 DEF AttemptStarted, TypeOK
    <2>. QED BY <2>1, <2>2
  <1>. QED BY <1>3, <1>4 DEF AttemptStarted, TypeOK, lifecycle, commits

(* With the profile a call in flight belongs to an admitted run: settling   *)
(* it charges a run that exists.                                            *)
AttemptsAreOwned ==
  Autonomy => \A i \in Started : attempts[i].run \in Admitted

LEMMA AttemptFinishedType ==
  ASSUME TypeOK, AttemptsAreOwned, NEW i \in Invocations, NEW o \in Outcomes,
         NEW n \in Measures, AttemptFinished(i, o, n)
  PROVE  TypeOK'
  <1>0. n \in Nat
    BY BoundAssumption DEF Measures
  <1>1. i \in Started /\ attempts[i] \in AttemptState
    BY DEF AttemptFinished, Unfinished, Started, TypeOK, NoAttempt
  <1>2. attempts[i].start.seconds \in Nat
    BY <1>1, BoundAssumption DEF AttemptState, Starts
  <1>3. attempts' \in [Invocations -> AttemptState \cup {NoAttempt}]
    <2>. DEFINE ended == [attempts[i] EXCEPT !.phase = o]
    <2>1. ended \in AttemptState
      BY <1>1 DEF AttemptState
    <2>2. attempts' = [attempts EXCEPT ![i] = [ended EXCEPT !.measured = n]]
      BY DEF AttemptFinished, TypeOK
    <2>. HIDE DEF ended
    <2>3. [ended EXCEPT !.measured = n] \in AttemptState
      BY <1>0, <2>1 DEF AttemptState
    <2>. QED BY <2>2, <2>3 DEF TypeOK
  <1>4. runs' \in [Runs -> RunState \cup {NoRun}]
    <2>1. CASE Autonomy
      <3>1. attempts[i].run \in Runs /\ runs[attempts[i].run] \in RunState
        BY <1>1, <2>1, AdmittedType DEF AttemptsAreOwned, TypeOK
      <3>2. Settled(runs[attempts[i].run], o, attempts[i].start.seconds, n) \in RunState
        BY <1>0, <1>2, <3>1, SettleType
      <3>. QED BY <2>1, <3>1, <3>2 DEF AttemptFinished, TypeOK
    <2>2. CASE ~Autonomy
      BY <2>2 DEF AttemptFinished, TypeOK
    <2>. QED BY <2>1, <2>2
  <1>. QED BY <1>3, <1>4 DEF AttemptFinished, TypeOK, lifecycle, commits

LEMMA ReviewCheckpointType ==
  ASSUME TypeOK, NEW i \in Invocations, ReviewCheckpoint(i) PROVE TypeOK'
  BY DEF ReviewCheckpoint, TypeOK, lifecycle, commits, grants

LEMMA NewRunType ==
  ASSUME NEW g \in Grants PROVE NewRun(g) \in RunState
  <1>1. g.ceiling \in Nat /\ g.allowance \in [Units -> Nat]
    BY BoundAssumption DEF Grants
  <1>. QED BY <1>1 DEF NewRun, RunState, Grants, Closures

LEMMA RunAdmittedType ==
  ASSUME TypeOK, NEW r \in Runs, NEW g \in Grants, NEW ref \in Authorities,
         RunAdmitted(r, g, ref)
  PROVE  TypeOK'
  <1>1. ASSUME NEW q \in Runs PROVE Supersede(q) \in RunState \cup {NoRun}
    <2>1. CASE q = head /\ Open(q)
      <3>1. runs[q] \in RunState
        BY <2>1, AdmittedType DEF TypeOK
      <3>. QED BY <2>1, <3>1 DEF Supersede, RunState, Closures
    <2>2. CASE ~(q = head /\ Open(q))
      BY <2>2 DEF Supersede, TypeOK
    <2>. QED BY <2>1, <2>2
  <1>2. runs' \in [Runs -> RunState \cup {NoRun}]
    BY <1>1, NewRunType DEF RunAdmitted
  <1>. QED BY <1>2 DEF RunAdmitted, Grantable, TypeOK, lifecycle, calls, commits

LEMMA RunExtendedType ==
  ASSUME TypeOK, NEW x \in Allowances, NEW ref \in Authorities, RunExtended(x, ref)
  PROVE  TypeOK'
  <1>1. head \in Runs /\ runs[head] \in RunState
    BY AdmittedType DEF RunExtended, Extendable, TypeOK
  <1>2. [u \in Units |-> runs[head].allowance[u] + x[u]] \in [Units -> Nat]
    BY <1>1, BoundAssumption DEF RunState
  <1>3. runs' = [runs EXCEPT ![head] =
                   [runs[head] EXCEPT !.allowance = [u \in Units |-> runs[head].allowance[u] + x[u]]]]
    BY DEF RunExtended
  <1>4. [runs[head] EXCEPT !.allowance = [u \in Units |-> runs[head].allowance[u] + x[u]]]
          \in RunState
    BY <1>1, <1>2 DEF RunState
  <1>. QED BY <1>1, <1>3, <1>4 DEF RunExtended, Grantable, TypeOK, lifecycle, calls, commits

LEMMA RelabelType ==
  ASSUME TypeOK, NEW m \in Milestones, NEW label \in Statuses, Relabel(m, label)
  PROVE  TypeOK'
  BY DEF Relabel, TypeOK, lifecycle, calls, commits, grants

LEMMA OwnershipStep ==
  ASSUME TypeOK, AttemptsAreOwned, Next
  PROVE  AttemptsAreOwned'
  <1>. USE DEF AttemptsAreOwned, Started
  <1>1. ASSUME NEW s \in Slices, Prompt(s) \/ Reopened(s) \/ Resolved(s)
        PROVE  AttemptsAreOwned'
    BY <1>1 DEF Prompt, Reopened, Resolved, calls, grants, Admitted
  <1>2. ASSUME NEW s \in Slices, NEW b \in BOOLEAN, Coded(s, b) \/ Verified(s, b)
        PROVE  AttemptsAreOwned'
    BY <1>2 DEF Coded, Verified, calls, grants, Admitted
  <1>3. ASSUME NEW s \in Slices, NEW v \in Verdicts, Reviewed(s, v)
        PROVE  AttemptsAreOwned'
    BY <1>3 DEF Reviewed, calls, grants, Admitted
  <1>4. ASSUME NEW scope \in Scopes, CloseAtBoundary(scope), UNCHANGED calls
        PROVE  AttemptsAreOwned'
    <2>1. CASE Ends(scope)
      <3>1. head \in Runs /\ runs[head] \in RunState
        BY <2>1, AdmittedType DEF Ends, TypeOK
      <3>2. runs'[head].closed = "boundary"
        BY <1>4, <2>1, <3>1 DEF CloseAtBoundary, TypeOK, RunState
      <3>3. \A r \in Runs \ {head} : runs'[r] = runs[r]
        BY <1>4, <2>1 DEF CloseAtBoundary, TypeOK
      <3>4. Admitted \subseteq Admitted'
        BY <3>2, <3>3 DEF Admitted
      <3>. QED BY <1>4, <3>4 DEF calls
    <2>2. CASE ~Ends(scope)
      BY <1>4, <2>2 DEF CloseAtBoundary, calls, Admitted
    <2>. QED BY <2>1, <2>2
  <1>5. ASSUME NEW s \in Slices, NEW op \in Operations \cup {None}, Accepted(s, op)
        PROVE  AttemptsAreOwned'
    BY <1>4, <1>5 DEF Accepted, Scopes
  <1>6. ASSUME NEW m \in Milestones, NEW v \in Verdicts, NEW S \in SUBSET Slices,
               HolisticReviewed(m, v, S)
        PROVE  AttemptsAreOwned'
    BY <1>6 DEF HolisticReviewed, calls, grants, Admitted
  <1>7. ASSUME NEW m \in Milestones, ResolvedGate(m) PROVE AttemptsAreOwned'
    BY <1>7 DEF ResolvedGate, calls, grants, Admitted
  <1>8. ASSUME NEW m \in Milestones, NEW op \in Operations \cup {None}, MilestoneDone(m, op)
        PROVE  AttemptsAreOwned'
    BY <1>4, <1>8 DEF MilestoneDone, Scopes
  <1>9. ASSUME NEW op \in Operations, NEW retain \in BOOLEAN, CommitCancelled(op, retain)
        PROVE  AttemptsAreOwned'
    BY <1>9 DEF CommitCancelled, calls, grants, Admitted
  <1>10. ASSUME NEW i \in Invocations, NEW a \in Starts, AttemptStarted(i, a)
         PROVE  AttemptsAreOwned'
    <2>. SUFFICES ASSUME Autonomy PROVE \A j \in Started' : attempts'[j].run \in Admitted'
      OBVIOUS
    <2>1. head \in Runs /\ head \in Admitted /\ runs[head] \in RunState
      BY <1>10, AdmittedType DEF AttemptStarted, GrantAdmits, TypeOK
    <2>2. runs' = [runs EXCEPT ![head] = Charged(runs[head], a)]
      BY <1>10 DEF AttemptStarted
    <2>3. Charged(runs[head], a).closed \in Closures
      BY <2>1, ChargeType DEF RunState
    <2>4. Admitted \subseteq Admitted'
      BY <2>1, <2>2, <2>3 DEF Admitted, TypeOK, Closures
    <2>5. \A j \in Invocations \ {i} : attempts'[j] = attempts[j]
      BY <1>10 DEF AttemptStarted, TypeOK
    <2>6. attempts'[i].run = head
      BY <1>10 DEF AttemptStarted, TypeOK
    <2>. QED BY <2>1, <2>4, <2>5, <2>6
  <1>11. ASSUME NEW i \in Invocations, NEW o \in Outcomes, NEW n \in Measures,
                AttemptFinished(i, o, n)
         PROVE  AttemptsAreOwned'
    <2>. SUFFICES ASSUME Autonomy PROVE \A j \in Started' : attempts'[j].run \in Admitted'
      OBVIOUS
    <2>0. n \in Nat
      BY BoundAssumption DEF Measures
    <2>1. i \in Started /\ attempts[i] \in AttemptState /\ attempts[i].start.seconds \in Nat
      BY <1>11, BoundAssumption
      DEF AttemptFinished, Unfinished, TypeOK, NoAttempt, AttemptState, Starts
    <2>2. attempts[i].run \in Admitted /\ attempts[i].run \in Runs
          /\ runs[attempts[i].run] \in RunState
      BY <2>1, AdmittedType DEF TypeOK
    <2>. DEFINE settled == Settled(runs[attempts[i].run], o, attempts[i].start.seconds, n)
    <2>3. settled.closed \in Closures
      BY <2>0, <2>1, <2>2, SettleType DEF RunState
    <2>4. runs' = [runs EXCEPT ![attempts[i].run] = settled]
      BY <1>11 DEF AttemptFinished
    <2>. HIDE DEF settled
    <2>5. Admitted \subseteq Admitted'
      BY <2>2, <2>3, <2>4 DEF Admitted, TypeOK, Closures
    <2>6. \A j \in Invocations \ {i} : attempts'[j] = attempts[j]
      BY <1>11 DEF AttemptFinished, TypeOK
    <2>7. attempts'[i].run = attempts[i].run
      BY <1>11, <2>1 DEF AttemptFinished, TypeOK, AttemptState
    <2>. QED BY <2>1, <2>2, <2>5, <2>6, <2>7
  <1>12. ASSUME NEW i \in Invocations, ReviewCheckpoint(i) PROVE AttemptsAreOwned'
    BY <1>12 DEF ReviewCheckpoint, grants, Admitted
  <1>13. ASSUME NEW r \in Runs, NEW g \in Grants, NEW ref \in Authorities, RunAdmitted(r, g, ref)
         PROVE  AttemptsAreOwned'
    <2>1. NewRun(g).closed # "absent"
      BY DEF NewRun
    <2>2. \A q \in Admitted : Supersede(q).closed # "absent"
      BY AdmittedType DEF Supersede, TypeOK, Admitted, RunState
    <2>3. Admitted \subseteq Admitted'
      BY <1>13, <2>1, <2>2 DEF RunAdmitted, Admitted
    <2>. QED BY <1>13, <2>3 DEF RunAdmitted, calls
  <1>14. ASSUME NEW x \in Allowances, NEW ref \in Authorities, RunExtended(x, ref)
         PROVE  AttemptsAreOwned'
    <2>1. head \in Runs /\ runs[head] \in RunState
      BY <1>14, AdmittedType DEF RunExtended, Extendable, TypeOK
    <2>2. Admitted \subseteq Admitted'
      BY <1>14, <2>1 DEF RunExtended, Admitted, TypeOK, RunState
    <2>. QED BY <1>14, <2>2 DEF RunExtended, calls
  <1>15. ASSUME NEW m \in Milestones, NEW label \in Statuses, Relabel(m, label)
         PROVE  AttemptsAreOwned'
    BY <1>15 DEF Relabel, calls, grants, Admitted
  <1>. QED BY <1>1, <1>2, <1>3, <1>5, <1>6, <1>7, <1>8, <1>9, <1>10, <1>11, <1>12, <1>13,
              <1>14, <1>15 DEF Next

LEMMA TypeStep ==
  ASSUME TypeOK, AttemptsAreOwned, Next
  PROVE  TypeOK'
  BY PromptType, CodedType, VerifiedType, ReviewedType, AcceptedType, ReopenedType,
     ResolvedType, HolisticReviewedType, ResolvedGateType, MilestoneDoneType,
     CommitCancelledType, AttemptStartedType, AttemptFinishedType, ReviewCheckpointType,
     RunAdmittedType, RunExtendedType, RelabelType
  DEF Next

(* The folded state keeps its shape whatever is appended: in particular a   *)
(* call is always settled against a run that was admitted (apply).          *)
THEOREM TypeCorrect == Spec => [](TypeOK /\ AttemptsAreOwned)
  <1>1. Init => TypeOK /\ AttemptsAreOwned
    BY InitType DEF Init, AttemptsAreOwned, Started, NoAttempt
  <1>2. TypeOK /\ AttemptsAreOwned /\ [Next]_vars => (TypeOK /\ AttemptsAreOwned)'
    <2>1. CASE Next
      BY <2>1, TypeStep, OwnershipStep
    <2>2. CASE UNCHANGED vars
      BY <2>2 DEF vars, lifecycle, calls, commits, grants, TypeOK, AttemptsAreOwned,
                  Started, Admitted
    <2>. QED BY <2>1, <2>2
  <1>. QED BY <1>1, <1>2, PTL DEF Spec

-----------------------------------------------------------------------------
(* Closure of milestones *)

GateInv == ClosureSound /\ GateCoversAcceptedRounds

(* Work on a slice that is not accepted: the gate of its milestone is not   *)
(* passed, and every other gate looks at other slices.                      *)
LEMMA WorkKeepsGates ==
  ASSUME TypeOK, GateInv, NEW s \in Slices, NEW sl \in SliceState,
         slices[s].step # "accepted", slices' = [slices EXCEPT ![s] = sl],
         UNCHANGED <<done, holistic>>
  PROVE  GateInv'
  <1>1. holistic[MilestoneOf[s]].step \notin {"close_pending", "done"}
    BY RoadmapAssumption DEF GateInv, ClosureSound, AllAccepted, SlicesOf
  <1>2. \A t \in Slices \ {s} : slices'[t] = slices[t]
    BY DEF TypeOK
  <1>3. ClosureSound'
    BY <1>1, <1>2 DEF GateInv, ClosureSound, AllAccepted, SlicesOf
  <1>4. GateCoversAcceptedRounds'
    BY <1>1, <1>2 DEF GateInv, GateCoversAcceptedRounds, SlicesOf
  <1>. QED BY <1>3, <1>4 DEF GateInv

(* Reopening a slice takes the gate of its milestone back with it.          *)
LEMMA ReopeningReopensGate ==
  ASSUME TypeOK, GateInv, NEW s \in Slices, NEW sl \in SliceState,
         slices' = [slices EXCEPT ![s] = sl],
         done' = done \ {MilestoneOf[s]},
         holistic' = ReviewAgain(MilestoneOf[s])
  PROVE  GateInv'
  <1>0. MilestoneOf[s] \in Milestones
    BY RoadmapAssumption
  <1>1. \A t \in Slices \ {s} : slices'[t] = slices[t]
    BY DEF TypeOK
  <1>2. holistic'[MilestoneOf[s]].step \notin {"close_pending", "done"}
    BY <1>0 DEF ReviewAgain, TypeOK, GateState
  <1>3. \A m \in Milestones \ {MilestoneOf[s]} : holistic'[m] = holistic[m]
    BY DEF ReviewAgain, TypeOK
  <1>4. ClosureSound'
    BY <1>0, <1>1, <1>2, <1>3 DEF GateInv, ClosureSound, AllAccepted, SlicesOf
  <1>5. GateCoversAcceptedRounds'
    BY <1>0, <1>1, <1>2, <1>3 DEF GateInv, GateCoversAcceptedRounds, SlicesOf
  <1>. QED BY <1>4, <1>5 DEF GateInv

(* The gate of a milestone moves to a step that is not passed.              *)
LEMMA GateIsWithdrawn ==
  ASSUME TypeOK, GateInv, NEW m \in Milestones,
         done' = done \ {m}, holistic' = [holistic EXCEPT ![m].step = "reviewing"],
         UNCHANGED slices
  PROVE  GateInv'
  <1>1. holistic'[m].step = "reviewing"
    BY DEF TypeOK, GateState
  <1>2. \A q \in Milestones \ {m} : holistic'[q] = holistic[q]
    BY DEF TypeOK
  <1>. QED BY <1>1, <1>2 DEF GateInv, ClosureSound, GateCoversAcceptedRounds, AllAccepted,
                             SlicesOf

LEMMA GateInvStep ==
  ASSUME TypeOK, GateInv, Next
  PROVE  GateInv'
  <1>1. ASSUME NEW s \in Slices, Prompt(s) PROVE GateInv'
    BY <1>1, WorkKeepsGates, StepFacts DEF Prompt, TypeOK, Verdicts
  <1>2. ASSUME NEW s \in Slices, Resolved(s) PROVE GateInv'
    BY <1>2, WorkKeepsGates, SentBackFacts DEF Resolved, TypeOK
  <1>3. ASSUME NEW s \in Slices, Reopened(s) PROVE GateInv'
    BY <1>3, ReopeningReopensGate, ReopenFacts DEF Reopened, TypeOK
  <1>4. ASSUME NEW s \in Slices, NEW b \in BOOLEAN, Coded(s, b) \/ Verified(s, b)
        PROVE  GateInv'
    BY <1>4, WorkKeepsGates, StepFacts DEF Coded, Verified, TypeOK, Verdicts
  <1>5. ASSUME NEW s \in Slices, NEW v \in Verdicts, Reviewed(s, v) PROVE GateInv'
    BY <1>5, WorkKeepsGates, StepFacts DEF Reviewed, TypeOK
  <1>6. ASSUME NEW s \in Slices, NEW op \in Operations \cup {None}, Accepted(s, op)
        PROVE  GateInv'
    BY <1>6, WorkKeepsGates, StepFacts DEF Accepted, TypeOK, Verdicts
  <1>7. ASSUME NEW m \in Milestones, NEW v \in Verdicts, NEW S \in SUBSET Slices,
               HolisticReviewed(m, v, S)
        PROVE  GateInv'
    <2>1. /\ m \in HolisticReview \ done /\ AllAccepted(m) /\ S \subseteq SlicesOf(m)
          /\ UNCHANGED done
      BY <1>7 DEF HolisticReviewed
    <2>2. /\ holistic'[m].step = GateVerdict(v)
          /\ holistic'[m].covers = [s \in Slices |-> slices[s].round]
          /\ \A q \in Milestones \ {m} : holistic'[q] = holistic[q]
      BY <1>7 DEF HolisticReviewed, TypeOK
    <2>3. \A q \in Milestones \ {m} : \A s \in SlicesOf(q) : slices'[s] = slices[s]
      BY <1>7, <2>1 DEF HolisticReviewed, SlicesOf
    <2>4. GateVerdict(v) # "done"
          /\ (GateVerdict(v) = "close_pending" => UNCHANGED slices)
      BY <1>7 DEF GateVerdict, HolisticReviewed, TypeOK
    <2>5. ClosureSound'
      BY <2>1, <2>2, <2>3, <2>4 DEF GateInv, ClosureSound, AllAccepted, SlicesOf
    <2>6. GateCoversAcceptedRounds'
      BY <2>1, <2>2, <2>3, <2>4 DEF GateInv, GateCoversAcceptedRounds, SlicesOf
    <2>. QED BY <2>5, <2>6 DEF GateInv
  <1>8. ASSUME NEW m \in Milestones, ResolvedGate(m) PROVE GateInv'
    <2>1. m \notin done
      BY <1>8 DEF ResolvedGate, GateInv, ClosureSound
    <2>. QED BY <1>8, <2>1, GateIsWithdrawn DEF ResolvedGate
  <1>9. ASSUME NEW m \in Milestones, NEW op \in Operations \cup {None}, MilestoneDone(m, op)
        PROVE  GateInv'
    <2>1. /\ m \in HolisticReview /\ AllAccepted(m) /\ done' = done \cup {m}
          /\ holistic[m].step = "close_pending" /\ UNCHANGED slices
      BY <1>9 DEF MilestoneDone
    <2>2. /\ holistic'[m].step = "done" /\ holistic'[m].covers = holistic[m].covers
          /\ \A q \in Milestones \ {m} : holistic'[q] = holistic[q]
      BY <1>9 DEF MilestoneDone, TypeOK, GateState
    <2>3. ClosureSound'
      BY <2>1, <2>2 DEF GateInv, ClosureSound, AllAccepted, SlicesOf
    <2>4. GateCoversAcceptedRounds'
      BY <2>1, <2>2 DEF GateInv, GateCoversAcceptedRounds, SlicesOf
    <2>. QED BY <2>3, <2>4 DEF GateInv
  <1>10. ASSUME NEW op \in Operations, NEW retain \in BOOLEAN, CommitCancelled(op, retain)
         PROVE  GateInv'
    <2>1. CASE UNCHANGED lifecycle
      BY <2>1 DEF lifecycle, GateInv, ClosureSound, GateCoversAcceptedRounds, AllAccepted
    <2>2. CASE ~retain /\ intents[op] \in Slices
      <3>1. /\ slices' = [slices EXCEPT ![intents[op]] = Reopen(slices[intents[op]])]
            /\ done' = done \ {MilestoneOf[intents[op]]}
            /\ holistic' = ReviewAgain(MilestoneOf[intents[op]])
        BY <1>10, <2>2, RoadmapAssumption DEF CommitCancelled
      <3>. QED BY <2>2, <3>1, ReopeningReopensGate, ReopenFacts DEF TypeOK
    <2>3. CASE ~retain /\ intents[op] \in Milestones
      <3>1. /\ done' = done \ {intents[op]} /\ UNCHANGED slices
            /\ holistic' = [holistic EXCEPT ![intents[op]].step = "reviewing"]
        BY <1>10, <2>3, RoadmapAssumption DEF CommitCancelled
      <3>. QED BY <2>3, <3>1, GateIsWithdrawn
    <2>. QED BY <1>10, <2>1, <2>2, <2>3 DEF CommitCancelled
  <1>11. ASSUME UNCHANGED lifecycle PROVE GateInv'
    BY <1>11 DEF lifecycle, GateInv, ClosureSound, GateCoversAcceptedRounds, AllAccepted
  <1>12. ASSUME \/ \E i \in Invocations, a \in Starts : AttemptStarted(i, a)
                \/ \E i \in Invocations, o \in Outcomes, n \in Measures :
                     AttemptFinished(i, o, n)
                \/ \E i \in Invocations : ReviewCheckpoint(i)
                \/ \E r \in Runs, g \in Grants, ref \in Authorities : RunAdmitted(r, g, ref)
                \/ \E x \in Allowances, ref \in Authorities : RunExtended(x, ref)
                \/ \E m \in Milestones, label \in Statuses : Relabel(m, label)
         PROVE  UNCHANGED lifecycle
    BY <1>12 DEF AttemptStarted, AttemptFinished, ReviewCheckpoint, RunAdmitted, RunExtended,
                 Relabel
  <1>. QED BY <1>1, <1>2, <1>3, <1>4, <1>5, <1>6, <1>7, <1>8, <1>9, <1>10, <1>11, <1>12
           DEF Next

(* A milestone is closed, or its gate passed, only while all its slices are *)
(* accepted in the very rounds the holistic review saw, in every history    *)
(* the fold admits (fold, apply_v2).                                        *)
THEOREM ClosureIsSound == Spec => [](ClosureSound /\ GateCoversAcceptedRounds)
  <1>1. Init => GateInv
    BY DEF Init, GateInv, ClosureSound, GateCoversAcceptedRounds, NoGate
  <1>2. TypeOK /\ GateInv /\ [Next]_vars => GateInv'
    <2>1. CASE UNCHANGED vars
      BY <2>1 DEF vars, lifecycle, GateInv, ClosureSound, GateCoversAcceptedRounds, AllAccepted
    <2>. QED BY <2>1, GateInvStep
  <1>3. GateInv => ClosureSound /\ GateCoversAcceptedRounds
    BY DEF GateInv
  <1>. QED BY <1>1, <1>2, <1>3, TypeCorrect, PTL DEF Spec

-----------------------------------------------------------------------------
(* Allowances *)

Within(run) ==
  \A u \in Units : \/ run.consumed[u] <= run.allowance[u]
                   \/ u = "seconds" /\ run.closed = "overrun"

LEMMA AllowanceIsWithin == AllowanceRespected <=> \A r \in Admitted : Within(runs[r])
  BY DEF AllowanceRespected, Within

(* Closing an open run otherwise than by an overrun spends nothing.         *)
LEMMA ClosingIsWithin ==
  ASSUME NEW run \in RunState, run.closed = "open", Within(run),
         NEW c \in {"superseded", "boundary"}
  PROVE  Within([run EXCEPT !.closed = c])
  BY DEF Within, RunState

LEMMA ChargeIsWithin ==
  ASSUME NEW run \in RunState, NEW a \in Starts, Affordable(a, run)
  PROVE  Within(Charged(run, a))
  <1>1. Charges(a) \in [Units -> Nat]
    BY ChargeType
  <1>2. run.consumed \in [Units -> Int] /\ run.allowance \in [Units -> Nat]
    BY DEF RunState
  <1>3. ASSUME NEW u \in Units PROVE run.consumed[u] + Charges(a)[u] <= run.allowance[u]
    <2>1. Charges(a)[u] <= run.allowance[u] - run.consumed[u]
      BY DEF Affordable, Remaining
    <2>. QED BY <1>1, <1>2, <2>1
  <1>4. /\ Charged(run, a).consumed = [u \in Units |-> run.consumed[u] + Charges(a)[u]]
        /\ Charged(run, a).allowance = run.allowance
    BY DEF Charged, RunState
  <1>. QED BY <1>3, <1>4 DEF Within

(* Settling a call gives seconds back, or closes the run as an overrun.     *)
LEMMA SettleIsWithin ==
  ASSUME NEW run \in RunState, Within(run), NEW o \in Outcomes, NEW n \in Nat, NEW k \in Nat
  PROVE  Within(Settled(run, o, n, k))
  <1>. DEFINE final == FinalSeconds(o, n, k)
              spent == [run.consumed EXCEPT !["seconds"] = @ + final - n]
              state == IF k > n THEN "overrun" ELSE run.closed
              paid  == [run EXCEPT !.consumed = spent]
  <1>1. final \in Nat /\ (k > n \/ final <= n)
    BY DEF FinalSeconds
  <1>2. run.consumed \in [Units -> Int] /\ run.allowance \in [Units -> Nat]
    BY DEF RunState
  <1>3. \A u \in Units \ {"seconds"} : spent[u] = run.consumed[u]
    BY <1>2
  <1>4. spent["seconds"] = run.consumed["seconds"] + final - n
    BY <1>2 DEF Units
  <1>5. Settled(run, o, n, k) = [paid EXCEPT !.closed = state]
    BY DEF Settled, RunState
  <1>6. spent \in [Units -> Int]
    BY <1>1, <1>2 DEF Units
  <1>. HIDE DEF final, spent, state
  <1>7. paid \in RunState /\ paid.consumed = spent /\ paid.allowance = run.allowance
    BY <1>6 DEF RunState
  <1>. HIDE DEF paid
  <1>8. /\ Settled(run, o, n, k).consumed = spent
        /\ Settled(run, o, n, k).allowance = run.allowance
        /\ Settled(run, o, n, k).closed = state
    BY <1>5, <1>7 DEF RunState
  <1>9. spent["seconds"] <= run.allowance["seconds"] \/ state = "overrun"
    BY <1>1, <1>2, <1>4 DEF Within, Units, state
  <1>10. \A u \in Units \ {"seconds"} : spent[u] <= run.allowance[u]
    BY <1>3 DEF Within
  <1>. QED BY <1>8, <1>9, <1>10 DEF Within

LEMMA AllowanceStep ==
  ASSUME TypeOK, AttemptsAreOwned, AllowanceRespected, Next
  PROVE  AllowanceRespected'
  <1>0. \A r \in Admitted : Within(runs[r])
    BY AllowanceIsWithin
  <1>. SUFFICES \A r \in Admitted' : Within(runs'[r])
    BY DEF AllowanceRespected, Within
  <1>1. CASE UNCHANGED runs
    BY <1>0, <1>1 DEF Admitted
  <1>2. ASSUME NEW scope \in Scopes, CloseAtBoundary(scope)
        PROVE  \A r \in Admitted' : Within(runs'[r])
    <2>1. CASE Ends(scope)
      <3>1. head \in Admitted /\ runs[head] \in RunState /\ runs[head].closed = "open"
        BY <2>1, AdmittedType DEF Ends, TypeOK
      <3>2. runs' = [runs EXCEPT ![head] = [runs[head] EXCEPT !.closed = "boundary"]]
        BY <1>2, <2>1 DEF CloseAtBoundary
      <3>3. Within([runs[head] EXCEPT !.closed = "boundary"])
        BY <1>0, <3>1, ClosingIsWithin
      <3>. QED BY <1>0, <3>2, <3>3 DEF Admitted, TypeOK
    <2>2. CASE ~Ends(scope)
      BY <1>1, <1>2, <2>2 DEF CloseAtBoundary
    <2>. QED BY <2>1, <2>2
  <1>3. ASSUME NEW i \in Invocations, NEW a \in Starts, AttemptStarted(i, a), Autonomy
        PROVE  \A r \in Admitted' : Within(runs'[r])
    <2>1. head \in Runs /\ runs[head] \in RunState /\ Affordable(a, runs[head])
      BY <1>3, AdmittedType DEF AttemptStarted, GrantAdmits, TypeOK
    <2>2. Within(Charged(runs[head], a))
      BY <2>1, ChargeIsWithin
    <2>3. runs' = [runs EXCEPT ![head] = Charged(runs[head], a)]
      BY <1>3 DEF AttemptStarted
    <2>. QED BY <1>0, <2>2, <2>3 DEF Admitted, TypeOK
  <1>4. ASSUME NEW i \in Invocations, NEW o \in Outcomes, NEW n \in Measures,
               AttemptFinished(i, o, n), Autonomy
        PROVE  \A r \in Admitted' : Within(runs'[r])
    <2>1. i \in Started /\ attempts[i].start.seconds \in Nat /\ n \in Nat
      BY <1>4, BoundAssumption
      DEF AttemptFinished, Unfinished, Started, TypeOK, NoAttempt, AttemptState, Starts
    <2>2. attempts[i].run \in Admitted /\ runs[attempts[i].run] \in RunState
      BY <1>4, <2>1, AdmittedType DEF AttemptsAreOwned, TypeOK
    <2>3. Within(Settled(runs[attempts[i].run], o, attempts[i].start.seconds, n))
      BY <1>0, <2>1, <2>2, SettleIsWithin
    <2>4. runs' = [runs EXCEPT ![attempts[i].run] =
                     Settled(runs[attempts[i].run], o, attempts[i].start.seconds, n)]
      BY <1>4 DEF AttemptFinished
    <2>. QED BY <1>0, <2>3, <2>4 DEF Admitted, TypeOK
  <1>5. ASSUME NEW r \in Runs, NEW g \in Grants, NEW ref \in Authorities, RunAdmitted(r, g, ref)
        PROVE  \A q \in Admitted' : Within(runs'[q])
    <2>1. Within(NewRun(g))
      BY BoundAssumption DEF Within, NewRun, Grants
    <2>2. ASSUME NEW q \in Admitted PROVE Within(Supersede(q))
      BY <1>0, AdmittedType, ClosingIsWithin DEF Supersede, TypeOK
    <2>3. ASSUME NEW q \in Runs \ Admitted PROVE Supersede(q) = runs[q]
      BY AdmittedType DEF Supersede, TypeOK
    <2>. QED BY <1>5, <2>1, <2>2, <2>3 DEF RunAdmitted, Admitted
  <1>6. ASSUME NEW x \in Allowances, NEW ref \in Authorities, RunExtended(x, ref)
        PROVE  \A q \in Admitted' : Within(runs'[q])
    <2>1. head \in Admitted /\ runs[head] \in RunState
      BY <1>6, AdmittedType DEF RunExtended, Extendable, TypeOK
    <2>. DEFINE more == [u \in Units |-> runs[head].allowance[u] + x[u]]
    <2>2. x \in [Units -> Nat] /\ runs[head].consumed \in [Units -> Int]
          /\ runs[head].allowance \in [Units -> Nat]
      BY <2>1, BoundAssumption DEF RunState
    <2>3. runs' = [runs EXCEPT ![head] = [runs[head] EXCEPT !.allowance = more]]
      BY <1>6 DEF RunExtended
    <2>4. \A u \in Units : more[u] \in Nat /\ more[u] >= runs[head].allowance[u]
      BY <2>2
    <2>. HIDE DEF more
    <2>5. Within([runs[head] EXCEPT !.allowance = more])
      BY <1>0, <2>1, <2>2, <2>4 DEF Within, RunState
    <2>. QED BY <1>0, <2>3, <2>5 DEF Admitted, TypeOK
  <1>7. ASSUME \/ \E s \in Slices : Prompt(s) \/ Reopened(s) \/ Resolved(s)
               \/ \E s \in Slices, b \in BOOLEAN : Coded(s, b) \/ Verified(s, b)
               \/ \E s \in Slices, v \in Verdicts : Reviewed(s, v)
               \/ \E m \in Milestones, v \in Verdicts, S \in SUBSET Slices :
                    HolisticReviewed(m, v, S)
               \/ \E m \in Milestones : ResolvedGate(m)
               \/ \E op \in Operations, retain \in BOOLEAN : CommitCancelled(op, retain)
               \/ \E i \in Invocations : ReviewCheckpoint(i)
               \/ \E m \in Milestones, label \in Statuses : Relabel(m, label)
               \/ /\ ~Autonomy
                  /\ \/ \E i \in Invocations, a \in Starts : AttemptStarted(i, a)
                     \/ \E i \in Invocations, o \in Outcomes, n \in Measures :
                          AttemptFinished(i, o, n)
        PROVE  UNCHANGED runs
    BY <1>7 DEF Prompt, Reopened, Resolved, Coded, Verified, Reviewed, HolisticReviewed,
                ResolvedGate, CommitCancelled, ReviewCheckpoint, Relabel, AttemptStarted,
                AttemptFinished, grants
  <1>8. ASSUME NEW s \in Slices, NEW op \in Operations \cup {None}, Accepted(s, op)
        PROVE  \A r \in Admitted' : Within(runs'[r])
    BY <1>2, <1>8 DEF Accepted, Scopes
  <1>9. ASSUME NEW m \in Milestones, NEW op \in Operations \cup {None}, MilestoneDone(m, op)
        PROVE  \A r \in Admitted' : Within(runs'[r])
    BY <1>2, <1>9 DEF MilestoneDone, Scopes
  <1>. QED BY <1>1, <1>3, <1>4, <1>5, <1>6, <1>7, <1>8, <1>9 DEF Next

(* However calls fail, are retried, overrun or are settled late, a run never *)
(* spends more jobs or retries than it was granted, and more seconds only    *)
(* by the overrun that closes it (_start, apply).                            *)
THEOREM AllowanceIsRespected == Spec => []AllowanceRespected
  <1>1. Init => AllowanceRespected
    BY DEF Init, AllowanceRespected, Admitted, NoRun
  <1>2. TypeOK /\ AttemptsAreOwned /\ AllowanceRespected /\ [Next]_vars => AllowanceRespected'
    <2>1. CASE UNCHANGED vars
      BY <2>1 DEF vars, grants, AllowanceRespected, Admitted
    <2>. QED BY <2>1, AllowanceStep
  <1>. QED BY <1>1, <1>2, TypeCorrect, PTL DEF Spec


-----------------------------------------------------------------------------
(* What happens once: the evidence of a round, the closure of a run, a call *)
(* and its retries.                                                         *)

(* The steps of a round pass the prompt, the receipt and the report of that *)
(* round in turn; where a slice waits for a prompt its round is a new one.  *)
Evident(sl) ==
  /\ sl.last_prompt <= sl.round
  /\ sl.step \in {"unstarted", "fix"} => sl.last_prompt < sl.round
  /\ sl.step \in {"coding", "verifying", "reviewing", "accept_pending", "accepted"} =>
       sl.last_prompt = sl.round
  /\ sl.step \in {"reviewing", "accept_pending", "accepted"} => sl.last_receipt = sl.round
  /\ sl.step \in {"accept_pending", "accepted"} => sl.last_report = sl.round

EvidenceInv == \A s \in Slices : Evident(slices[s])

(* Without the profile nothing is granted.                                  *)
GrantInv == ~Autonomy => head = None /\ Admitted = {}

RunInv == GrantInv /\ OpenRunIsHeadWithWorkAhead

(* A chain of retries has its first call among the attempts.                *)
RootsStarted == \A i \in Started : attempts[i].root \in Started

CallInv == GrantInv /\ RootsStarted /\ ChainIsBounded /\ ContextSentOnce

-----------------------------------------------------------------------------
(* Evidence of a round *)

LEMMA SentBackIsEvident ==
  ASSUME NEW sl \in SliceState, sl.last_prompt <= sl.round
  PROVE  /\ Evident(SentBack(sl)) /\ Evident(Reopen(sl)) /\ Evident(ReopenForFindings(sl))
         /\ "coding" \notin {SentBack(sl).step, Reopen(sl).step, ReopenForFindings(sl).step}
  <1>0. sl.round \in Nat /\ sl.last_prompt \in Nat
    BY DEF SliceState
  <1>. DEFINE back == SentBack(sl)
  <1>1. /\ back \in SliceState /\ back.step = "fix" /\ back.round = sl.round + 1
        /\ back.last_prompt = sl.last_prompt
    BY SentBackFacts DEF SentBack, SliceState
  <1>. HIDE DEF back
  <1>. DEFINE again == [back EXCEPT !.reopened = TRUE]
  <1>2. /\ again \in SliceState /\ again.step = "fix" /\ again.round = sl.round + 1
        /\ again.last_prompt = sl.last_prompt
    BY <1>1 DEF SliceState
  <1>. HIDE DEF again
  <1>. DEFINE found == [again EXCEPT !.last_report = Holistic]
  <1>3. /\ found.step = "fix" /\ found.round = sl.round + 1
        /\ found.last_prompt = sl.last_prompt
    BY <1>2 DEF SliceState
  <1>. HIDE DEF found
  <1>4. SentBack(sl) = back /\ Reopen(sl) = again /\ ReopenForFindings(sl) = found
    BY DEF Reopen, ReopenForFindings, back, again, found
  <1>. QED BY <1>0, <1>1, <1>2, <1>3, <1>4 DEF Evident

LEMMA PromptedIsEvident ==
  ASSUME NEW sl \in SliceState, Evident(sl), sl.step \in {"unstarted", "fix"}
  PROVE  Evident(Prompted(sl)) /\ Prompted(sl).last_prompt > sl.last_prompt
  <1>0. sl.round \in Nat /\ sl.last_prompt \in Nat
    BY DEF SliceState
  <1>1. /\ Prompted(sl).step = "coding" /\ Prompted(sl).round = sl.round
        /\ Prompted(sl).last_prompt = sl.round
    BY DEF Prompted, SliceState
  <1>. QED BY <1>0, <1>1 DEF Evident

LEMMA StepIsEvident ==
  ASSUME NEW sl \in SliceState, Evident(sl), NEW b \in BOOLEAN, NEW v \in Verdicts
  PROVE  /\ sl.step = "coding" => Evident(CodedAs(sl, b)) /\ CodedAs(sl, b).step # "coding"
         /\ sl.step = "verifying" =>
              Evident(VerifiedAs(sl, b)) /\ VerifiedAs(sl, b).step # "coding"
         /\ sl.step = "reviewing" =>
              Evident(ReviewedAs(sl, v)) /\ ReviewedAs(sl, v).step # "coding"
         /\ sl.step = "accept_pending" =>
              Evident(AcceptedAs(sl)) /\ AcceptedAs(sl).step # "coding"
  <1>0. sl.round \in Nat /\ sl.last_prompt \in Nat
    BY DEF SliceState
  <1>1. ASSUME sl.step = "coding"
        PROVE  Evident(CodedAs(sl, b)) /\ CodedAs(sl, b).step # "coding"
    BY <1>0, <1>1 DEF CodedAs, Evident, SliceState
  <1>2. ASSUME sl.step = "verifying"
        PROVE  Evident(VerifiedAs(sl, b)) /\ VerifiedAs(sl, b).step # "coding"
    <2>. DEFINE seen == [sl EXCEPT !.last_receipt = sl.round]
    <2>1. /\ seen \in SliceState /\ seen.round = sl.round /\ seen.last_receipt = sl.round
          /\ seen.last_prompt = sl.last_prompt
      BY <1>0 DEF SliceState
    <2>2. VerifiedAs(sl, b) = IF b THEN [seen EXCEPT !.step = "reviewing"] ELSE SentBack(seen)
      BY DEF VerifiedAs
    <2>3. sl.last_prompt = sl.round
      BY <1>2 DEF Evident
    <2>. HIDE DEF seen
    <2>4. Evident([seen EXCEPT !.step = "reviewing"])
          /\ [seen EXCEPT !.step = "reviewing"].step # "coding"
      BY <1>0, <2>1, <2>3 DEF Evident, SliceState
    <2>5. Evident(SentBack(seen)) /\ SentBack(seen).step # "coding"
      BY <1>0, <2>1, <2>3, SentBackIsEvident
    <2>. QED BY <2>2, <2>4, <2>5
  <1>3. ASSUME sl.step = "reviewing"
        PROVE  Evident(ReviewedAs(sl, v)) /\ ReviewedAs(sl, v).step # "coding"
    <2>. DEFINE seen == [sl EXCEPT !.last_report = sl.round]
    <2>1. /\ seen \in SliceState /\ seen.round = sl.round /\ seen.last_report = sl.round
          /\ seen.last_prompt = sl.last_prompt /\ seen.last_receipt = sl.last_receipt
      BY <1>0 DEF SliceState
    <2>2. \/ ReviewedAs(sl, v) = SentBack(seen)
          \/ ReviewedAs(sl, v) = [seen EXCEPT !.step = "blocked"]
          \/ ReviewedAs(sl, v) = [seen EXCEPT !.step = "accept_pending"]
      BY DEF ReviewedAs, Verdicts
    <2>3. sl.last_prompt = sl.round /\ sl.last_receipt = sl.round
      BY <1>3 DEF Evident
    <2>. HIDE DEF seen
    <2>4. ASSUME NEW next \in {"blocked", "accept_pending"}
          PROVE  Evident([seen EXCEPT !.step = next]) /\ [seen EXCEPT !.step = next].step # "coding"
      BY <1>0, <2>1, <2>3 DEF Evident, SliceState
    <2>5. Evident(SentBack(seen)) /\ SentBack(seen).step # "coding"
      BY <1>0, <2>1, <2>3, SentBackIsEvident
    <2>. QED BY <2>2, <2>4, <2>5
  <1>4. ASSUME sl.step = "accept_pending"
        PROVE  Evident(AcceptedAs(sl)) /\ AcceptedAs(sl).step # "coding"
    BY <1>0, <1>4 DEF AcceptedAs, Evident, SliceState
  <1>. QED BY <1>1, <1>2, <1>3, <1>4

(* What the evidence of a slice allows it to become in one step.            *)
Follows(old, new) ==
  Evident(new) /\ (old.step # "coding" /\ new.step = "coding" => new.last_prompt > old.last_prompt)

LEMMA EvidenceStep ==
  ASSUME TypeOK, EvidenceInv, Next
  PROVE  \A s \in Slices : Follows(slices[s], slices'[s])
  <1>0. \A s \in Slices : slices[s] \in SliceState /\ Evident(slices[s])
    BY DEF TypeOK, EvidenceInv
  <1>1. \A s \in Slices : Follows(slices[s], slices[s])
    BY <1>0 DEF Follows
  <1>2. ASSUME NEW s \in Slices, NEW sl, slices' = [slices EXCEPT ![s] = sl],
               Follows(slices[s], sl)
        PROVE  \A t \in Slices : Follows(slices[t], slices'[t])
    BY <1>1, <1>2 DEF TypeOK
  <1>3. ASSUME NEW s \in Slices
        PROVE  /\ Follows(slices[s], SentBack(slices[s])) /\ Follows(slices[s], Reopen(slices[s]))
               /\ Follows(slices[s], ReopenForFindings(slices[s]))
    BY <1>0, SentBackIsEvident DEF Follows, Evident
  <1>4. ASSUME NEW s \in Slices, Prompt(s) PROVE \A t \in Slices : Follows(slices[t], slices'[t])
    BY <1>0, <1>2, <1>4, PromptedIsEvident DEF Prompt, Follows
  <1>5. ASSUME NEW s \in Slices, Reopened(s) \/ Resolved(s)
        PROVE  \A t \in Slices : Follows(slices[t], slices'[t])
    BY <1>2, <1>3, <1>5 DEF Reopened, Resolved
  <1>6. ASSUME NEW s \in Slices, NEW b \in BOOLEAN, Coded(s, b) \/ Verified(s, b)
        PROVE  \A t \in Slices : Follows(slices[t], slices'[t])
    <2>1. CASE Coded(s, b)
      BY <1>0, <1>2, <2>1, StepIsEvident DEF Coded, Follows, Verdicts
    <2>2. CASE Verified(s, b)
      BY <1>0, <1>2, <2>2, StepIsEvident DEF Verified, Follows, Verdicts
    <2>. QED BY <1>6, <2>1, <2>2
  <1>7. ASSUME NEW s \in Slices, NEW v \in Verdicts, Reviewed(s, v)
        PROVE  \A t \in Slices : Follows(slices[t], slices'[t])
    BY <1>0, <1>2, <1>7, StepIsEvident DEF Reviewed, Follows
  <1>8. ASSUME NEW s \in Slices, NEW op \in Operations \cup {None}, Accepted(s, op)
        PROVE  \A t \in Slices : Follows(slices[t], slices'[t])
    BY <1>0, <1>2, <1>8, StepIsEvident DEF Accepted, Follows, Verdicts
  <1>9. ASSUME NEW m \in Milestones, NEW v \in Verdicts, NEW S \in SUBSET Slices,
               HolisticReviewed(m, v, S)
        PROVE  \A t \in Slices : Follows(slices[t], slices'[t])
    BY <1>1, <1>3, <1>9 DEF HolisticReviewed
  <1>10. ASSUME NEW op \in Operations, NEW retain \in BOOLEAN, CommitCancelled(op, retain)
         PROVE  \A t \in Slices : Follows(slices[t], slices'[t])
    <2>1. CASE UNCHANGED slices
      BY <1>1, <2>1
    <2>2. CASE intents[op] \in Slices
               /\ slices' = [slices EXCEPT ![intents[op]] = Reopen(slices[intents[op]])]
      BY <1>2, <1>3, <2>2
    <2>. QED BY <1>10, <2>1, <2>2 DEF CommitCancelled, lifecycle
  <1>11. ASSUME \/ \E m \in Milestones : ResolvedGate(m)
                \/ \E m \in Milestones, op \in Operations \cup {None} : MilestoneDone(m, op)
                \/ \E i \in Invocations, a \in Starts : AttemptStarted(i, a)
                \/ \E i \in Invocations, o \in Outcomes, n \in Measures :
                     AttemptFinished(i, o, n)
                \/ \E i \in Invocations : ReviewCheckpoint(i)
                \/ \E r \in Runs, g \in Grants, ref \in Authorities : RunAdmitted(r, g, ref)
                \/ \E x \in Allowances, ref \in Authorities : RunExtended(x, ref)
                \/ \E m \in Milestones, label \in Statuses : Relabel(m, label)
         PROVE  UNCHANGED slices
    BY <1>11 DEF ResolvedGate, MilestoneDone, AttemptStarted, AttemptFinished, ReviewCheckpoint,
                 RunAdmitted, RunExtended, Relabel, lifecycle
  <1>. QED BY <1>1, <1>4, <1>5, <1>6, <1>7, <1>8, <1>9, <1>10, <1>11 DEF Next

LEMMA EvidenceHolds == Spec => [](TypeOK /\ EvidenceInv)
  <1>1. Init => EvidenceInv
    BY DEF Init, EvidenceInv, Evident, NewSlice
  <1>2. TypeOK /\ EvidenceInv /\ [Next]_vars => EvidenceInv'
    <2>1. CASE UNCHANGED vars
      BY <2>1 DEF vars, lifecycle, EvidenceInv
    <2>. QED BY <2>1, EvidenceStep DEF EvidenceInv, Follows
  <1>. QED BY <1>1, <1>2, TypeCorrect, PTL DEF Spec

(* In every history the fold admits an accepted slice has the prompt, the   *)
(* receipt and the report of its last round, whatever was reopened,         *)
(* resolved or cancelled before (fold).                                     *)
THEOREM AcceptanceHasEvidence == Spec => []AcceptedHasEvidence
  <1>1. EvidenceInv => AcceptedHasEvidence
    BY DEF EvidenceInv, Evident, AcceptedHasEvidence
  <1>. QED BY <1>1, EvidenceHolds, PTL

(* No round is prompted twice, however often its slice is sent back (fold,  *)
(* prompt).                                                                 *)
THEOREM RoundIsPromptedOnce == Spec => RoundPromptedOnce
  <1>1. TypeOK /\ EvidenceInv /\ [Next]_vars =>
          [\A s \in Slices : (slices[s].step # "coding" /\ slices'[s].step = "coding") =>
             slices'[s].last_prompt > slices[s].last_prompt]_vars
    BY EvidenceStep DEF Follows
  <1>. QED BY <1>1, EvidenceHolds, PTL DEF Spec, RoundPromptedOnce

-----------------------------------------------------------------------------
(* Closure of runs *)

ClosedStay ==
  \A r \in Admitted : ~Open(r) =>
    /\ ~Open(r)' /\ r \in Admitted'
    /\ runs'[r].allowance = runs[r].allowance
    /\ InRun(r)' = InRun(r)

(* Charging and settling leave a run what it was granted for, and settling  *)
(* can close it.                                                            *)
LEMMA AccountingKeepsGrant ==
  ASSUME NEW run \in RunState, NEW a \in Starts,
         NEW o \in Outcomes, NEW n \in Nat, NEW k \in Nat
  PROVE  /\ Charged(run, a).closed = run.closed /\ Charged(run, a).stop = run.stop
         /\ Charged(run, a).allowance = run.allowance
         /\ Settled(run, o, n, k).closed \in {run.closed, "overrun"}
         /\ Settled(run, o, n, k).stop = run.stop
         /\ Settled(run, o, n, k).allowance = run.allowance
  BY DEF Charged, Settled, RunState

(* Steps that accept nothing and leave calls and grants alone.              *)
LEMMA WorkKeepsRuns ==
  ASSUME TypeOK, RunInv, UNCHANGED <<runs, head, attempts>>, done' \subseteq done,
         \A s \in Slices : slices'[s].step = "accepted" => slices[s].step = "accepted"
  PROVE  RunInv' /\ ClosedStay
  <1>1. /\ Admitted' = Admitted /\ Unfinished' = Unfinished
        /\ \A r : Open(r)' <=> Open(r)
        /\ \A r : InRun(r)' = InRun(r)
    BY DEF Admitted, Unfinished, Open, InRun, Started
  <1>. QED BY <1>1 DEF RunInv, GrantInv, OpenRunIsHeadWithWorkAhead, ClosedStay

(* An approval ends the run whose stop it is.                               *)
LEMMA ApprovalKeepsRuns ==
  ASSUME TypeOK, RunInv, NEW scope \in Scopes, CloseAtBoundary(scope),
         UNCHANGED <<head, attempts>>, done' \subseteq done \cup {scope},
         \A s \in Slices \ {scope} : slices'[s].step = "accepted" => slices[s].step = "accepted"
  PROVE  RunInv' /\ ClosedStay
  <1>1. /\ Unfinished' = Unfinished
        /\ \A r : InRun(r)' = InRun(r)
    BY DEF Unfinished, InRun, Started
  <1>2. CASE Ends(scope)
    <2>1. head \in Runs /\ runs[head] \in RunState /\ head \in Admitted
      BY <1>2, AdmittedType DEF Ends, TypeOK
    <2>2. /\ runs'[head] = [runs[head] EXCEPT !.closed = "boundary"]
          /\ \A r \in Runs \ {head} : runs'[r] = runs[r]
      BY <1>2, <2>1 DEF CloseAtBoundary, TypeOK
    <2>3. runs'[head].closed = "boundary" /\ runs'[head].allowance = runs[head].allowance
      BY <2>1, <2>2 DEF RunState
    <2>4. Admitted' = Admitted
      <3>1. \A r \in Runs : runs'[r].closed # "absent" <=> runs[r].closed # "absent"
        BY <2>1, <2>2, <2>3 DEF Admitted
      <3>. QED BY <3>1 DEF Admitted
    <2>5. \A r \in Admitted : Open(r)' => Open(r) /\ r # head
      BY <2>2, <2>3, <2>4 DEF Admitted, Open
    <2>6. \A r \in Admitted : ~Open(r)'
      BY <2>5 DEF RunInv, OpenRunIsHeadWithWorkAhead
    <2>7. RunInv'
      BY <1>1, <2>4, <2>6 DEF RunInv, GrantInv, OpenRunIsHeadWithWorkAhead
    <2>8. ClosedStay
      BY <1>1, <2>2, <2>3, <2>4, <2>6 DEF ClosedStay, Admitted
    <2>. QED BY <2>7, <2>8
  <1>3. CASE ~Ends(scope)
    <2>1. /\ UNCHANGED runs /\ Admitted' = Admitted
          /\ \A r : Open(r)' <=> Open(r)
      BY <1>3 DEF CloseAtBoundary, Admitted, Open
    <2>2. \A r \in Admitted : Open(r) => runs[r].stop # scope
      BY <1>3, IdentityAssumption DEF RunInv, OpenRunIsHeadWithWorkAhead, Ends, Admitted
    <2>. QED BY <1>1, <2>1, <2>2 DEF RunInv, GrantInv, OpenRunIsHeadWithWorkAhead, ClosedStay
  <1>. QED BY <1>2, <1>3

(* A call is charged to the open head run.                                  *)
LEMMA StartKeepsRuns ==
  ASSUME TypeOK, RunInv, NEW i \in Invocations, NEW a \in Starts, AttemptStarted(i, a)
  PROVE  RunInv' /\ ClosedStay
  <1>1. /\ i \notin Started /\ attempts'[i].run = head /\ i \in Started'
        /\ \A j \in Invocations \ {i} : attempts'[j] = attempts[j]
    BY DEF AttemptStarted, TypeOK, Started
  <1>2. UNCHANGED <<head, slices, done>>
    BY DEF AttemptStarted, lifecycle
  <1>3. CASE Autonomy
    <2>1. head \in Runs /\ head \in Admitted /\ runs[head] \in RunState /\ Open(head)
      BY <1>3, AdmittedType DEF AttemptStarted, GrantAdmits, TypeOK
    <2>2. runs' = [runs EXCEPT ![head] = Charged(runs[head], a)]
      BY <1>3 DEF AttemptStarted
    <2>3. /\ runs'[head].closed = runs[head].closed /\ runs'[head].stop = runs[head].stop
          /\ \A r \in Runs \ {head} : runs'[r] = runs[r]
      <3>1. "completed" \in Outcomes /\ 0 \in Nat
        BY DEF Outcomes
      <3>. QED BY <2>1, <2>2, <3>1, AccountingKeepsGrant DEF TypeOK
    <2>4. Admitted' = Admitted /\ \A r : Open(r)' <=> Open(r)
      BY <2>1, <2>3 DEF Admitted, Open
    <2>5. \A r : r # head => InRun(r)' = InRun(r)
      BY <1>1 DEF InRun, Started
    <2>6. \A r : r # head => Unfinished' \cap InRun(r)' = {}
      BY <1>1, <2>5 DEF InRun, Started, Unfinished, AttemptStarted
    <2>7. RunInv'
      BY <1>2, <1>3, <2>3, <2>4, <2>6 DEF RunInv, GrantInv, OpenRunIsHeadWithWorkAhead, Admitted
    <2>8. ClosedStay
      BY <2>1, <2>3, <2>4, <2>5 DEF ClosedStay, Admitted
    <2>. QED BY <2>7, <2>8
  <1>4. CASE ~Autonomy
    <2>1. Admitted = {} /\ Admitted' = {}
      BY <1>4 DEF RunInv, GrantInv, AttemptStarted, Admitted
    <2>. QED BY <1>2, <1>4, <2>1 DEF RunInv, GrantInv, OpenRunIsHeadWithWorkAhead, ClosedStay
  <1>. QED BY <1>3, <1>4

(* A call that was in flight when its run was closed is settled against it. *)
LEMMA FinishKeepsRuns ==
  ASSUME TypeOK, AttemptsAreOwned, RunInv, NEW i \in Invocations, NEW o \in Outcomes,
         NEW n \in Measures, AttemptFinished(i, o, n)
  PROVE  RunInv' /\ ClosedStay
  <1>1. i \in Started /\ attempts[i].start.seconds \in Nat /\ n \in Nat
        /\ attempts[i] \in AttemptState
    BY BoundAssumption
    DEF Measures, AttemptFinished, Unfinished, Started, TypeOK, NoAttempt, AttemptState, Starts
  <1>2. /\ attempts'[i].phase = o /\ attempts'[i].run = attempts[i].run
        /\ \A j \in Invocations \ {i} : attempts'[j] = attempts[j]
    BY <1>1 DEF AttemptFinished, TypeOK, AttemptState
  <1>3. /\ \A r : InRun(r)' = InRun(r)
        /\ Unfinished' \subseteq Unfinished
    BY <1>1, <1>2 DEF InRun, Started, Unfinished, Outcomes
  <1>4. UNCHANGED <<head, slices, done>>
    BY DEF AttemptFinished, lifecycle
  <1>5. CASE Autonomy
    <2>. DEFINE p == attempts[i].run
    <2>1. p \in Admitted /\ p \in Runs /\ runs[p] \in RunState
      BY <1>1, <1>5, AdmittedType DEF AttemptsAreOwned, TypeOK
    <2>2. runs' = [runs EXCEPT ![p] = Settled(runs[p], o, attempts[i].start.seconds, n)]
      BY <1>5 DEF AttemptFinished
    <2>3. \E a : a \in Starts
      BY <1>1 DEF AttemptState
    <2>. HIDE DEF p
    <2>4. /\ runs'[p].closed \in {runs[p].closed, "overrun"} /\ runs'[p].stop = runs[p].stop
          /\ runs'[p].allowance = runs[p].allowance
          /\ \A r \in Runs \ {p} : runs'[r] = runs[r]
      BY <1>1, <2>1, <2>2, <2>3, AccountingKeepsGrant DEF TypeOK
    <2>5. Admitted' = Admitted /\ \A r : Open(r)' => Open(r)
      BY <2>1, <2>4 DEF Admitted, Open
    <2>6. RunInv'
      BY <1>3, <1>4, <1>5, <2>4, <2>5 DEF RunInv, GrantInv, OpenRunIsHeadWithWorkAhead, Admitted
    <2>7. ClosedStay
      BY <1>3, <2>4, <2>5 DEF ClosedStay, Admitted
    <2>. QED BY <2>6, <2>7
  <1>6. CASE ~Autonomy
    <2>1. Admitted = {} /\ Admitted' = {}
      BY <1>6 DEF RunInv, GrantInv, AttemptFinished, Admitted
    <2>. QED BY <1>4, <1>6, <2>1 DEF RunInv, GrantInv, OpenRunIsHeadWithWorkAhead, ClosedStay
  <1>. QED BY <1>5, <1>6

(* A grant supersedes the open run and has its own stop ahead.              *)
LEMMA GrantKeepsRuns ==
  ASSUME TypeOK, RunInv, NEW r \in Runs, NEW g \in Grants, NEW ref \in Authorities,
         RunAdmitted(r, g, ref)
  PROVE  RunInv' /\ ClosedStay
  <1>1. /\ Autonomy /\ Unfinished = {} /\ r \notin Admitted /\ head' = r
        /\ UNCHANGED <<slices, done, attempts>>
    BY DEF RunAdmitted, Grantable, lifecycle, calls
  <1>2. Unfinished' = {} /\ \A q : InRun(q)' = InRun(q)
    BY <1>1 DEF Unfinished, InRun, Started
  <1>3. /\ runs'[r].closed = "open" /\ runs'[r].stop = g.stop
        /\ \A q \in Runs \ {r} : runs'[q] = Supersede(q)
    BY DEF RunAdmitted, NewRun
  <1>4. ASSUME NEW q \in Admitted
        PROVE  /\ q \in Admitted' /\ ~Open(q)'
               /\ ~Open(q) => runs'[q] = runs[q]
    <2>1. q \in Runs \ {r} /\ runs[q] \in RunState
      BY <1>1, AdmittedType DEF TypeOK, Admitted
    <2>2. CASE Open(q)
      <3>1. runs'[q] = [runs[q] EXCEPT !.closed = "superseded"]
        BY <1>3, <2>1, <2>2 DEF Supersede, RunInv, OpenRunIsHeadWithWorkAhead
      <3>2. runs'[q].closed = "superseded"
        BY <2>1, <3>1 DEF RunState
      <3>. QED BY <2>1, <2>2, <3>2 DEF Admitted, Open
    <2>3. CASE ~Open(q)
      BY <1>3, <2>1, <2>3 DEF Supersede, Admitted, Open
    <2>. QED BY <2>2, <2>3
  <1>5. \A q \in Runs \ Admitted : q # r => q \notin Admitted'
    BY <1>3, AdmittedType DEF Supersede, Admitted, Open, TypeOK
  <1>6. Admitted' = Admitted \cup {r}
    BY <1>3, <1>4, <1>5 DEF Admitted
  <1>7. (g.stop \in Slices => slices[g.stop].step # "accepted") /\ g.stop \notin done
    BY RoadmapAssumption DEF RunAdmitted, StopAhead, LastOf, Grants, TypeOK
  <1>8. RunInv'
    BY <1>1, <1>2, <1>3, <1>4, <1>6, <1>7 DEF RunInv, GrantInv, OpenRunIsHeadWithWorkAhead
  <1>9. ClosedStay
    BY <1>2, <1>4 DEF ClosedStay
  <1>. QED BY <1>8, <1>9

LEMMA ExtensionKeepsRuns ==
  ASSUME TypeOK, RunInv, NEW x \in Allowances, NEW ref \in Authorities, RunExtended(x, ref)
  PROVE  RunInv' /\ ClosedStay
  <1>1. head \in Runs /\ runs[head] \in RunState /\ head \in Admitted /\ Open(head)
    BY AdmittedType DEF RunExtended, Extendable, TypeOK
  <1>2. Autonomy /\ UNCHANGED <<slices, done, attempts, head>>
    BY DEF RunExtended, Grantable, lifecycle, calls
  <1>3. /\ runs'[head].closed = runs[head].closed /\ runs'[head].stop = runs[head].stop
        /\ \A r \in Runs \ {head} : runs'[r] = runs[r]
    BY <1>1 DEF RunExtended, TypeOK, RunState
  <1>4. /\ Unfinished' = Unfinished
        /\ \A r : InRun(r)' = InRun(r)
    BY <1>2 DEF Unfinished, InRun, Started
  <1>5. Admitted' = Admitted /\ \A r : Open(r)' <=> Open(r)
    BY <1>1, <1>3 DEF Admitted, Open
  <1>6. RunInv'
    BY <1>2, <1>3, <1>4, <1>5 DEF RunInv, GrantInv, OpenRunIsHeadWithWorkAhead, Admitted
  <1>7. ClosedStay
    BY <1>1, <1>3, <1>4, <1>5 DEF ClosedStay, Admitted
  <1>. QED BY <1>6, <1>7

(* Only the two approvals make a slice accepted or a milestone done.        *)
LEMMA WorkAcceptsNothing ==
  ASSUME TypeOK,
         \/ \E s \in Slices : Prompt(s) \/ Reopened(s) \/ Resolved(s)
         \/ \E s \in Slices, b \in BOOLEAN : Coded(s, b) \/ Verified(s, b)
         \/ \E s \in Slices, v \in Verdicts : Reviewed(s, v)
         \/ \E m \in Milestones, v \in Verdicts, S \in SUBSET Slices : HolisticReviewed(m, v, S)
         \/ \E m \in Milestones : ResolvedGate(m)
         \/ \E op \in Operations, retain \in BOOLEAN : CommitCancelled(op, retain)
         \/ \E i \in Invocations : ReviewCheckpoint(i)
         \/ \E m \in Milestones, label \in Statuses : Relabel(m, label)
  PROVE  /\ UNCHANGED <<runs, head, attempts>> /\ done' \subseteq done
         /\ \A s \in Slices : slices'[s].step = "accepted" => slices[s].step = "accepted"
  <1>1. UNCHANGED <<runs, head, attempts>>
    BY DEF Prompt, Reopened, Resolved, Coded, Verified, Reviewed, HolisticReviewed, ResolvedGate,
           CommitCancelled, ReviewCheckpoint, Relabel, calls, grants
  <1>2. done' \subseteq done
    BY DEF Prompt, Reopened, Resolved, Coded, Verified, Reviewed, HolisticReviewed, ResolvedGate,
           CommitCancelled, ReviewCheckpoint, Relabel, lifecycle
  <1>3. ASSUME NEW s \in Slices, NEW sl, slices' = [slices EXCEPT ![s] = sl], sl.step # "accepted"
        PROVE  \A t \in Slices : slices'[t].step = "accepted" => slices[t].step = "accepted"
    BY <1>3 DEF TypeOK
  <1>4. \A s \in Slices : slices[s] \in SliceState
    BY DEF TypeOK
  <1>5. ASSUME NEW s \in Slices, Prompt(s) \/ Reopened(s) \/ Resolved(s)
        PROVE  \A t \in Slices : slices'[t].step = "accepted" => slices[t].step = "accepted"
    BY <1>3, <1>4, <1>5, StepFacts, SentBackFacts, ReopenFacts
    DEF Prompt, Reopened, Resolved, Verdicts
  <1>6. ASSUME NEW s \in Slices, NEW b \in BOOLEAN, Coded(s, b) \/ Verified(s, b)
        PROVE  \A t \in Slices : slices'[t].step = "accepted" => slices[t].step = "accepted"
    BY <1>3, <1>4, <1>6, StepFacts DEF Coded, Verified, Verdicts
  <1>7. ASSUME NEW s \in Slices, NEW v \in Verdicts, Reviewed(s, v)
        PROVE  \A t \in Slices : slices'[t].step = "accepted" => slices[t].step = "accepted"
    <2>1. slices[s] \in SliceState /\ TRUE \in BOOLEAN
      BY <1>4
    <2>2. ReviewedAs(slices[s], v).step # "accepted"
      BY <2>1, StepFacts
    <2>. QED BY <1>3, <1>7, <2>2 DEF Reviewed
  <1>8. ASSUME NEW m \in Milestones, NEW v \in Verdicts, NEW S \in SUBSET Slices,
               HolisticReviewed(m, v, S)
        PROVE  \A t \in Slices : slices'[t].step = "accepted" => slices[t].step = "accepted"
    BY <1>4, <1>8, ReopenFacts DEF HolisticReviewed
  <1>9. ASSUME NEW op \in Operations, NEW retain \in BOOLEAN, CommitCancelled(op, retain)
        PROVE  \A t \in Slices : slices'[t].step = "accepted" => slices[t].step = "accepted"
    <2>1. CASE UNCHANGED slices
      BY <2>1
    <2>2. CASE intents[op] \in Slices
               /\ slices' = [slices EXCEPT ![intents[op]] = Reopen(slices[intents[op]])]
      BY <1>3, <1>4, <2>2, ReopenFacts
    <2>. QED BY <1>9, <2>1, <2>2 DEF CommitCancelled, lifecycle
  <1>10. ASSUME \/ \E m \in Milestones : ResolvedGate(m)
                \/ \E i \in Invocations : ReviewCheckpoint(i)
                \/ \E m \in Milestones, label \in Statuses : Relabel(m, label)
         PROVE  UNCHANGED slices
    BY <1>10 DEF ResolvedGate, ReviewCheckpoint, Relabel, lifecycle
  <1>. QED BY <1>1, <1>2, <1>5, <1>6, <1>7, <1>8, <1>9, <1>10

LEMMA RunStep ==
  ASSUME TypeOK, AttemptsAreOwned, RunInv, Next
  PROVE  RunInv' /\ ClosedStay
  <1>1. ASSUME NEW s \in Slices, NEW op \in Operations \cup {None}, Accepted(s, op)
        PROVE  RunInv' /\ ClosedStay
    <2>1. /\ CloseAtBoundary(s) /\ UNCHANGED <<head, attempts, done>> /\ s \in Scopes
          /\ \A t \in Slices \ {s} : slices'[t] = slices[t]
      BY <1>1 DEF Accepted, calls, Scopes, TypeOK
    <2>. QED BY <2>1, ApprovalKeepsRuns
  <1>2. ASSUME NEW m \in Milestones, NEW op \in Operations \cup {None}, MilestoneDone(m, op)
        PROVE  RunInv' /\ ClosedStay
    <2>1. /\ CloseAtBoundary(m) /\ UNCHANGED <<head, attempts, slices>> /\ m \in Scopes
          /\ done' = done \cup {m}
      BY <1>2 DEF MilestoneDone, calls, Scopes
    <2>. QED BY <2>1, ApprovalKeepsRuns
  <1>. QED BY <1>1, <1>2, WorkAcceptsNothing, WorkKeepsRuns, StartKeepsRuns, FinishKeepsRuns,
              GrantKeepsRuns, ExtensionKeepsRuns DEF Next

LEMMA RunsHold == Spec => [](TypeOK /\ AttemptsAreOwned /\ RunInv)
  <1>1. Init => RunInv
    BY DEF Init, RunInv, GrantInv, OpenRunIsHeadWithWorkAhead, Admitted, NoRun
  <1>2. TypeOK /\ AttemptsAreOwned /\ RunInv /\ [Next]_vars => RunInv'
    <2>1. CASE UNCHANGED vars
      BY <2>1, WorkKeepsRuns DEF vars, lifecycle, calls, grants
    <2>. QED BY <2>1, RunStep
  <1>. QED BY <1>1, <1>2, TypeCorrect, PTL DEF Spec

(* At most one run is open, the head, calls are in flight for it alone, and *)
(* its stop is still ahead, whatever is superseded, extended, overrun or    *)
(* reopened (_grant, apply).                                                *)
THEOREM OneRunIsOpen == Spec => []OpenRunIsHeadWithWorkAhead
  <1>1. RunInv => OpenRunIsHeadWithWorkAhead
    BY DEF RunInv
  <1>. QED BY <1>1, RunsHold, PTL

(* A closed run is neither reopened, extended nor given another call        *)
(* (_grant, _start).                                                        *)
THEOREM ClosureIsFinal == Spec => ClosedRunStaysClosed
  <1>1. TypeOK /\ AttemptsAreOwned /\ RunInv /\ [Next]_vars =>
          [\A r \in Admitted : ~Open(r) =>
             /\ ~Open(r)' /\ r \in Admitted'
             /\ runs'[r].allowance = runs[r].allowance
             /\ InRun(r)' = InRun(r)]_vars
    BY RunStep DEF ClosedStay
  <1>. QED BY <1>1, RunsHold, PTL DEF Spec, ClosedRunStaysClosed

-----------------------------------------------------------------------------
(* Calls and their retries *)

LEMMA CallsStay ==
  ASSUME CallInv, GrantInv', Started' = Started,
         \A i \in Started : /\ attempts'[i].start = attempts[i].start
                            /\ attempts'[i].run = attempts[i].run
                            /\ attempts'[i].root = attempts[i].root
  PROVE  CallInv'
  BY DEF CallInv, RootsStarted, ChainIsBounded, ContextSentOnce, Context

LEMMA StartKeepsCalls ==
  ASSUME TypeOK, CallInv, GrantInv', NEW i \in Invocations, NEW a \in Starts,
         AttemptStarted(i, a)
  PROVE  CallInv'
  <1>1. /\ i \notin Started /\ Started' = Started \cup {i}
        /\ \A j \in Started : attempts'[j] = attempts[j]
    BY DEF AttemptStarted, TypeOK, Started
  <1>2. attempts'[i].start = a /\ attempts'[i].run = head /\ attempts'[i].root = RootOf(i, a)
    BY DEF AttemptStarted, TypeOK
  <1>3. a.parent # None => a.parent \in Started
    BY DEF AttemptStarted, RetryBound, Finished, Started, Outcomes
  <1>4. /\ a.parent = None => RootOf(i, a) = i
        /\ a.parent # None => /\ RootOf(i, a) = attempts[a.parent].root
                              /\ RootOf(i, a) \in Started
    BY <1>3 DEF RootOf, CallInv, RootsStarted
  <1>5. RootsStarted'
    BY <1>1, <1>2, <1>4 DEF CallInv, RootsStarted
  <1>6. ASSUME Autonomy, NEW k \in Started, attempts[k].root = RootOf(i, a)
        PROVE  /\ attempts[k].run = head
               /\ <<a.scope, a.round, a.contract>>
                    = <<attempts[k].start.scope, attempts[k].start.round, attempts[k].start.contract>>
               /\ attempts[k].start.retry # a.retry
    <2>1. a.parent # None
      BY <1>1, <1>4, <1>6 DEF CallInv, RootsStarted
    <2>2. a.parent \in Started /\ attempts[a.parent].root = attempts[k].root
      BY <1>3, <1>4, <1>6, <2>1
    <2>3. /\ attempts[a.parent].run = head
          /\ \A j \in Chain(attempts[a.parent].root) : attempts[j].start.retry # a.retry
      BY <1>6, <2>1 DEF AttemptStarted, GrantAdmits, RetryLeft
    <2>4. <<a.scope, a.round, a.contract>>
            = <<attempts[a.parent].start.scope, attempts[a.parent].start.round,
                attempts[a.parent].start.contract>>
      BY <2>1 DEF AttemptStarted, RetryBound
    <2>5. k \in Chain(attempts[a.parent].root)
      BY <2>2 DEF Chain
    <2>. QED BY <1>6, <2>2, <2>3, <2>4, <2>5 DEF CallInv, ChainIsBounded
  <1>7. ChainIsBounded'
    BY <1>1, <1>2, <1>6 DEF CallInv, ChainIsBounded
  <1>8. ASSUME NEW k \in Started, attempts[k].run = head, head # None,
               a.parent = None, attempts[k].start.parent = None, a.role # "verification"
        PROVE  Context(attempts[k].start) # Context(a)
    <2>1. Autonomy
      BY <1>8 DEF CallInv, GrantInv
    <2>2. ContextIsFresh(a)
      BY <1>8, <2>1 DEF AttemptStarted, GrantAdmits
    <2>. QED BY <1>8, <2>2 DEF ContextIsFresh, InRun
  <1>9. ContextSentOnce'
    <2>. SUFFICES ASSUME NEW j \in Started', NEW k \in Started', j # k,
                         attempts'[j].run = attempts'[k].run, attempts'[j].run # None,
                         attempts'[j].start.parent = None, attempts'[k].start.parent = None,
                         Context(attempts'[j].start) = Context(attempts'[k].start),
                         attempts'[j].start.role # "verification"
                  PROVE  FALSE
      BY DEF ContextSentOnce, Context
    <2>1. CASE j \in Started /\ k \in Started
      BY <1>1, <2>1 DEF CallInv, ContextSentOnce
    <2>2. CASE j = i /\ k \in Started
      BY <1>1, <1>2, <1>8, <2>2
    <2>3. CASE j \in Started /\ k = i
      <3>1. a.role # "verification"
        BY <1>2, <2>3 DEF Context
      <3>. QED BY <1>1, <1>2, <1>8, <2>3, <3>1
    <2>. QED BY <1>1, <2>1, <2>2, <2>3
  <1>. QED BY <1>5, <1>7, <1>9 DEF CallInv

LEMMA CallStep ==
  ASSUME TypeOK, CallInv, GrantInv', [Next]_vars
  PROVE  CallInv'
  <1>1. CASE UNCHANGED attempts
    BY <1>1, CallsStay DEF Started
  <1>2. ASSUME NEW i \in Invocations, NEW o \in Outcomes, NEW n \in Measures,
               AttemptFinished(i, o, n)
        PROVE  CallInv'
    <2>1. i \in Started /\ attempts[i] \in AttemptState
      BY <1>2 DEF AttemptFinished, Unfinished, Started, TypeOK, NoAttempt
    <2>2. /\ attempts'[i].phase = o /\ attempts'[i].start = attempts[i].start
          /\ attempts'[i].run = attempts[i].run /\ attempts'[i].root = attempts[i].root
          /\ \A j \in Invocations \ {i} : attempts'[j] = attempts[j]
      BY <1>2, <2>1 DEF AttemptFinished, TypeOK, AttemptState
    <2>3. Started' = Started
      BY <2>1, <2>2 DEF Started, Outcomes
    <2>. QED BY <2>2, <2>3, CallsStay DEF Started
  <1>3. ASSUME Next,
               ~ \E i \in Invocations, a \in Starts : AttemptStarted(i, a),
               ~ \E i \in Invocations, o \in Outcomes, n \in Measures :
                   AttemptFinished(i, o, n)
        PROVE  UNCHANGED attempts
    BY <1>3 DEF Next, Prompt, Reopened, Resolved, Coded, Verified, Reviewed, Accepted,
                HolisticReviewed, ResolvedGate, MilestoneDone, CommitCancelled, ReviewCheckpoint,
                RunAdmitted, RunExtended, Relabel, calls
  <1>. QED BY <1>1, <1>2, <1>3, StartKeepsCalls DEF vars, calls

LEMMA CallsHold == Spec => []CallInv
  <1>1. Init => CallInv
    BY DEF Init, CallInv, GrantInv, RootsStarted, ChainIsBounded, ContextSentOnce, Started,
           Admitted, NoAttempt, NoRun
  <1>2. TypeOK /\ CallInv /\ GrantInv' /\ [Next]_vars => CallInv'
    BY CallStep
  <1>3. RunInv => GrantInv
    BY DEF RunInv
  <1>. QED BY <1>1, <1>2, <1>3, RunsHold, PTL DEF Spec

(* A failed dispatch is retried at most once per kind, in the run and for   *)
(* the binding of its first call (_start, apply_v2).                        *)
THEOREM CallsAreBounded == Spec => []ChainIsBounded
  <1>1. CallInv => ChainIsBounded
    BY DEF CallInv
  <1>. QED BY <1>1, CallsHold, PTL

(* The same fresh context is not sent twice in a run, whatever the runner   *)
(* forgot (_start).                                                         *)
THEOREM ContextIsSentOnce == Spec => []ContextSentOnce
  <1>1. CallInv => ContextSentOnce
    BY DEF CallInv
  <1>. QED BY <1>1, CallsHold, PTL

-----------------------------------------------------------------------------
(* Sums over a set: the function that SumFunctionOnSet chooses.             *)
Adds(g, f, s) ==
  IF s = {} THEN 0 ELSE f[CHOOSE x \in s : TRUE] + g[s \ {CHOOSE x \in s : TRUE}]

AddsUp(g, f, S) == g = [s \in SUBSET S |-> Adds(g, f, s)]
Adder(f, S)     == CHOOSE g : AddsUp(g, f, S)

LEMMA SumIsAdder ==
  ASSUME NEW f, NEW S
  PROVE  SumFunctionOnSet(f, S) = Adder(f, S)[S]
  BY DEF SumFunctionOnSet, FoldFunctionOnSet, MapThenFoldSet, Adder, AddsUp, Adds

Below == {ss \in Nat \X Nat : ss[1] < ss[2]}

LEMMA LeastNumber ==
  ASSUME NEW N, N \subseteq Nat, N # {}
  PROVE  \E n \in N : \A m \in N : n <= m
  <1>1. IsWellFoundedOn(Below, Nat)
    BY NatLessThanWellFounded DEF OpToRel, Below
  <1>2. PICK n \in N : \A m \in N : <<m, n>> \notin Below
    BY <1>1, WFMin
  <1>3. \A m \in N : ~ (m < n)
    BY <1>2 DEF Below
  <1>. QED BY <1>3

Small(S, n) == {s \in SUBSET S : Cardinality(s) <= n}
AddsUpTo(g, f, S, n) == g = [s \in Small(S, n) |-> Adds(g, f, s)]

LEMMA OneLess ==
  ASSUME NEW S, IsFiniteSet(S), NEW s \in SUBSET S, s # {}
  PROVE  LET x == CHOOSE x \in s : TRUE
         IN  /\ x \in s /\ s \ {x} \in SUBSET S /\ IsFiniteSet(s) /\ IsFiniteSet(s \ {x})
             /\ Cardinality(s) \in Nat /\ Cardinality(s \ {x}) \in Nat
             /\ Cardinality(s \ {x}) = Cardinality(s) - 1
  BY FS_Subset, FS_RemoveElement, FS_CardinalityType

LEMMA NextAdder ==
  ASSUME NEW f, NEW S, IsFiniteSet(S), NEW n \in Nat, NEW g, AddsUpTo(g, f, S, n)
  PROVE  \E h : AddsUpTo(h, f, S, n + 1)
  <1>. DEFINE h == [s \in Small(S, n + 1) |-> Adds(g, f, s)]
  <1>1. ASSUME NEW s \in Small(S, n) PROVE h[s] = g[s]
    <2>1. Cardinality(s) \in Nat /\ s \in Small(S, n + 1)
      BY FS_Subset, FS_CardinalityType DEF Small
    <2>2. g[s] = Adds(g, f, s)
      BY DEF AddsUpTo
    <2>. QED BY <2>1, <2>2
  <1>2. ASSUME NEW s \in Small(S, n + 1) PROVE Adds(g, f, s) = Adds(h, f, s)
    <2>1. CASE s = {}
      BY <2>1 DEF Adds
    <2>2. CASE s # {}
      <3>. DEFINE x == CHOOSE x \in s : TRUE
      <3>1. s \ {x} \in Small(S, n)
        <4>1. s \in SUBSET S /\ Cardinality(s) <= n + 1
          BY DEF Small
        <4>2. /\ s \ {x} \in SUBSET S
              /\ Cardinality(s) \in Nat /\ Cardinality(s \ {x}) \in Nat
              /\ Cardinality(s \ {x}) = Cardinality(s) - 1
          BY <2>2, <4>1, OneLess
        <4>. QED BY <4>1, <4>2 DEF Small
      <3>2. h[s \ {x}] = g[s \ {x}]
        BY <1>1, <3>1
      <3>. QED BY <2>2, <3>2 DEF Adds
    <2>. QED BY <2>1, <2>2
  <1>3. h = [s \in Small(S, n + 1) |-> Adds(h, f, s)]
    BY <1>2
  <1>. QED BY <1>3 DEF AddsUpTo

LEMMA AdderExists ==
  ASSUME NEW f, NEW S, IsFiniteSet(S)
  PROVE  AddsUp(Adder(f, S), f, S)
  <1>. DEFINE N == {n \in Nat : ~ \E g : AddsUpTo(g, f, S, n)}
  <1>1. 0 \notin N
    <2>. DEFINE g == [s \in Small(S, 0) |-> 0]
    <2>1. ASSUME NEW s \in Small(S, 0) PROVE s = {}
      BY FS_Subset, FS_CardinalityType, FS_EmptySet DEF Small
    <2>2. g = [s \in Small(S, 0) |-> Adds(g, f, s)]
      BY <2>1 DEF Adds
    <2>. QED BY <2>2 DEF AddsUpTo
  <1>2. N = {}
    <2>. SUFFICES ASSUME N # {} PROVE FALSE
      OBVIOUS
    <2>1. PICK n \in N : \A m \in N : n <= m
      BY LeastNumber
    <2>2. n \in Nat \ {0} /\ n - 1 \in Nat
      BY <1>1
    <2>3. n - 1 \notin N
      BY <2>1, <2>2
    <2>4. \E g : AddsUpTo(g, f, S, n - 1)
      BY <2>2, <2>3
    <2>5. \E g : AddsUpTo(g, f, S, (n - 1) + 1)
      BY <2>2, <2>4, NextAdder
    <2>. QED BY <2>2, <2>5
  <1>3. Cardinality(S) \in Nat
    BY FS_CardinalityType
  <1>4. Small(S, Cardinality(S)) = SUBSET S
    BY FS_Subset DEF Small
  <1>5. \E g : AddsUpTo(g, f, S, Cardinality(S))
    BY <1>2, <1>3
  <1>6. \E g : AddsUp(g, f, S)
    BY <1>4, <1>5 DEF AddsUpTo, AddsUp
  <1>. QED BY <1>6 DEF Adder

(* A sum of no terms, and of one term more.                                 *)
LEMMA SumOfNone ==
  ASSUME NEW f
  PROVE  SumFunctionOnSet(f, {}) = 0
  <1>1. IsFiniteSet({})
    BY FS_EmptySet
  <1>2. AddsUp(Adder(f, {}), f, {})
    BY <1>1, AdderExists
  <1>3. Adder(f, {})[{}] = 0
    BY <1>2 DEF AddsUp, Adds
  <1>. QED BY <1>3, SumIsAdder

(* Whatever else they sum, two such functions agree where the terms do.     *)
LEMMA AddersAgree ==
  ASSUME NEW f, NEW e, NEW S, NEW T, NEW g, NEW h, NEW R, IsFiniteSet(R),
         AddsUp(g, f, S), AddsUp(h, e, T), R \in SUBSET S, R \in SUBSET T,
         \A x \in R : f[x] = e[x]
  PROVE  g[R] = h[R]
  <1>. DEFINE N == {n \in Nat : \E s \in SUBSET R : Cardinality(s) = n /\ g[s] # h[s]}
  <1>1. SUFFICES ASSUME N # {} PROVE FALSE
    <2>1. Cardinality(R) \in Nat
      BY FS_CardinalityType
    <2>. QED BY <2>1
  <1>2. PICK n \in N : \A m \in N : n <= m
    BY <1>1, LeastNumber
  <1>3. PICK s \in SUBSET R : Cardinality(s) = n /\ g[s] # h[s]
    OBVIOUS
  <1>4. g[s] = Adds(g, f, s) /\ h[s] = Adds(h, e, s)
    BY DEF AddsUp
  <1>5. s # {}
    BY <1>3, <1>4 DEF Adds
  <1>. DEFINE x == CHOOSE x \in s : TRUE
  <1>6. /\ x \in s /\ s \ {x} \in SUBSET R
        /\ Cardinality(s \ {x}) \in Nat /\ Cardinality(s \ {x}) = n - 1 /\ n \in Nat
    BY <1>3, <1>5, OneLess
  <1>7. g[s \ {x}] = h[s \ {x}]
    <2>1. Cardinality(s \ {x}) \notin N
      BY <1>2, <1>6
    <2>. QED BY <1>6, <2>1
  <1>8. f[x] = e[x]
    BY <1>6
  <1>. QED BY <1>3, <1>4, <1>5, <1>7, <1>8 DEF Adds

LEMMA SumsAgree ==
  ASSUME NEW f, NEW e, NEW S, IsFiniteSet(S), \A x \in S : f[x] = e[x]
  PROVE  SumFunctionOnSet(f, S) = SumFunctionOnSet(e, S)
  <1>. DEFINE g == Adder(f, S)
              h == Adder(e, S)
  <1>1. AddsUp(g, f, S) /\ AddsUp(h, e, S) /\ S \in SUBSET S
    BY AdderExists
  <1>2. SumFunctionOnSet(f, S) = g[S] /\ SumFunctionOnSet(e, S) = h[S]
    BY SumIsAdder
  <1>. HIDE DEF g, h
  <1>3. ASSUME NEW R \in SUBSET S PROVE g[R] = h[R]
    <2>1. IsFiniteSet(R) /\ \A x \in R : f[x] = e[x]
      BY FS_Subset
    <2>2. \A A : AddsUp(g, f, A) /\ R \in SUBSET A => (AddsUp(h, e, A) => g[R] = h[R])
      BY <2>1, AddersAgree
    <2>. QED BY <1>1, <2>2
  <1>. QED BY <1>2, <1>3

(* Any term may be the first.                                               *)
LEMMA AdderTakesAny ==
  ASSUME NEW f, NEW S, IsFiniteSet(S), NEW g, AddsUp(g, f, S), \A x \in S : f[x] \in Int
  PROVE  \A s \in SUBSET S : /\ g[s] \in Int
                            /\ \A a \in s : g[s] = f[a] + g[s \ {a}]
  <1>. DEFINE Fine(s) == g[s] \in Int /\ \A a \in s : g[s] = f[a] + g[s \ {a}]
              N == {n \in Nat : \E s \in SUBSET S : Cardinality(s) = n /\ ~Fine(s)}
  <1>1. SUFFICES ASSUME N # {} PROVE FALSE
    <2>1. ASSUME NEW s \in SUBSET S PROVE Cardinality(s) \in Nat
      BY FS_Subset, FS_CardinalityType
    <2>. QED BY <2>1
  <1>2. PICK n \in N : \A m \in N : n <= m
    BY <1>1, LeastNumber
  <1>3. PICK s \in SUBSET S : Cardinality(s) = n /\ ~Fine(s)
    OBVIOUS
  <1>4. g[s] = Adds(g, f, s)
    BY DEF AddsUp
  <1>5. s # {}
    BY <1>3, <1>4 DEF Adds
  <1>. DEFINE x == CHOOSE x \in s : TRUE
              r == s \ {x}
  <1>6. x \in s /\ g[s] = f[x] + g[r]
    BY <1>4, <1>5 DEF Adds
  <1>7. ASSUME NEW t \in SUBSET S, Cardinality(t) \in Nat, Cardinality(t) < n PROVE Fine(t)
    <2>1. Cardinality(t) \notin N
      BY <1>2, <1>7
    <2>. QED BY <1>7, <2>1
  <1>8. ASSUME NEW a \in s 
        PROVE  /\ s \ {a} \in SUBSET S /\ Fine(s \ {a})
               /\ Cardinality(s \ {a}) \in Nat /\ Cardinality(s \ {a}) < n
    <2>1. IsFiniteSet(s) /\ Cardinality(s) \in Nat
      BY FS_Subset, FS_CardinalityType
    <2>2. IsFiniteSet(s \ {a}) /\ Cardinality(s \ {a}) = n - 1
      BY <1>3, <2>1, FS_RemoveElement
    <2>3. Cardinality(s \ {a}) \in Nat
      BY <2>2, FS_CardinalityType
    <2>4. s \ {a} \in SUBSET S /\ n \in Nat /\ Cardinality(s \ {a}) < n
      BY <2>2
    <2>5. Fine(s \ {a})
      BY <1>7, <2>3, <2>4
    <2>. QED BY <2>3, <2>4, <2>5
  <1>9. f[x] \in Int /\ Fine(r)
    BY <1>6, <1>8
  <1>10. g[s] \in Int
    BY <1>6, <1>9
  <1>11. ASSUME NEW a \in s PROVE g[s] = f[a] + g[s \ {a}]
    <2>1. CASE a = x
      BY <1>6, <2>1
    <2>2. CASE a # x
      <3>. DEFINE q == s \ {x, a}
      <3>1. a \in r /\ r \ {a} = q /\ x \in s \ {a} /\ (s \ {a}) \ {x} = q
        BY <1>6, <2>2
      <3>2. g[r] = f[a] + g[q]
        BY <1>9, <3>1
      <3>3. g[s \ {a}] = f[x] + g[q]
        BY <1>8, <3>1
      <3>4. g[q] \in Int
        <4>1. IsFiniteSet(s \ {a}) /\ q \in SUBSET S
          BY <1>8, FS_Subset
        <4>2. /\ IsFiniteSet(q) /\ Cardinality(q) \in Nat
              /\ Cardinality(q) <= Cardinality(s \ {a})
          BY <3>1, <4>1, FS_Subset, FS_CardinalityType
        <4>3. Cardinality(s \ {a}) < n /\ Cardinality(s \ {a}) \in Nat
          BY <1>8
        <4>4. Cardinality(q) < n
          BY <4>2, <4>3
        <4>. QED BY <1>7, <4>1, <4>2, <4>4
      <3>5. f[a] \in Int /\ f[x] \in Int
        BY <1>6
      <3>. QED BY <1>6, <3>2, <3>3, <3>4, <3>5
    <2>. QED BY <2>1, <2>2
  <1>. QED BY <1>3, <1>10, <1>11

LEMMA SumOfMore ==
  ASSUME NEW f, NEW S, IsFiniteSet(S), NEW a, a \notin S, \A x \in S \cup {a} : f[x] \in Int
  PROVE  /\ SumFunctionOnSet(f, S) \in Int
         /\ SumFunctionOnSet(f, S \cup {a}) = f[a] + SumFunctionOnSet(f, S)
  <1>. DEFINE T == S \cup {a}
              g == Adder(f, S)
              h == Adder(f, T)
  <1>1. IsFiniteSet(T)
    BY FS_AddElement
  <1>2. AddsUp(g, f, S) /\ AddsUp(h, f, T)
    BY <1>1, AdderExists
  <1>3. SumFunctionOnSet(f, S) = g[S] /\ SumFunctionOnSet(f, T) = h[T]
    BY SumIsAdder
  <1>4. T \in SUBSET T /\ S \in SUBSET T /\ S \in SUBSET S /\ a \in T /\ T \ {a} = S
    OBVIOUS
  <1>5. \A x \in T : f[x] \in Int
    OBVIOUS
  <1>. HIDE DEF g, h, T
  <1>6. g[S] = h[S]
    BY <1>2, <1>4, AddersAgree
  <1>7. h[S] \in Int /\ h[T] = f[a] + h[T \ {a}]
    BY <1>1, <1>2, <1>4, <1>5, AdderTakesAny
  <1>. QED BY <1>3, <1>4, <1>6, <1>7 DEF T

LEMMA SumIsInt ==
  ASSUME NEW f, NEW S, IsFiniteSet(S), \A x \in S : f[x] \in Int
  PROVE  SumFunctionOnSet(f, S) \in Int
  <1>. DEFINE g == Adder(f, S)
  <1>1. AddsUp(g, f, S) /\ SumFunctionOnSet(f, S) = g[S] /\ S \in SUBSET S
    BY AdderExists, SumIsAdder
  <1>. HIDE DEF g
  <1>2. \A s \in SUBSET S : g[s] \in Int
    BY <1>1, AdderTakesAny
  <1>3. g[S] \in Int
    BY <1>2
  <1>. QED BY <1>1, <1>3

(* A term that changes changes the sum by as much.                          *)
LEMMA SumWithChange ==
  ASSUME NEW f, NEW e, NEW S, IsFiniteSet(S), NEW a \in S,
         \A x \in S : f[x] \in Int /\ e[x] \in Int,
         \A x \in S \ {a} : f[x] = e[x]
  PROVE  SumFunctionOnSet(e, S) = SumFunctionOnSet(f, S) + e[a] - f[a]
  <1>. DEFINE R == S \ {a}
  <1>1. IsFiniteSet(R) /\ a \notin R /\ R \cup {a} = S
    BY FS_RemoveElement
  <1>2. \A x \in R : f[x] = e[x]
    OBVIOUS
  <1>3. \A x \in R \cup {a} : f[x] \in Int /\ e[x] \in Int
    OBVIOUS
  <1>. HIDE DEF R
  <1>4. SumFunctionOnSet(f, R) = SumFunctionOnSet(e, R)
    BY <1>1, <1>2, SumsAgree
  <1>5. /\ SumFunctionOnSet(f, R) \in Int
        /\ SumFunctionOnSet(f, R \cup {a}) = f[a] + SumFunctionOnSet(f, R)
    BY <1>1, <1>3, SumOfMore
  <1>6. SumFunctionOnSet(e, R \cup {a}) = e[a] + SumFunctionOnSet(e, R)
    BY <1>1, <1>3, SumOfMore
  <1>7. f[a] \in Int /\ e[a] \in Int
    OBVIOUS
  <1>8. /\ SumFunctionOnSet(f, S) = f[a] + SumFunctionOnSet(f, R)
        /\ SumFunctionOnSet(e, S) = e[a] + SumFunctionOnSet(f, R)
    BY <1>1, <1>4, <1>5, <1>6
  <1>. QED BY <1>5, <1>7, <1>8


-----------------------------------------------------------------------------
(* Accounts *)

Costs(r, u) == [i \in InRun(r) |-> Cost(i, u)]

LEMMA AccountIsSum ==
  ConsumptionAttributed <=>
    \A r \in Admitted : \A u \in Units :
      runs[r].consumed[u] = SumFunctionOnSet(Costs(r, u), InRun(r))
  BY DEF ConsumptionAttributed, SumFunction, Costs

LEMMA CostType ==
  ASSUME TypeOK, NEW i \in Started, NEW u \in Units
  PROVE  /\ attempts[i] \in AttemptState /\ attempts[i].start \in Starts
         /\ Charges(attempts[i].start)[u] \in Nat /\ Cost(i, u) \in Int
  <1>1. attempts[i] \in AttemptState
    BY DEF TypeOK, Started, NoAttempt
  <1>2. attempts[i].start \in Starts /\ attempts[i].measured \in Nat
    BY <1>1 DEF AttemptState
  <1>3. attempts[i].start.seconds \in Nat
    BY <1>2, BoundAssumption DEF Starts
  <1>4. Charges(attempts[i].start)[u] \in Nat
    BY <1>2, <1>3 DEF Charges
  <1>. QED BY <1>1, <1>2, <1>3, <1>4 DEF Cost, FinalSeconds

LEMMA InRunIsFinite ==
  ASSUME NEW r
  PROVE  IsFiniteSet(InRun(r))
  BY IdentityAssumption, FS_Subset DEF InRun, Started

(* What changes no call and no consumption keeps the accounts.              *)
LEMMA AccountStays ==
  ASSUME ConsumptionAttributed, UNCHANGED attempts,
         \A r \in Admitted' : \/ r \in Admitted /\ runs'[r].consumed = runs[r].consumed
                              \/ InRun(r) = {} /\ runs'[r].consumed = [u \in Units |-> 0]
  PROVE  ConsumptionAttributed'
  <1>. SUFFICES ASSUME NEW r \in Admitted', NEW u \in Units
                PROVE  runs'[r].consumed[u] = SumFunction([i \in InRun(r) |-> Cost(i, u)])'
    BY DEF ConsumptionAttributed
  <1>1. /\ InRun(r)' = InRun(r)
        /\ [i \in InRun(r) |-> Cost(i, u)]' = [i \in InRun(r) |-> Cost(i, u)]
    BY DEF InRun, Started, Cost, Finished
  <1>2. CASE r \in Admitted /\ runs'[r].consumed = runs[r].consumed
    BY <1>1, <1>2 DEF ConsumptionAttributed
  <1>3. CASE InRun(r) = {} /\ runs'[r].consumed = [v \in Units |-> 0]
    <2>1. [i \in InRun(r) |-> Cost(i, u)] = [i \in {} |-> Cost(i, u)]
      BY <1>3
    <2>2. SumFunction([i \in {} |-> Cost(i, u)]) = 0
      BY SumOfNone DEF SumFunction
    <2>. QED BY <1>1, <1>3, <2>1, <2>2
  <1>. QED BY <1>2, <1>3

LEMMA BoundaryKeepsAccount ==
  ASSUME TypeOK, ConsumptionAttributed, UNCHANGED attempts,
         NEW scope \in Scopes, CloseAtBoundary(scope)
  PROVE  ConsumptionAttributed'
  <1>1. CASE UNCHANGED runs
    BY <1>1, AccountStays DEF Admitted
  <1>2. CASE Ends(scope)
    <2>1. head \in Admitted /\ runs[head] \in RunState
      BY <1>2, AdmittedType DEF Ends, TypeOK
    <2>2. runs' = [runs EXCEPT ![head] = [runs[head] EXCEPT !.closed = "boundary"]]
      BY <1>2 DEF CloseAtBoundary
    <2>3. [runs[head] EXCEPT !.closed = "boundary"].consumed = runs[head].consumed
      BY <2>1 DEF RunState
    <2>4. \A r \in Admitted' : r \in Admitted /\ runs'[r].consumed = runs[r].consumed
      BY <2>1, <2>2, <2>3 DEF Admitted, TypeOK
    <2>. QED BY <2>4, AccountStays
  <1>. QED BY <1>1, <1>2 DEF CloseAtBoundary

LEMMA GrantKeepsAccount ==
  ASSUME TypeOK, AttemptsAreOwned, ConsumptionAttributed,
         NEW r \in Runs, NEW g \in Grants, NEW ref \in Authorities, RunAdmitted(r, g, ref)
  PROVE  ConsumptionAttributed'
  <1>1. InRun(r) = {} /\ UNCHANGED attempts
    BY DEF RunAdmitted, Grantable, AttemptsAreOwned, InRun, calls
  <1>2. runs'[r].consumed = [u \in Units |-> 0]
    BY DEF RunAdmitted, NewRun
  <1>3. ASSUME NEW q \in Admitted', q # r
        PROVE  q \in Admitted /\ runs'[q].consumed = runs[q].consumed
    <2>1. q \in Runs /\ runs'[q] = Supersede(q)
      BY <1>3 DEF RunAdmitted, Admitted
    <2>2. q \in Admitted
      BY <1>3, <2>1 DEF Supersede, Admitted, Open
    <2>3. runs[q] \in RunState
      BY <2>2, AdmittedType DEF TypeOK
    <2>. QED BY <2>1, <2>2, <2>3 DEF Supersede, RunState
  <1>. QED BY <1>1, <1>2, <1>3, AccountStays

LEMMA ExtensionKeepsAccount ==
  ASSUME TypeOK, ConsumptionAttributed,
         NEW x \in Allowances, NEW ref \in Authorities, RunExtended(x, ref)
  PROVE  ConsumptionAttributed'
  <1>1. head \in Admitted /\ runs[head] \in RunState /\ UNCHANGED attempts
    BY AdmittedType DEF RunExtended, Extendable, TypeOK, calls, Open
  <1>. DEFINE more == [u \in Units |-> runs[head].allowance[u] + x[u]]
              bigger == [runs[head] EXCEPT !.allowance = more]
  <1>2. runs' = [runs EXCEPT ![head] = bigger]
    BY DEF RunExtended
  <1>. HIDE DEF more
  <1>3. bigger.consumed = runs[head].consumed
    BY <1>1 DEF RunState
  <1>. HIDE DEF bigger
  <1>4. \A r \in Admitted' : r \in Admitted /\ runs'[r].consumed = runs[r].consumed
    BY <1>1, <1>2, <1>3 DEF Admitted, TypeOK
  <1>. QED BY <1>1, <1>4, AccountStays

(* A call is charged when it is reserved.                                   *)
LEMMA StartKeepsAccount ==
  ASSUME TypeOK, ConsumptionAttributed, Autonomy,
         NEW i \in Invocations, NEW a \in Starts, AttemptStarted(i, a)
  PROVE  ConsumptionAttributed'
  <1>1. head \in Admitted /\ head \in Runs /\ runs[head] \in RunState
    BY AdmittedType DEF AttemptStarted, GrantAdmits, TypeOK, Open
  <1>2. i \notin Started /\ Started' = Started \cup {i} /\ Finished' = Finished
    BY DEF AttemptStarted, TypeOK, Started, Finished, Outcomes
  <1>3. /\ attempts'[i].start = a /\ attempts'[i].run = head
        /\ \A j \in Started : attempts'[j] = attempts[j]
    BY <1>2 DEF AttemptStarted, TypeOK, Started
  <1>4. runs' = [runs EXCEPT ![head] = Charged(runs[head], a)]
    BY DEF AttemptStarted
  <1>5. /\ Charged(runs[head], a).consumed
             = [u \in Units |-> runs[head].consumed[u] + Charges(a)[u]]
        /\ Charged(runs[head], a).closed = runs[head].closed
    BY <1>1 DEF Charged, RunState
  <1>6. Admitted' = Admitted
    BY <1>1, <1>4, <1>5 DEF Admitted, TypeOK
  <1>. SUFFICES ASSUME NEW r \in Admitted, NEW u \in Units
                PROVE  runs'[r].consumed[u]
                         = SumFunctionOnSet([j \in InRun(r)' |-> Cost(j, u)'], InRun(r)')
    BY <1>6 DEF ConsumptionAttributed, SumFunction
  <1>. DEFINE old == Costs(r, u)
              new == [j \in InRun(r)' |-> Cost(j, u)']
              S   == InRun(r)
  <1>7. runs[r].consumed[u] = SumFunctionOnSet(old, S) /\ IsFiniteSet(S)
    BY AccountIsSum, InRunIsFinite
  <1>8. ASSUME NEW j \in S
        PROVE  j \in InRun(r)' /\ new[j] = old[j] /\ old[j] \in Int
    <2>1. j \in Started /\ j \in InRun(r)'
      BY <1>2, <1>3 DEF InRun
    <2>2. Cost(j, u)' = Cost(j, u)
      BY <1>2, <1>3, <2>1 DEF Cost
    <2>3. Cost(j, u) \in Int
      BY <2>1, CostType
    <2>. QED BY <2>1, <2>2, <2>3 DEF Costs
  <1>9. CASE r # head
    <2>1. InRun(r)' = S
      BY <1>2, <1>3, <1>9 DEF InRun
    <2>2. runs'[r] = runs[r]
      BY <1>1, <1>4, <1>9 DEF Admitted, TypeOK
    <2>. HIDE DEF old, new, S
    <2>3. SumFunctionOnSet(new, S) = SumFunctionOnSet(old, S)
      BY <1>7, <1>8, SumsAgree
    <2>. QED BY <1>7, <2>1, <2>2, <2>3 DEF new
  <1>10. CASE r = head
    <2>1. InRun(r)' = S \cup {i} /\ i \notin S
      BY <1>2, <1>3, <1>10 DEF InRun
    <2>2. runs'[r].consumed[u] = runs[r].consumed[u] + Charges(a)[u]
      BY <1>1, <1>4, <1>5, <1>10 DEF TypeOK
    <2>3. new[i] = Charges(a)[u]
      BY <1>2, <1>3, <2>1 DEF Cost, Finished, Started, Outcomes
    <2>4. Charges(a)[u] \in Nat
      BY <1>1, ChargeType
    <2>. HIDE DEF old, new, S
    <2>5. SumFunctionOnSet(new, S) = SumFunctionOnSet(old, S)
      BY <1>7, <1>8, SumsAgree
    <2>6. \A j \in S \cup {i} : new[j] \in Int
      BY <1>8, <2>3, <2>4
    <2>7. /\ SumFunctionOnSet(new, S) \in Int
          /\ SumFunctionOnSet(new, S \cup {i}) = new[i] + SumFunctionOnSet(new, S)
      BY <1>7, <2>1, <2>6, SumOfMore
    <2>8. runs'[r].consumed[u] = SumFunctionOnSet(new, S \cup {i})
      BY <1>7, <2>2, <2>3, <2>4, <2>5, <2>7
    <2>. QED BY <2>1, <2>8 DEF new
  <1>. QED BY <1>9, <1>10

(* A settled call costs its final seconds in place of the reservation.      *)
LEMMA FinishKeepsAccount ==
  ASSUME TypeOK, AttemptsAreOwned, ConsumptionAttributed, Autonomy,
         NEW i \in Invocations, NEW o \in Outcomes, NEW n \in Measures, AttemptFinished(i, o, n)
  PROVE  ConsumptionAttributed'
  <1>. DEFINE q == attempts[i].run
              k == attempts[i].start.seconds
  <1>1. i \in Started /\ i \notin Finished /\ attempts[i] \in AttemptState
    BY DEF AttemptFinished, Unfinished, Finished, Outcomes, Started, TypeOK, NoAttempt
  <1>2. q \in Admitted /\ q \in Runs /\ runs[q] \in RunState
    BY <1>1, AdmittedType DEF AttemptsAreOwned, TypeOK, Admitted
  <1>3. k \in Nat /\ n \in Nat
    BY <1>1, BoundAssumption DEF AttemptState, Starts, Measures
  <1>4. /\ attempts'[i].phase = o /\ attempts'[i].start = attempts[i].start
        /\ attempts'[i].run = q /\ attempts'[i].measured = n
        /\ \A j \in Invocations \ {i} : attempts'[j] = attempts[j]
    BY <1>1 DEF AttemptFinished, TypeOK, AttemptState
  <1>5. Started' = Started /\ Finished' = Finished \cup {i}
    BY <1>1, <1>4 DEF Started, Finished, Outcomes
  <1>6. runs' = [runs EXCEPT ![q] = Settled(runs[q], o, k, n)]
    BY DEF AttemptFinished
  <1>. DEFINE final == FinalSeconds(o, k, n)
              spent == [runs[q].consumed EXCEPT !["seconds"] = @ + final - k]
              paid  == [runs[q] EXCEPT !.consumed = spent]
              state == IF n > k THEN "overrun" ELSE runs[q].closed
  <1>7. final \in Nat
    BY <1>3 DEF FinalSeconds
  <1>8. runs[q].consumed \in [Units -> Int]
    BY <1>2 DEF RunState
  <1>9. /\ \A u \in Units \ {"seconds"} : spent[u] = runs[q].consumed[u]
        /\ spent["seconds"] = runs[q].consumed["seconds"] + final - k
    BY <1>8 DEF Units
  <1>10. Settled(runs[q], o, k, n) = [paid EXCEPT !.closed = state]
    BY DEF Settled
  <1>11. spent \in [Units -> Int]
    BY <1>3, <1>7, <1>8 DEF Units
  <1>. HIDE DEF final, spent, state
  <1>12. paid \in RunState /\ paid.consumed = spent
    BY <1>2, <1>11 DEF RunState
  <1>. HIDE DEF paid
  <1>13. /\ Settled(runs[q], o, k, n).consumed = spent
         /\ Settled(runs[q], o, k, n).closed = state
    BY <1>10, <1>12 DEF RunState
  <1>14. state # "absent" /\ runs[q].closed # "absent"
    BY <1>2 DEF state, RunState, Closures
  <1>15. Admitted' = Admitted
    BY <1>2, <1>6, <1>13, <1>14 DEF Admitted, TypeOK
  <1>. SUFFICES ASSUME NEW r \in Admitted, NEW u \in Units
                PROVE  runs'[r].consumed[u]
                         = SumFunctionOnSet([j \in InRun(r)' |-> Cost(j, u)'], InRun(r)')
    BY <1>15 DEF ConsumptionAttributed, SumFunction
  <1>. DEFINE old == Costs(r, u)
              new == [j \in InRun(r)' |-> Cost(j, u)']
              S   == InRun(r)
  <1>16. runs[r].consumed[u] = SumFunctionOnSet(old, S) /\ IsFiniteSet(S)
    BY AccountIsSum, InRunIsFinite
  <1>17. InRun(r)' = S
    BY <1>4, <1>5 DEF InRun, Started
  <1>18. ASSUME NEW j \in S, j # i \/ u # "seconds"
         PROVE  new[j] = old[j]
    <2>1. attempts'[j].start = attempts[j].start /\ (j # i => attempts'[j] = attempts[j])
      BY <1>4, <1>18 DEF InRun, Started
    <2>2. Cost(j, u)' = Cost(j, u)
      BY <1>5, <1>18, <2>1 DEF Cost
    <2>. QED BY <1>17, <2>2 DEF Costs
  <1>19. ASSUME NEW j \in S
         PROVE  old[j] \in Int
    BY CostType DEF Costs, InRun
  <1>20. CASE r # q \/ u # "seconds"
    <2>1. i \in S => u # "seconds"
      BY <1>20 DEF InRun
    <2>2. \A j \in S : new[j] = old[j]
      BY <1>18, <2>1
    <2>3. runs'[r].consumed[u] = runs[r].consumed[u]
      BY <1>2, <1>6, <1>9, <1>13, <1>20 DEF TypeOK, Admitted
    <2>. HIDE DEF old, new, S
    <2>4. SumFunctionOnSet(new, S) = SumFunctionOnSet(old, S)
      BY <1>16, <2>2, SumsAgree
    <2>. QED BY <1>16, <1>17, <2>3, <2>4 DEF new
  <1>21. CASE r = q /\ u = "seconds"
    <2>1. i \in S
      BY <1>1, <1>21 DEF InRun
    <2>2. old[i] = k
      BY <1>1, <1>21, <2>1 DEF Costs, Cost, Charges
    <2>3. new[i] = final
      BY <1>4, <1>5, <1>17, <1>21, <2>1 DEF Cost, final
    <2>4. \A j \in S : old[j] \in Int /\ new[j] \in Int
      BY <1>7, <1>18, <1>19, <2>3
    <2>5. \A j \in S \ {i} : old[j] = new[j]
      BY <1>18
    <2>6. runs'[r].consumed[u] = runs[r].consumed[u] + final - k
      BY <1>2, <1>6, <1>9, <1>13, <1>21 DEF TypeOK
    <2>. HIDE DEF old, new, S
    <2>7. SumFunctionOnSet(new, S) = SumFunctionOnSet(old, S) + new[i] - old[i]
      BY <1>16, <2>1, <2>4, <2>5, SumWithChange
    <2>. QED BY <1>16, <1>17, <2>2, <2>3, <2>6, <2>7 DEF new
  <1>. QED BY <1>20, <1>21

LEMMA AccountStep ==
  ASSUME TypeOK, AttemptsAreOwned, GrantInv', ConsumptionAttributed, [Next]_vars
  PROVE  ConsumptionAttributed'
  <1>1. CASE UNCHANGED <<attempts, runs>>
    BY <1>1, AccountStays DEF Admitted
  <1>2. CASE ~Autonomy
    BY <1>2 DEF GrantInv, ConsumptionAttributed
  <1>3. CASE \/ \E s \in Slices : Prompt(s) \/ Reopened(s) \/ Resolved(s)
             \/ \E s \in Slices, b \in BOOLEAN : Coded(s, b) \/ Verified(s, b)
             \/ \E s \in Slices, v \in Verdicts : Reviewed(s, v)
             \/ \E m \in Milestones, v \in Verdicts, S \in SUBSET Slices :
                  HolisticReviewed(m, v, S)
             \/ \E m \in Milestones : ResolvedGate(m)
             \/ \E op \in Operations, retain \in BOOLEAN : CommitCancelled(op, retain)
             \/ \E i \in Invocations : ReviewCheckpoint(i)
             \/ \E m \in Milestones, label \in Statuses : Relabel(m, label)
             \/ UNCHANGED vars
    BY <1>1, <1>3 DEF Prompt, Reopened, Resolved, Coded, Verified, Reviewed, HolisticReviewed,
                ResolvedGate, CommitCancelled, ReviewCheckpoint, Relabel, grants, calls, vars
  <1>4. ASSUME NEW s \in Slices, NEW op \in Operations \cup {None}, Accepted(s, op)
        PROVE  ConsumptionAttributed'
    <2>1. s \in Scopes /\ UNCHANGED attempts /\ CloseAtBoundary(s)
      BY <1>4 DEF Accepted, Scopes, calls
    <2>. QED BY <2>1, BoundaryKeepsAccount
  <1>5. ASSUME NEW m \in Milestones, NEW op \in Operations \cup {None}, MilestoneDone(m, op)
        PROVE  ConsumptionAttributed'
    <2>1. m \in Scopes /\ UNCHANGED attempts /\ CloseAtBoundary(m)
      BY <1>5 DEF MilestoneDone, Scopes, calls
    <2>. QED BY <2>1, BoundaryKeepsAccount
  <1>. QED BY <1>2, <1>3, <1>4, <1>5, StartKeepsAccount, FinishKeepsAccount, GrantKeepsAccount,
              ExtensionKeepsAccount DEF Next

(* What a run has consumed is what its calls cost: none is charged twice,   *)
(* refunded or forgotten, over retries, crashes and late settlements        *)
(* (_start, apply).                                                         *)
THEOREM ConsumptionIsAccounted == Spec => []ConsumptionAttributed
  <1>1. Init => ConsumptionAttributed
    BY DEF Init, ConsumptionAttributed, Admitted, NoRun
  <1>2. /\ TypeOK /\ AttemptsAreOwned /\ GrantInv' /\ ConsumptionAttributed /\ [Next]_vars
        => ConsumptionAttributed'
    BY AccountStep
  <1>3. RunInv => GrantInv
    BY DEF RunInv
  <1>. QED BY <1>1, <1>2, <1>3, RunsHold, PTL DEF Spec
=============================================================================
