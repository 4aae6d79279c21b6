------------------------------- MODULE Ledger -------------------------------
(***************************************************************************)
(* The append-only project ledger of frutlups as a state machine.          *)
(*                                                                         *)
(* src/src/frutlups/ledger.py folds a history of events into a             *)
(* ProjectState; an event is admitted only when the fold of the extended   *)
(* history succeeds.  The variables are the folded state, every action is  *)
(* one admitted event, its guard the conditions `_need` of that event.     *)
(* With the autonomy/1 profile (_autonomy.py) run grants, their allowances *)
(* and the charges of attempts are folded together with the lifecycle.     *)
(*                                                                         *)
(* Nothing is assumed here about who appends, or when: the writers of the  *)
(* runner add guards of their own; humans and the manual template may      *)
(* append whatever the fold admits.                                        *)
(*                                                                         *)
(* Paths, digests, timestamps, texts and actors are left out.  Evidence is *)
(* represented by the round it was recorded in; 0 is the round "holistic". *)
(* Events that change nothing modelled here (note, stop, artifact) are     *)
(* stutters.                                                               *)
(***************************************************************************)
EXTENDS Integers, FiniteSets, FiniteSetsExt

CONSTANTS
  Milestones,      \* milestones of the roadmap
  Slices,          \* slices of the roadmap
  MilestoneOf,     \* the milestone each slice belongs to
  Position,        \* roadmap order: position of each slice
  HolisticReview,  \* the milestones declared with holistic_review
  Autonomy,        \* whether the roadmap declares the autonomy/1 profile
  Invocations,     \* identities of attempts
  Contracts,       \* contract digests an attempt may be bound to
  Runs,            \* identities of run grants
  Authorities,     \* sets of authority references a grant may cite
  Allowances,      \* allowances a grant or an extension may give
  Operations,      \* identities of commit intents
  None             \* no run, no parent, no scope, no operation

CONSTANTS
  MaxRound,        \* bound: the last round a slice may be sent back to
  MaxCeiling,      \* bound: the largest max_corrective_rounds granted
  MaxSeconds,      \* bound: the longest reservation
  MaxMeasured      \* bound: the longest duration measured

Units == {"jobs", "transport_retries", "format_retries", "seconds"}

ASSUME RoadmapAssumption ==
  /\ MilestoneOf \in [Slices -> Milestones]
  /\ Position \in [Slices -> Nat]
  /\ \A s, t \in Slices : Position[s] = Position[t] => s = t
  /\ HolisticReview \subseteq Milestones
  /\ Slices \cap Milestones = {}
  /\ Autonomy \in BOOLEAN

ASSUME IdentityAssumption ==
  /\ None \notin Slices \cup Milestones
  /\ None \notin Invocations
  /\ None \notin Runs
  /\ None \notin Operations
  /\ IsFiniteSet(Invocations)

ASSUME BoundAssumption ==
  /\ Allowances \subseteq [Units -> Nat]
  /\ MaxRound \in Nat \ {0}
  /\ MaxCeiling \in Nat
  /\ MaxSeconds \in Nat \ {0}
  /\ MaxMeasured \in Nat

Scopes   == Slices \cup Milestones
Holistic == 0

(* What a call is measured at: its usage, or its reservation when it        *)
(* reported none.                                                           *)
Measures == 0..MaxMeasured \cup 1..MaxSeconds

Statuses == {"planned", "active", "done"}
Steps    == {"unstarted", "coding", "verifying", "reviewing", "fix", "blocked",
             "accept_pending", "accepted"}
Gates    == {"none", "fix", "blocked", "close_pending", "reviewing", "done"}
Verdicts == {"pass", "override", "needs_work", "blocked"}
Roles    == {"coder", "reviewer", "holistic", "probe", "verification"}
Retries  == {"initial", "transport", "format"}
Outcomes == {"completed", "failed", "resolved"}
Closures == {"open", "superseded", "boundary", "overrun"}

VARIABLES
  status,       \* milestone labels of roadmap.yaml, edited by people
  slices,       \* lifecycle of each slice
  done,         \* milestones closed by milestone_done
  holistic,     \* holistic gate of each milestone
  attempts,     \* attempt_started / attempt_finished, by invocation
  checkpoints,  \* invocations with a review_checkpoint
  intents,      \* scope approved with each commit intent, None when unused
  cancelled,    \* commit intents withdrawn by commit_cancelled
  runs,         \* run grants with their accounting
  head,         \* the current run
  granted       \* authority references already used by a grant

lifecycle == <<slices, done, holistic>>
calls     == <<attempts, checkpoints>>
commits   == <<intents, cancelled>>
grants    == <<runs, head, granted>>
vars      == <<status, lifecycle, calls, commits, grants>>

-----------------------------------------------------------------------------
(* The folded records *)

(* last_prompt, last_receipt, last_report: the round of the evidence, 0 for *)
(* none and for a holistic report.  corrective: corrective_rounds_used.     *)
SliceState ==
  [step: Steps, round: Nat, reopened: BOOLEAN, corrective: Nat,
   last_prompt: Nat, last_receipt: Nat, last_report: Nat]

NewSlice ==
  [step |-> "unstarted", round |-> 1, reopened |-> FALSE, corrective |-> 0,
   last_prompt |-> 0, last_receipt |-> 0, last_report |-> 0]

(* covers: the rounds the slices were in when the gate was reviewed.        *)
GateState == [step: Gates, covers: [Slices -> Nat]]
NoGate    == [step |-> "none", covers |-> [s \in Slices |-> 0]]

(* What attempt_started may say: only retries have a parent, and the role  *)
(* holistic goes with a milestone and its round (a probe with any scope).   *)
Starts ==
  {a \in [role: Roles, scope: Scopes, round: 0..MaxRound, contract: Contracts,
          retry: Retries, parent: Invocations \cup {None}, seconds: 1..MaxSeconds] :
     /\ (a.retry = "initial") = (a.parent = None)
     /\ a.role # "probe" => /\ (a.role = "holistic") = (a.round = Holistic)
                            /\ (a.role = "holistic") = (a.scope \in Milestones)}

AttemptState ==
  [phase: {"started"} \cup Outcomes, start: Starts, measured: Nat,
   run: Runs \cup {None}, root: Invocations]

NoAttempt == [phase |-> "absent"]

RunState ==
  [milestone: Milestones, slices: SUBSET Slices, stop: Scopes, ceiling: Nat,
   allowance: [Units -> Nat], consumed: [Units -> Int], closed: Closures]

NoRun == [closed |-> "absent"]

Admitted   == {r \in Runs : runs[r].closed # "absent"}
Open(r)    == r \in Admitted /\ runs[r].closed = "open"
Started    == {i \in Invocations : attempts[i].phase # "absent"}
Unfinished == {i \in Invocations : attempts[i].phase = "started"}
Finished   == {i \in Invocations : attempts[i].phase \in Outcomes}

Remaining(run) == [u \in Units |-> run.allowance[u] - run.consumed[u]]

SlicesOf(m)    == {s \in Slices : MilestoneOf[s] = m}
AllAccepted(m) == \A s \in SlicesOf(m) : slices[s].step = "accepted"
LastOf(S)      == {s \in S : \A t \in S : Position[t] <= Position[s]}

(* A milestone label other than "active" may only replay finished history.  *)
HistoryIsValid ==
  \A m \in Milestones :
    (status[m] # "active" /\ \E r \in Admitted : runs[r].milestone = m) =>
      /\ status[m] = "done"
      /\ \A i \in Unfinished : runs[attempts[i].run].milestone # m
      /\ AllAccepted(m)
      /\ m \in HolisticReview => m \in done

-----------------------------------------------------------------------------
(* The lifecycle of a slice *)

(* Every way back to work starts the next round, so that no evidence of an  *)
(* earlier round can be taken for the new one.                              *)
SentBackSameRound(sl) == [sl EXCEPT !.step = "fix"]
SentBackToReview(sl)  == [sl EXCEPT !.step = "reviewing", !.round = @ + 1]
SentBack(sl)          == [sl EXCEPT !.step = "fix", !.round = @ + 1]
Reopen(sl)            == [SentBack(sl) EXCEPT !.reopened = TRUE]

ReopenForFindings(sl) == [Reopen(sl) EXCEPT !.last_report = Holistic]

Prompted(sl) ==
  [sl EXCEPT !.step = "coding", !.last_prompt = sl.round,
             !.corrective = @ + (IF sl.round > 1 THEN 1 ELSE 0)]
CodedAs(sl, implemented) ==
  [sl EXCEPT !.step = IF implemented THEN "verifying" ELSE "blocked"]
VerifiedAs(sl, ok) ==
  LET seen == [sl EXCEPT !.last_receipt = sl.round] IN
    IF ok THEN [seen EXCEPT !.step = "reviewing"] ELSE SentBack(seen)
ReviewedAs(sl, verdict) ==
  LET seen == [sl EXCEPT !.last_report = sl.round] IN
    CASE verdict = "needs_work" -> SentBack(seen)
      [] verdict = "blocked" -> [seen EXCEPT !.step = "blocked"]
      [] OTHER -> [seen EXCEPT !.step = "accept_pending"]
AcceptedAs(sl) == [sl EXCEPT !.step = "accepted", !.reopened = FALSE]

(* The gates after work of milestone m was reopened.                        *)
ReviewAgainUnlessPending(m) ==
  [holistic EXCEPT ![m].step =
     IF @ \in {"none", "close_pending"} THEN @ ELSE "reviewing"]
ReviewAgain(m) ==
  [holistic EXCEPT ![m].step = IF @ = "none" THEN @ ELSE "reviewing"]

(* A commit intent is recorded with the approval that carries it.           *)
Intend(op, scope) ==
  IF op = None THEN UNCHANGED intents
  ELSE intents[op] = None /\ intents' = [intents EXCEPT ![op] = scope]

(* An approval at the stop of the open head run ends the run.               *)
EndsAtSliceOnly(scope) ==
  /\ head # None /\ Open(head)
  /\ scope \in Slices /\ runs[head].stop = scope
Ends(scope) == head # None /\ Open(head) /\ runs[head].stop = scope

CloseAtBoundary(scope) ==
  runs' = IF Ends(scope) THEN [runs EXCEPT ![head].closed = "boundary"] ELSE runs

Prompt(s) ==
  /\ slices[s].step \in {"unstarted", "fix"}
  /\ slices' = [slices EXCEPT ![s] = Prompted(@)]
  /\ UNCHANGED <<status, done, holistic, calls, commits, grants>>
  /\ HistoryIsValid'

Coded(s, implemented) ==
  /\ slices[s].step = "coding"
  /\ slices' = [slices EXCEPT ![s] = CodedAs(@, implemented)]
  /\ UNCHANGED <<status, done, holistic, calls, commits, grants>>
  /\ HistoryIsValid'

Verified(s, ok) ==
  /\ slices[s].step = "verifying"
  /\ ok \/ slices[s].round < MaxRound
  /\ slices' = [slices EXCEPT ![s] = VerifiedAs(@, ok)]
  /\ UNCHANGED <<status, done, holistic, calls, commits, grants>>
  /\ HistoryIsValid'

Reviewed(s, verdict) ==
  /\ slices[s].step = "reviewing"
  /\ verdict = "needs_work" => slices[s].round < MaxRound
  /\ slices' = [slices EXCEPT ![s] = ReviewedAs(@, verdict)]
  /\ UNCHANGED <<status, done, holistic, calls, commits, grants>>
  /\ HistoryIsValid'

Accepted(s, op) ==
  /\ slices[s].step = "accept_pending"
  /\ Intend(op, s)
  /\ CloseAtBoundary(s)
  /\ slices' = [slices EXCEPT ![s] = AcceptedAs(@)]
  /\ UNCHANGED <<status, done, holistic, calls, cancelled, head, granted>>
  /\ HistoryIsValid'

Reopened(s) ==
  /\ slices[s].step = "accepted"
  /\ slices[s].round < MaxRound
  /\ slices' = [slices EXCEPT ![s] = Reopen(@)]
  /\ done' = done \ {MilestoneOf[s]}
  /\ holistic' = ReviewAgain(MilestoneOf[s])
  /\ UNCHANGED <<status, calls, commits, grants>>
  /\ HistoryIsValid'

(* resolved, for a slice *)
Resolved(s) ==
  /\ slices[s].step = "blocked"
  /\ slices[s].round < MaxRound
  /\ slices' = [slices EXCEPT ![s] = SentBack(@)]
  /\ UNCHANGED <<status, done, holistic, calls, commits, grants>>
  /\ HistoryIsValid'

-----------------------------------------------------------------------------
(* The holistic gate of a milestone *)

GateVerdictUnmapped(verdict) ==
  IF verdict \in {"pass", "override"} THEN "close_pending" ELSE verdict
GateVerdict(verdict) ==
  CASE verdict = "needs_work" -> "fix"
    [] verdict = "blocked" -> "blocked"
    [] OTHER -> "close_pending"

(* `affected`: the slices named by the open findings of the report.         *)
HolisticReviewed(m, verdict, affected) ==
  /\ m \in HolisticReview \ done
  /\ AllAccepted(m)
  /\ holistic[m].step \notin {"blocked", "close_pending"}
  /\ affected \subseteq SlicesOf(m)
  /\ verdict \in {"pass", "override"} => affected = {}
  /\ verdict = "needs_work" => /\ affected # {}
                               /\ \A s \in affected : slices[s].round < MaxRound
  /\ holistic' = [holistic EXCEPT
       ![m] = [step |-> GateVerdict(verdict), covers |-> [s \in Slices |-> slices[s].round]]]
  /\ slices' = [s \in Slices |->
       IF verdict = "needs_work" /\ s \in affected
       THEN ReopenForFindings(slices[s]) ELSE slices[s]]
  /\ UNCHANGED <<status, done, calls, commits, grants>>
  /\ HistoryIsValid'

(* resolved, for a milestone *)
ResolvedGate(m) ==
  /\ holistic[m].step = "blocked"
  /\ holistic' = [holistic EXCEPT ![m].step = "reviewing"]
  /\ UNCHANGED <<status, slices, done, calls, commits, grants>>
  /\ HistoryIsValid'

MilestoneDone(m, op) ==
  /\ m \in HolisticReview \ done
  /\ AllAccepted(m)
  /\ holistic[m].step = "close_pending"
  /\ Intend(op, m)
  /\ CloseAtBoundary(m)
  /\ holistic' = [holistic EXCEPT ![m].step = "done"]
  /\ done' = done \cup {m}
  /\ UNCHANGED <<status, slices, calls, cancelled, head, granted>>
  /\ HistoryIsValid'

(* Without `retain` a cancelled commit sends its scope back to work, in     *)
(* whatever step the scope is when the cancellation is folded.              *)
CommitCancelled(op, retain) ==
  /\ intents[op] # None
  /\ op \notin cancelled
  /\ cancelled' = cancelled \cup {op}
  /\ \/ /\ retain
        /\ UNCHANGED lifecycle
     \/ /\ ~retain
        /\ intents[op] \in Slices
        /\ slices[intents[op]].round < MaxRound
        /\ slices' = [slices EXCEPT ![intents[op]] = Reopen(@)]
        /\ done' = done \ {MilestoneOf[intents[op]]}
        /\ holistic' = ReviewAgain(MilestoneOf[intents[op]])
     \/ /\ ~retain
        /\ intents[op] \in Milestones
        /\ done' = done \ {intents[op]}
        /\ holistic' = [holistic EXCEPT ![intents[op]].step = "reviewing"]
        /\ UNCHANGED slices
  /\ UNCHANGED <<status, calls, intents, grants>>
  /\ HistoryIsValid'

-----------------------------------------------------------------------------
(* Attempts: durable reservations of calls *)

(* A retry repeats the binding of its parent, and a format repair is always *)
(* a reading role.                                                          *)
RetryBound(a) ==
  a.parent # None =>
    LET prior == attempts[a.parent].start IN
    /\ a.parent \in Finished
    /\ <<a.scope, a.round, a.contract>> = <<prior.scope, prior.round, prior.contract>>
    /\ a.retry = "transport" => a.role = prior.role
    /\ a.retry = "format" =>
         a.role = IF prior.role \in {"reviewer", "holistic"} THEN prior.role ELSE "probe"
    /\ \A j \in Started :
         ~(attempts[j].start.parent = a.parent /\ attempts[j].start.retry = a.retry)

RootOf(i, a) == IF a.parent = None THEN i ELSE attempts[a.parent].root

(* An attempt is for the work its scope is in.                              *)
WithinCeiling(s, run) == slices[s].corrective <= run.ceiling

RoleReady(a, run) ==
  LET Current(step) == /\ a.scope \in Slices
                       /\ slices[a.scope].step = step
                       /\ slices[a.scope].round = a.round
  IN CASE a.role = "verification" -> Current("verifying") /\ a.parent = None
       [] a.role = "reviewer" -> Current("reviewing")
       [] a.role = "coder" -> Current("coding") /\ WithinCeiling(a.scope, run)
       [] a.role = "holistic" ->
            /\ run.stop = run.milestone
            /\ a.scope = run.milestone
            /\ run.milestone \in HolisticReview
            /\ AllAccepted(run.milestone)
            /\ holistic[run.milestone].step \notin {"blocked", "close_pending", "done"}
       [] OTHER -> TRUE

(* A fresh context is dispatched once in a run; a chain of retries below it *)
(* has one transport and one format retry at most.                          *)
Context(a)   == <<a.scope, a.round, a.role, a.contract>>
InRun(r)     == {i \in Started : attempts[i].run = r}
Chain(root)  == {i \in Started : attempts[i].root = root}

ContextIsFreshUnlessFailed(a) ==
  a.role = "verification" \/
    \A i \in InRun(head) :
      (attempts[i].start.parent = None /\ attempts[i].phase # "failed") =>
        Context(attempts[i].start) # Context(a)
ContextIsFresh(a) ==
  a.role = "verification" \/
    \A i \in InRun(head) : attempts[i].start.parent = None =>
                             Context(attempts[i].start) # Context(a)

RetryLeftBelowParent(a) ==
  /\ attempts[a.parent].run = head
  /\ attempts[attempts[a.parent].root].start.role # "verification"
RetryLeft(a) ==
  /\ attempts[a.parent].run = head
  /\ attempts[attempts[a.parent].root].start.role # "verification"
  /\ \A i \in Chain(attempts[a.parent].root) : attempts[i].start.retry # a.retry

Charges(a) ==
  [u \in Units |-> CASE u = "jobs" -> IF a.role = "verification" THEN 0 ELSE 1
                     [] u = "transport_retries" -> IF a.retry = "transport" THEN 1 ELSE 0
                     [] u = "format_retries" -> IF a.retry = "format" THEN 1 ELSE 0
                     [] OTHER -> a.seconds]

AffordableJobs(a, run) ==
  \A u \in {"jobs", "seconds"} : Charges(a)[u] <= Remaining(run)[u]
Affordable(a, run) == \A u \in Units : Charges(a)[u] <= Remaining(run)[u]

GrantAdmits(a) ==
  /\ head # None
  /\ Open(head)
  /\ LET run == runs[head] IN
       /\ a.scope \in run.slices \cup {run.milestone}
       /\ a.scope \in Slices => slices[a.scope].step # "blocked"
       /\ holistic[run.milestone].step # "blocked"
       /\ RoleReady(a, run)
       /\ IF a.parent = None THEN ContextIsFresh(a) ELSE RetryLeft(a)
       /\ Affordable(a, run)

Charged(run, a) == [run EXCEPT !.consumed = [u \in Units |-> @[u] + Charges(a)[u]]]

AttemptStarted(i, a) ==
  /\ i \notin Started
  /\ Unfinished = {}
  /\ RetryBound(a)
  /\ IF Autonomy THEN GrantAdmits(a) ELSE a.role # "verification"
  /\ attempts' = [attempts EXCEPT
       ![i] = [phase |-> "started", start |-> a, measured |-> 0,
               run |-> head, root |-> RootOf(i, a)]]
  /\ runs' = IF Autonomy THEN [runs EXCEPT ![head] = Charged(@, a)] ELSE runs
  /\ UNCHANGED <<status, lifecycle, checkpoints, commits, head, granted>>
  /\ HistoryIsValid'

(* The seconds an attempt finally costs: a completed one what it took, any  *)
(* other at least its reservation.                                          *)
FinalSeconds(outcome, reserved, measured) ==
  IF outcome = "completed" \/ measured > reserved THEN measured ELSE reserved

SettledTwice(run, outcome, reserved, measured) ==
  [run EXCEPT !.consumed["seconds"] = @ + FinalSeconds(outcome, reserved, measured),
              !.closed = IF measured > reserved THEN "overrun" ELSE @]
Settled(run, outcome, reserved, measured) ==
  [run EXCEPT !.consumed["seconds"] = @ + FinalSeconds(outcome, reserved, measured) - reserved,
              !.closed = IF measured > reserved THEN "overrun" ELSE @]

(* `measured`: the usage reported, or the reservation when none was.        *)
AttemptFinished(i, outcome, measured) ==
  /\ i \in Unfinished
  /\ attempts' = [attempts EXCEPT ![i].phase = outcome, ![i].measured = measured]
  /\ runs' = IF Autonomy
             THEN [runs EXCEPT ![attempts[i].run] =
                     Settled(@, outcome, attempts[i].start.seconds, measured)]
             ELSE runs
  /\ UNCHANGED <<status, lifecycle, checkpoints, commits, head, granted>>
  /\ HistoryIsValid'

ReviewCheckpoint(i) ==
  /\ i \in Started
  /\ attempts[i].phase = "completed"
  /\ attempts[i].start.role \in {"reviewer", "holistic"}
  /\ i \notin checkpoints
  /\ checkpoints' = checkpoints \cup {i}
  /\ UNCHANGED <<status, lifecycle, attempts, commits, grants>>
  /\ HistoryIsValid'

-----------------------------------------------------------------------------
(* Run grants *)

Grants ==
  {g \in [milestone: Milestones, slices: SUBSET Slices \ {{}}, stop: Scopes,
          ceiling: 0..MaxCeiling, allowance: Allowances] :
     g.allowance["jobs"] > 0 /\ g.allowance["seconds"] > 0}

(* A grant cites references no grant cited before, and waits for every      *)
(* reservation to be settled.                                               *)
Grantable(authority) ==
  /\ Autonomy
  /\ authority \notin granted
  /\ Unfinished = {}
  /\ granted' = granted \cup {authority}

StopAhead(g) ==
  IF g.stop = g.milestone THEN g.milestone \in HolisticReview \ done
                          ELSE slices[g.stop].step # "accepted"

Supersede(r) == IF r = head /\ Open(r) THEN [runs[r] EXCEPT !.closed = "superseded"]
                ELSE runs[r]

NewRun(g) ==
  [milestone |-> g.milestone, slices |-> g.slices, stop |-> g.stop, ceiling |-> g.ceiling,
   allowance |-> g.allowance, consumed |-> [u \in Units |-> 0], closed |-> "open"]

RunAdmitted(r, g, authority) ==
  /\ Grantable(authority)
  /\ r \notin Admitted
  /\ status[g.milestone] # "planned"
  /\ g.slices \subseteq SlicesOf(g.milestone)
  /\ g.stop \in LastOf(g.slices) \cup {g.milestone}
  /\ StopAhead(g)
  /\ runs' = [q \in Runs |-> IF q = r THEN NewRun(g) ELSE Supersede(q)]
  /\ head' = r
  /\ UNCHANGED <<status, lifecycle, calls, commits>>
  /\ HistoryIsValid'

ExtendableEvenClosed == head # None
Extendable           == head # None /\ Open(head)

RunExtended(allowance, authority) ==
  /\ Grantable(authority)
  /\ Extendable
  /\ \E u \in Units : allowance[u] > 0
  /\ runs' = [runs EXCEPT ![head].allowance = [u \in Units |-> @[u] + allowance[u]]]
  /\ UNCHANGED <<status, lifecycle, calls, commits, head>>
  /\ HistoryIsValid'

(* People edit the labels of roadmap.yaml; a label the history contradicts  *)
(* makes every command refuse the project until it is put back.             *)
Relabel(m, label) ==
  /\ status[m] # label
  /\ status' = [status EXCEPT ![m] = label]
  /\ UNCHANGED <<lifecycle, calls, commits, grants>>
  /\ HistoryIsValid'

-----------------------------------------------------------------------------
Init ==
  /\ status \in [Milestones -> Statuses]
  /\ slices = [s \in Slices |-> NewSlice]
  /\ done = {}
  /\ holistic = [m \in Milestones |-> NoGate]
  /\ attempts = [i \in Invocations |-> NoAttempt]
  /\ checkpoints = {}
  /\ intents = [op \in Operations |-> None]
  /\ cancelled = {}
  /\ runs = [r \in Runs |-> NoRun]
  /\ head = None
  /\ granted = {}

Next ==
  \/ \E s \in Slices : Prompt(s) \/ Reopened(s) \/ Resolved(s)
  \/ \E s \in Slices, b \in BOOLEAN : Coded(s, b) \/ Verified(s, b)
  \/ \E s \in Slices, v \in Verdicts : Reviewed(s, v)
  \/ \E s \in Slices, op \in Operations \cup {None} : Accepted(s, op)
  \/ \E m \in Milestones, v \in Verdicts, S \in SUBSET Slices : HolisticReviewed(m, v, S)
  \/ \E m \in Milestones : ResolvedGate(m)
  \/ \E m \in Milestones, op \in Operations \cup {None} : MilestoneDone(m, op)
  \/ \E op \in Operations, retain \in BOOLEAN : CommitCancelled(op, retain)
  \/ \E i \in Invocations, a \in Starts : AttemptStarted(i, a)
  \/ \E i \in Invocations, o \in Outcomes, n \in Measures : AttemptFinished(i, o, n)
  \/ \E i \in Invocations : ReviewCheckpoint(i)
  \/ \E r \in Runs, g \in Grants, ref \in Authorities : RunAdmitted(r, g, ref)
  \/ \E x \in Allowances, ref \in Authorities : RunExtended(x, ref)
  \/ \E m \in Milestones, label \in Statuses : Relabel(m, label)

Spec == Init /\ [][Next]_vars

-----------------------------------------------------------------------------
(* Properties *)

(* The folded state has the shape ProjectState gives it.                    *)
TypeOK ==
  /\ status \in [Milestones -> Statuses]
  /\ slices \in [Slices -> SliceState]
  /\ done \in SUBSET Milestones
  /\ holistic \in [Milestones -> GateState]
  /\ attempts \in [Invocations -> AttemptState \cup {NoAttempt}]
  /\ checkpoints \in SUBSET Invocations
  /\ intents \in [Operations -> Scopes \cup {None}]
  /\ cancelled \in SUBSET Operations
  /\ runs \in [Runs -> RunState \cup {NoRun}]
  /\ head \in Runs \cup {None}
  /\ granted \in SUBSET Authorities

(* A slice past the review of its round has the prompt, the receipt and the *)
(* report of that same round: no reopening, resolution or cancellation lets *)
(* evidence of an earlier round carry a slice to acceptance (fold).         *)
AcceptedHasEvidence ==
  \A s \in Slices :
    slices[s].step \in {"accept_pending", "accepted"} =>
      /\ slices[s].last_prompt = slices[s].round
      /\ slices[s].last_receipt = slices[s].round
      /\ slices[s].last_report = slices[s].round

(* A milestone is closed, or about to be, only while every slice of it is   *)
(* accepted, whatever was reopened, cancelled or resolved in between; its   *)
(* gate and the set of closed milestones agree (fold, apply_v2).            *)
ClosureSound ==
  \A m \in Milestones :
    /\ m \in done <=> holistic[m].step = "done"
    /\ holistic[m].step \in {"close_pending", "done"} =>
         m \in HolisticReview /\ AllAccepted(m)

(* A passed gate is about the rounds that are accepted now: no slice was    *)
(* redone after the holistic review that closes the milestone.              *)
GateCoversAcceptedRounds ==
  \A m \in Milestones :
    holistic[m].step \in {"close_pending", "done"} =>
      \A s \in SlicesOf(m) : holistic[m].covers[s] = slices[s].round

(* No run spends more than its grants allow: never more jobs or retries,    *)
(* and more seconds only by the overrun that closes it (_start, apply).     *)
AllowanceRespected ==
  \A r \in Admitted : \A u \in Units :
    \/ runs[r].consumed[u] <= runs[r].allowance[u]
    \/ u = "seconds" /\ runs[r].closed = "overrun"

(* What a run has consumed is what its attempts cost, reservations in       *)
(* flight included: nothing is charged twice, refunded or forgotten.        *)
Cost(i, u) ==
  IF u = "seconds" /\ i \in Finished
  THEN FinalSeconds(attempts[i].phase, attempts[i].start.seconds, attempts[i].measured)
  ELSE Charges(attempts[i].start)[u]

ConsumptionAttributed ==
  \A r \in Admitted : \A u \in Units :
    runs[r].consumed[u] = SumFunction([i \in InRun(r) |-> Cost(i, u)])

(* Only the head run is open, only it has calls in flight, and it still has *)
(* its stop ahead: an accepted stop slice or a closed stop milestone ended  *)
(* the run, whoever reopened it later (_grant, apply).                      *)
OpenRunIsHeadWithWorkAhead ==
  \A r \in Admitted :
    /\ (Open(r) \/ Unfinished \cap InRun(r) # {}) => r = head
    /\ Open(r) => /\ runs[r].stop \in Slices => slices[runs[r].stop].step # "accepted"
                  /\ runs[r].stop \notin done

(* A failed dispatch is repeated at most once per kind, as a retry of the   *)
(* same run, scope, round and contract, and never a coder's as a format     *)
(* repair: a chain has three calls at most (_start, apply_v2).              *)
ChainIsBounded ==
  Autonomy =>
    \A i, j \in Started :
      attempts[i].root = attempts[j].root =>
        /\ attempts[i].run = attempts[j].run
        /\ <<attempts[i].start.scope, attempts[i].start.round, attempts[i].start.contract>>
             = <<attempts[j].start.scope, attempts[j].start.round, attempts[j].start.contract>>
        /\ attempts[i].start.retry = attempts[j].start.retry => i = j

(* Within a run one bound context of a role is sent afresh only once: a     *)
(* restarted runner cannot dispatch the same coder round again (_start).    *)
ContextSentOnce ==
  \A i, j \in Started :
    (/\ attempts[i].run = attempts[j].run /\ attempts[i].run # None
     /\ attempts[i].start.parent = None /\ attempts[j].start.parent = None
     /\ Context(attempts[i].start) = Context(attempts[j].start)
     /\ attempts[i].start.role # "verification") => i = j

(* A round is prompted at most once, so that the evidence of a round        *)
(* belongs to a single dispatch of the coder (fold, prompt).                *)
RoundPromptedOnce ==
  [][\A s \in Slices :
       (slices[s].step # "coding" /\ slices'[s].step = "coding") =>
         slices'[s].last_prompt > slices[s].last_prompt]_vars

(* A run that was closed stays closed and is neither extended nor spent     *)
(* from again, except to settle a call in flight (_grant, _start).          *)
ClosedRunStaysClosed ==
  [][\A r \in Admitted : ~Open(r) =>
       /\ ~Open(r)' /\ r \in Admitted'
       /\ runs'[r].allowance = runs[r].allowance
       /\ InRun(r)' = InRun(r)]_vars

=============================================================================
