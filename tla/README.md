# frutlups in TLA+

frutlups runs coding and review agents ("seats") over a roadmap of slices and
milestones. Everything it knows is an append-only ledger of events; everything it
approves becomes exactly one Git commit. This directory holds TLA+ models of that
program, TLC configurations that check them on small instances, and theorems that
TLAPS checks for all instances.

Source paths below are relative to `src/src/frutlups/`.

## The system

| Part | State it keeps | Operations | Talks to |
|---|---|---|---|
| Ledger fold: `ledger.py`, `_autonomy.py` | per slice: step, round, evidence; per milestone: gate; attempts, checkpoints, intents, run grants | `fold`, `validate_history`, one transition per event | read by every part before every decision |
| Ledger writers: `ledger.py` `_append_*` | the file | guarded appends of the runner's own events | lock, commit operations (`require_idle`), evidence files |
| Commit operations: `commit.py` | manifest files, an in-flight marker, index and HEAD of the repository | `approve`, `recover`, `cancel`, `resolve_inflight`, `status` | ledger, Git child processes |
| Writer ownership: `ownership.py` | a lock file, two tables of the process | `writer_lock` | everything that writes |
| Runner loop: `loop.py`, `_attempts.py` | none that is durable: prompts, reports and results are files | one transition of one slice or gate per iteration | ledger, seats, verification, commit operations |
| Admission: `_preflight.py` | none | checks, probes of seats, the project checker | ledger, seats, commit recovery |
| Findings: `findings.py`, `verdict.py` | `backlog.md`, a projection of the ledger | `combined_review`, `Projection.add`, `reconcile` | ledger, admission |
| Git workspace: `gitws.py` | none: working tree, index and HEAD are Git's | changed files, fence, witness, blobs | runner, admission, commit operations |
| Owned processes: `procs.py` | child process tree, drain threads | launch, time out, kill | seats, verification, Git |
| Seats: `seats/` | a stream parser | run one job, parse its events | owned processes |
| Roadmap: `roadmap.py` | none | load, validate, next slice and milestone | ledger fold |
| Evidence, receipts, verdicts: `_loop_evidence.py`, `receipt.py`, `verdict.py` | evidence files | no-progress test, merge of reviews, receipts | runner |
| Rendering, configuration, paths, runtime, historical assessment, command line | none | formatting and input checks | runner |

### What is hard about it

* **Many ways back to work.** A slice goes back by a failed verification, a review,
  holistic findings, a reopening, a resolution of a blocker, or the cancellation of
  its commit, in whatever step it is then. Evidence of an earlier round and gates
  reviewed before must never survive that.
* **Money.** Calls are reserved before they are made, and settled afterwards at a
  cost that may exceed the reservation. Retries hang below each other. A crash must
  neither refund nor repeat a call.
* **Crashes around Git.** Between an approval and its commit there are six durable
  steps. Git is a child process that outlives a writer that dies.
* **Other people.** They move HEAD, stage, commit and edit payloads while an
  approval is pending; they cancel while a commit may still land.
* **One lock, several threads, linked worktrees,** re-entered in every order.
* **Findings that several parties name, close and reopen.** Seats review without
  knowing of each other, the gate reports about slices that have passed, and an index
  is updated in place by every report.
* **Pipes and descendants.** Chunks end anywhere, threads are joined for a few seconds,
  a descendant may leave the session and write on.
* **One tree for all.** Several slices and people change, delete and restore the same
  files; what a round changed is the comparison of Git, a recorded baseline, and what
  the slice claimed before.

### What would make each part correct

* Fold: evidence and acceptance are of one round; a closed milestone is closed
  over the slices accepted now; rounds are prompted once.
* Grants: allowance, accounting, finality of a closed run, bounded retry chains,
  no second fresh call.
* Commit operations: one witness or a cancellation, never both; the ledger is
  frozen while one is pending; recovery needs no human unless somebody interfered.
* Lock: exclusion, coverage of every frame, no leak.
* Runner: a crash between any two durable writes repeats no seat call and no
  verification, and what was finished is recorded by the next run.
* Admission: a probe per seat context of a run; nothing after STOP.
* Findings: nothing passes while something of it is open; the merge loses no finding;
  the projection catches up with the ledger after any crash.
* Processes: a call returns after its deadline and leaves no child; it completes only
  with the whole output of processes that are gone.
* Workspace: reviewers see every change, an approval commits what they saw and nothing
  of other people, and the runner never refuses the tree it left itself.

## The modules

```
Ledger ----------- LedgerProofs          the fold and the run grants:
   |     |               |               what a run may spend, when a milestone closes
   |   MCLedger          |               evidence, chains, accounts; 2 configurations
   |                     |
Runner ----------- RunnerProofs          the runner over the ledger
   |
MCRunner                                 4 configurations

Approval <-------- CommitIntent ---- CommitIntentProofs
                      |                  what an approval promises, and how it is kept
                   MCCommitIntent        1 configuration

WriterLock ------- WriterLockProofs      the reentrant lock
   |
MCWriterLock                             1 configuration

Findings --------- FindingsProofs        reports, projection, backlog
   |
MCFindings                               2 configurations

SeatPromise <----- SeatCall -------- SeatCallProofs ---- FoldFacts
                   |      |              what a call of a child promises, and how
                MCSeatCall PiStream      run_process and its callers keep it;
                                         1 configuration

Product ---------- ProductProofs         the tree, what is claimed, shown and committed
   |
MCProduct                                1 configuration
```

`A <-- B` is a refinement: B has the abstract specification A as a property.

### Ledger

The variables are the folded `ProjectState`; each action is one event, its guard
the `_need` conditions of that event, in `ledger.py:fold`, `apply_v2` and, with
the `autonomy/1` profile, `_autonomy.py`. Nothing is assumed about who appends:
people append with the manual template whatever the fold admits, so the model
checks the fold itself and not the good behaviour of the runner.

| Code | Model |
|---|---|
| `states[sid]` | `slices[s]`; `last_prompt`, `last_receipt`, `last_report` hold the round of the evidence instead of its path |
| `done`, `extras["holistic"]` | `done`, `holistic[m]`; `covers` records the rounds the gate reviewed |
| `extras["attempts"]`, `["checkpoints"]` | `attempts`, `checkpoints` |
| `extras["intents"]`, `["cancelled"]` | `intents`, `cancelled` |
| `extras["runs"]`, `["run_head"]` | `runs`, `head`; `granted` holds the authority references used |
| labels in `roadmap.yaml` | `status`, edited by `Relabel` |

A call is settled at what it took (`Measures`), which may be more than was reserved, or at
its reservation.

`HistoryIsValid` is the final check of every fold (`validate_history` of
`_autonomy.py`): an event, or a label, that breaks it is refused, and so it is the
last conjunct of every action, primed.

### Runner

`Runner` is `loop.py` with `_attempts.py`, the guarded writers of `ledger.py` and the
probes of `_preflight.py`. It EXTENDS `Ledger`: every action that appends conjoins the
action of `Ledger` for that event, under the stricter guards of the runner, and adds
what the runner keeps outside the folded state.

| Code | Model |
|---|---|
| the process inside `writer_lock` | `at` is where it is, `call` the invocation it is about, `heard` what the coder reported, `probed` the inverse of `_probe_pending`; all are lost in `Crash` |
| the last line of the ledger | `last`, as far as a writer looks at it: the finish `verified` must follow, the dispatch `coded` must follow, the proof `reviewed` must follow |
| receipts, results, reports | `evidence`: what the file of an invocation says; of a suite that failed, which of `Failures` |
| files written, event not yet appended | `loose` |
| `artifact` events | `recorded` |
| coding markers under `local_state/` | `marked` |
| working tree, and what the ledger holds of it | `product`, `accounted` |
| the digest of `_binding` | `Bound`: the seat, the product and the prompts issued in the scope |
| `_profile_workspace_errors` | `Clean` |
| `_profile_gate`, `_admitted_item` | `MayWork` |

An action is a step between two durable writes or a call of a seat, so that `Crash` may
come between any two. A round of coding is `IssueFiles`, `AppendPrompt`, `Ready`, the
probes, `Mark`, `WriteStarted`, `RecordStarted`, `CallCoder`, `CoderReturns`,
`WriteOutcome`, `RecordDispatch`, `AppendCoded`; verification is `CallTests`,
`TestsReturn`, `SettleTests` or, for what an earlier process settled, `ReuseTests`, then
`AppendVerified`; a review is `Present`, `RecordPackage`, for each seat `CallReviewer`,
`ReviewerReturns`, `SettleReview`, `AppendCheckpoint`, and for the merge `WriteMerge`,
`RecordReport`, `RecordProof`, `AppendReviewed`, or `Adopt` for files a crash left. The
`Refuse...` actions and `Return` end the process.

`Begin` has two entries. The public `run` passes the admission, which refuses a working
tree with a change no event accounts for; the tests of the repository enter by the loop
itself. `Preflight` is the command of that name, which probes as well.

Two failures are the same when their receipts show the same exit, timeout, output tails,
runtime and observation, on the same product: a member of `Failures` stands for all of
that, the product is in the contract of the call. A receipt whose output was cut, or
which lacks what is compared, is of a failure in `Inconclusive`, and equal to none; so is
an unstable run. `NoProgress` (`no_progress`) therefore lets the rounds go on after
failures that differ, after those it cannot tell apart, and after those of different
products.

People act while no process runs. They grant and extend runs, resolve blocked slices,
attribute an unfinished call, edit the product, and remove unrecorded files, with or
without those Git ignores (`Tidy`). Their actions are external: the code says only what
it refuses. A round whose coder failed stays in `coding` and is left to people.

### Approval and CommitIntent

`Approval` is the promise: an approval is pending, then completed or cancelled,
and stays so. `CommitIntent` is how `commit.py` keeps it. One action is one step
between two durable writes: the manifest (`RequestIntent`), the ledger line
(`AppendApproval`, refused when HEAD, the ledger or another operation moved
meanwhile), the marker (`Recover`), `git add` and `git commit` as a child process
of its own (`DispatchAdd`, `AddStages`, `DispatchCommit`, `CommitLands`), the check
of the exact candidate between them (`CheckCandidate`), and the archive of the
marker (`Finish`, `ArchiveCompleted`). `Crash` ends the writer and not the child.
`GitFails` may leave `index.lock`. `Interfere` is everybody else: HEAD moves,
somebody commits, stages, unstages or edits. `Attribute`, `RemoveLock` and
`Cancel` are what a human may do about it. Completion is not a variable: as in the
code, `Standing` derives it from the commits. Of the ledger that is frozen while an
operation is pending, `Approval` observes the decisions: that none is lost or made twice.
Other events are refused by the same guard (`require_idle`) and are not in its variables.

### WriterLock

`writer_lock` in the two guarded sections the code has, with `git rev-parse`
between them (`Ask`, then `EnterNested`, `EnterOuter` or `Refuse`), `Leave` for
its `finally`, and `Die` for the end of a process.

### Findings

The reports of the seats of a slice are retained (`Retain`), merged (`Combined`, which
is `combined_review`) and recorded with the line of a decision (`DecideSlice`); the
gate records its report first (`FileGate`) and then decides (`DecideGate`). Each
recorded report goes through `Projection.add` (`Add`) and, when it passes, through
`require_closure` (`Closed`).

| Code | Model |
|---|---|
| `Projection.findings`, keyed by report and name | `findings`, keyed by the number of the report and the name |
| `open`, `open_by_scope`, `ids` | the same |
| `current_open` of `validate_history` | `current_open` |
| names with the suffix of a seat | a sequence of a base name and the seat |
| the marked region of `backlog.md`; what HEAD and the last baseline hold of it | `backlog`, `committed`, `baselined` |
| the temporary file of `reconcile` | `temporary` |

The region is replaced in two steps (`Reconcile`, `Replace`), with `Crash` and
`ReplaceFails` between them. `Begin` has the two entries that `Runner` has. People
resolve a blocked scope, commit, damage and repair the region, and remove the temporary
file. Two things the model makes visible and that are as the code has them: a pass that
leaves an earlier finding open is refused, and refused again at every further run, until
people decide; and the pass of another slice may reopen a finding of a slice that is
accepted already, which only the gate then catches.

Left out: waivers and overrides by people, related names, summaries.

### SeatPromise, SeatCall and PiStream

`SeatCall` is one call of `run_process` by one of its three callers, with the thread
that drains the pipe. `Running` is what the processes do, `Draining` the thread,
`Calling` the parent: `Launch`, then `WaitEnds` or `Deadline` with its `Kill`, `Reap`,
`Join` and `Answer`, each of which may fail. The thread may hand on any number of units
at a time, and may still read when the parent goes on. `PiStream` is `seats/pi.py`
`_Stream`, function by function (`feed`, `record`, `outcome`, `completeness`), and the
parser of the Claude seat (`Document`). `SeatPromise` says what a caller may rely on, in
terms of the whole output, which the parent never sees.

Left out: the job objects of Windows, the file for input, the times, and a kill that fails
for another reason than that the group is gone (`procs.py:281-289`); `SessionEnds` is
about kills that work. Both pipes hold as long as a process does, so the second drain is
folded into the first.

### Product

| Code | Model |
|---|---|
| working tree, HEAD | `disk`, `head` |
| rows of `changed_files` | `Changes`: the kind and what digest it names, as `changed_files` has it (of a deleted file, the one in HEAD) |
| the last row of a path over baselines, changes and manifests (`_profile_workspace_errors`) | `recorded` |
| the last row over coded rounds (`ledger.check`, `approve`) | `latest` |
| `cumulative` of `_coding_slice`, the manifest | `claims` |
| `current.baseline` | `baseline` |
| witness of a receipt | `tested` |
| what the process is in the middle of | `work`: where it is, the scope, the witness it holds (`seen`), the payload it has read |
| rows a prompt was the first to record | `found` |
| what others wrote between a comparison and its use | `unchecked`, `uncompared` (history) |
| approvals without a commit, by policy or by a cancellation that retains them | `bare` (history) |

`RowOf` is a row of Git's comparison, `Over` the update of one map of rows by another.
What the code compares, and what it reads again later, are steps of their own:

* A round is `Prompt`; `Start`, which records the start (`loop.py:835`); `Check`, the
  comparison of the tree in `_call` (263), a refusal of which (`Stop`) leaves a start
  without a call; `Call`, the witness (299), after the dispatch file, the binding and the
  reservation; `CoderReturns` with the fence and the protected paths; `CoderRetries`,
  which goes back to the check after a transport failure without an edit; `Observe`,
  which computes what the round changed (`Fresh`, `Undone`, `Redone`); and `Record`,
  after a last comparison.
* Verification is `Test`, the check, and `Verify`, the suite on the tree as it is then.
  Reviews need the tree as it was recorded and tested.
* An approval is `Compare`, the active product drift; then `Accept`, without a commit; or
  `Capture`, which reads the files again for the payload, `Append`, which binds payload
  and parent and looks only at the ledger and HEAD, and `Commit` or `Cancel`. The steps of
  Git are in `CommitIntent`.

People edit and commit files between any two of these, and prompt with `--allow-dirty`,
which records what they changed. Two gaps are therefore in the model as they are in the
code: what others write after the check of a tree and before the witness of the coder's
call is in the witness, and passes for the coder's when the round is recorded
(`unchecked`); what they write after the comparison of an approval and before its payload
is read is committed as accepted (`uncompared`). `OthersWorkStays` and `CommitIsReviewed`
except exactly these paths; without the exceptions they are false (see below).

Where the code compares several times before it writes, the model's step stands at the
last one: `Review` at the check of the receipt before the decision, `Record` at the
witness before the events, `Pass` at the check before the seat of the gate. What is
written between a file's own comparison and the end of a step counts as written after
it. `PromptAllowingDirt` also stands for a prompt of the runner whose tree is edited
between the check (`loop.py:731`) and the baseline (759).

What is written beside a call is indistinguishable from what the coder writes, and counts
as the coder's; the witnesses are taken before and after, so that an edit undone in
between is not seen. The code tells changes apart by what a file holds, and so does
`theirs`: what others put into a file is no longer told from the runner's own work once
it is what a row had recorded of it, or what the coder left (`PutBack`).

Left out: renames, links, modes, and the index (`CommitIntent` has it).

## The runs

| Run | Question | Instance | Bounds and why they suffice |
|---|---|---|---|
| `ledger_lifecycle` | Does every way back to work keep evidence, acceptance and closure together? Is only the head run open and a closed run final? | 2 slices, 1 milestone with a gate, 2 commit intents, 2 runs with 2 authority references | 2 rounds, enough to confuse a round with the one before; a supersession or an extension. No call is in flight here: that part of `OpenRunIsHeadWithWorkAhead` rests on its theorem |
| `ledger_calls` | Are chains of retries bound and bounded, contexts sent once, allowances and accounts kept? | 3 calls in a run, with and without retries to spend, measured up to twice the reservation | the longest chain the code admits has 3 calls; an overrun after settled calls |
| `commit_attended` | Is nothing committed twice, or after its cancellation? Does recovery alone finish what crashes interrupted, and does a human get an approval decided and a marker resolved once somebody interfered? | 2 operations, 2 contents | 5 ledger lines, 4 commits, 1 interference, 3 crashes or Git failures |
| `runner_coding` | Is the coder of a round dispatched once, and only after its probe? | 2 runs, scarce or ample, 4 calls, both entries, 1 round | 1 crash anywhere; 4 calls are a probe, a dispatch and its retry, and a probe of the second run |
| `runner_review` | Is a verification repeated or a seat asked afresh again? Is a reviewer asked about a product that was not tested, or something accepted that a seat did not pass? Does the same failure twice end the rounds? | 2 reviewers, 3 rounds, 2 runs, 4 calls, 2 contents, 3 failures of which one is cut, both entries | 1 crash, 2 edits (change and restore); two failures tell "the same" from "any"; 4 calls are a round with both seats, or two rounds tested; costs are the subject of `ledger_calls` |
| `runner_recovery` | Is a settled verification recorded, and an interrupted merge finished, by starting the loop again? | 2 rounds, 1 run, 4 calls | 2 crashes |
| `runner_exhaustion` | the first disagreement below | 1 run | 1 crash |
| `writer_lock` | Do threads exclude each other? | 2 processes, 3 threads, 2 linked worktrees and another repository | nesting of 4; deadlock checked |
| `findings` | Is the index what the reports say? Does anything pass that leaves something open? Is every finding of every seat recorded? Does the backlog catch up? | 2 slices and their gate, 2 seats for the first and 1 for the second, one name that begins with the second slice | 4 reports: each slice, the gate, and one more round of any; 1 fault, 1 edit |
| `findings_again` | the second disagreement below | the public entry only | 1 fault, no edit |
| `seat_call` | Does a call keep the promise of a seat, whatever the chunks, the order of exits, deadline and joins? Do the processes of its session end? | each caller; a child, a descendant, one that escapes; answers of 2 units, others of 1, notes of 3 over a cap of 2; 3 units kept, of a suite 3 of its tail; totals of 2 | 3 lines or forks, 1 failed operation: two lines and a fork, or three lines |
| `product` | Does the runner admit what it left? Can the milestone be closed? Do reviewers see every change? Is what an approval commits what they saw, and nothing of others, but for the two gaps? | 2 slices over the same 2 files, one of them committed at first, 2 contents; approvals commit or do not | 2 rounds (one of each slice, or one slice twice), 1 edit and 1 commit of others, at any step; more rounds are the subject of `ProductProofs` |

The runs that turn the deadlock check off are those whose work is bounded and
really ends: a run that has spent its allowance, a round left to people, a repository
at `MaxCommits`, a call that has returned, a milestone that is closed.

All instances of `Runner` have one milestone of one slice; what several slices do to each
other is decided by the fold (`ledger_lifecycle`), and the runner takes them one by one.
Runs and authorities are symmetric where no liveness is checked. Invocations are not: a
reservation picks a fresh one by CHOOSE, as their names carry no meaning.

### Disagreements found

* `runner_exhaustion`: the probe before the dispatch may take the last of the
  allowance. The loop does not look again before it creates its marker and records
  the started artifact (`loop.py:831-837`); then the reservation is refused, and the
  round is "already started" for ever, whatever extension follows.
  `docs/release_evidence.md:65` promises that later work refuses without effects.
* `findings_again`: a process that dies inside `reconcile`, between creating its
  temporary file and replacing the backlog, leaves `.findings-*` behind. The admission of
  the public `run` refuses that file as an unrecorded change (`_preflight.py:325`), so
  the iteration that would write the backlog is never reached. A backlog that a crash
  left behind the ledger is refused in the same way unless its text is the one in HEAD
  or in a baseline. `findings.py:224` says the durable history is "available for the next
  reconciliation", and `docs/release.md:153` says to resume by running again. From the
  internal loop the backlog does catch up (`BacklogCatchesUp`).

Five more are seen in the models and have no run of their own:

* `verified` is accepted only right after its `attempt_finished` (`ledger.py:494-496`).
  After a crash between the two, a probe of `preflight` comes in between, and the slice
  can neither record nor repeat its verification. `autonomy.md:122` of the template calls
  those probes lifecycle-neutral. (`runner_recovery` has no probes for this reason.)
* The loop would adopt merge files a crash left unrecorded (`loop.py:576-634`), but the
  public `run` is refused before that by the admission (`_preflight.py:326`).
  `runner_recovery` shows that the adoption itself is right, from the internal loop.
* With approvals that do not commit, or commit only sometimes, the runner may refuse its
  own work. A slice adds a file and deletes it in its next round; a later slice adds it
  again; the gate sends the first slice back. Its prompt finds the file changed, so that
  the file is not fresh, and as its own last claim is `deleted`, the round records
  the file as `modified` (`loop.py:862-871`). Git says `added`, the admission compares
  kinds too (`_preflight.py:327`), and refuses the file as an unrecorded change.
  Without the conjunct `~bare` of `Undisturbed`, and with 3 rounds and no edits in
  `MCProduct.cfg`, `WorkIsAccounted` fails; as checked and proved, it is a property of
  projects whose approvals were committed so far.
* `approve` compares the files with the reviewed manifests (`commit.py:779-784`), and
  `_request_intent` reads them again (`commit.py:189`), after several calls of Git. The
  second reading is what the approval binds and recovery commits, and `_append_approval`
  compares only the ledger and HEAD (`ledger.py:695-701`). What somebody writes in between
  is committed as accepted, where the method of the template says "Active review and
  acceptance remain pinned to the exact verified candidate."
  (`tests/fixtures/v5_final/project/docs/method.md:174`). Without its exception,
  `p \in uncompared`, `CommitIsReviewed` fails in `MCProduct.cfg`.
* `_call` checks the tree (`loop.py:263`) and takes its witness later (299). A file of
  somebody else's, recorded by the prompt and edited again in between, is in the witness
  as it is then, so that the check of protected paths does not see it (194-195); it is not
  as the baseline has it, so that the round claims it (848-852), and the approval commits
  it. `tests/test_loop.py:493`, which nobody disturbs, is named
  `test_recorded_architect_dirty_baseline_is_admitted_and_excluded_from_accept`. Without
  its exception, `\ unchecked`, `OthersWorkStays` fails in `MCProduct.cfg`: there by a
  file that no prompt had found, and with 2 edits by one that it had.

Two limits of the comparison by content belong here too. What people write into a path
that the slice claimed in an earlier round, and record by a prompt that admits it, is
claimed by the slice as its own; `OthersWorkStays` is therefore about paths no slice had
claimed. And `_profile_workspace_errors` keeps the rows of every baseline: a change of
others that a prompt recorded once, that was taken back, and that somebody makes again,
is admitted as recorded, and no prompt is asked to admit it then. So `ReviewSeesAll`
speaks of rows that some prompt was the first to record, not of what the last baseline
holds. Both restatements came out of the proofs; three edits are needed to tell them
from the stronger forms, which are false.

### Fairness

Fairness of `CommitIntent` is weak and says: a call that runs goes on, Git exits sooner
or later, the runner is started again and recovers (`loop.py:_iteration_owned` recovers
before any other work), a human removes `index.lock` and attributes an exit when nothing
runs. `AttendedSpec` adds that a human cancels what recovery refuses, but only
once somebody interfered: `RecoveryDecides` is about recovery without such help.

Fairness of `Runner` is weak for the steps of a process: the loop of `run` goes on until
it ends, and every seat, command and probe has a deadline after which `procs.py` returns.
It is strong for `Begin`: the owner runs it again and again, and between two attempts
other commands may hold the lock. No step of people is fair, so the liveness
properties state the cases in which no person is needed.

Fairness of `Findings` is weak for the steps of a process and strong for `Begin`, for the
same reasons. Fairness of `SeatCall` is weak for the parent, whose waits all have a
deadline, and for the death of a killed process; nothing is assumed of the child, its
descendants, or the thread. `Product` has no liveness.

Crashes and interference are bounded and not fair.

### Assumptions about the world outside

The ledger is written by this program and the template only. Commits stay
reachable from a reference, as `_candidates` searches all references. Nobody else
writes the commit trailer of an operation. A human attributes the exit of a Git
process after it exited. `index.lock` comes from Git children of the operations.

## What is proved

Every theorem is about every value of the constants that the named assumptions admit:
any roadmap, number of calls, rounds, seats, files, threads, crashes and edits. The
bounds of the runs (`MaxRound`, `MaxCommits`, ...) are arbitrary numbers there.

### The ledger

`LedgerProofs` assumes `RoadmapAssumption` (a roadmap orders its slices),
`IdentityAssumption` (names are told apart, invocations are finite) and
`BoundAssumption`.

* `TypeCorrect`: the type invariant, strengthened by `AttemptsAreOwned` (under the
  profile every attempt that is not absent belongs to an admitted run). It is
  needed because settling an attempt updates the record of its run, which is a
  record only once the run is admitted.
* `ClosureIsSound`: `ClosureSound /\ GateCoversAcceptedRounds`. Both are needed at
  once: that all slices are accepted in `close_pending` carries the first through
  `milestone_done`, and the second needs that a slice leaves `accepted` only by the
  ways that withdraw the gate. Three lemmas carry the proof: work on a slice that
  is not accepted leaves gates alone, a reopening withdraws the gate of its
  milestone, and a withdrawn gate claims nothing.
* `AllowanceIsRespected`: each reservation is within what remains, and settling
  either stays below the reservation or closes the run as an overrun.
* `AcceptanceHasEvidence`, `RoundIsPromptedOnce`: by `EvidenceInv`, which says of each
  step which evidence of the round is there already. It is stronger than both: a slice
  in `verifying` has its prompt, and where a slice waits for a prompt its round is new.
* `OneRunIsOpen`, `ClosureIsFinal`: by `RunInv`, the invariant itself with `GrantInv`
  (without the profile nothing is granted).
* `CallsAreBounded`, `ContextIsSentOnce`: by `CallInv`, which adds that the first call of
  every chain is among the attempts, so that a fresh call begins a chain of its own.
* `ConsumptionIsAccounted`: what is consumed is the sum of what the calls cost. The
  library's sum is a fold whose defining function is a CHOOSE. `AdderExists` shows that
  such a function exists for a finite set, by the least cardinality that has none;
  `AddersAgree` and `AdderTakesAny` that it does not matter which, nor which term comes
  first. `SumOfMore` and `SumWithChange` are then what a reservation and a settlement do.

### The runner

`RunnerProofs` adds `RunnerAssumption`. Its first result carries the others:

* `RunnerIsLedger`: every step of the runner is a step of `Ledger` or leaves it alone, so
  that the theorems above hold of the runner; `RunnerStaysWithinGrants` and
  `RunnerPaysForItsCalls` are two of them. `RunnerTypeCorrect` is needed for it, as the
  runner's events are about calls and rounds that the ledger's actions range over.

The properties of the runner itself rest on `RunnerInv`, which has four kinds of parts.
`Shape` is the type and the pace of rounds. `Whereabouts` says what the process knows
from where it is: a process that marks a round has probed; one that is about to send the
coder serves the slice whose turn it is, in its coding step, and nothing is recorded as
started; one that waits for a retry has a call of that round behind it. `CoderInv`,
`TestInv` and `CheckedInv` say what a call in the ledger stands for, whatever process
made it: a coder's has the started artifact of its round, a completed verification has
passed and is of a round whose receipt is out unless the slice still verifies, a
checkpoint has an opinion. `StepInv` says what a slice past a step has behind it. None of
the properties is inductive without the second kind, since only the place of the process
tells which durable write comes next, nor without the third, since a crash forgets the
place.

* `CoderIsSentOnce`: the started artifact comes before the first call, and only a
  transport failure heard by the same process is followed by another.
* `ReadinessComesFirst`: `probed` is reset with the process and the head run.
* `WorkIsNotRepeated`: a verification or a fresh review is sent only where the ledger holds
  none for the round, or for the round and the product.
* `TestedIsReviewed`, `ReviewedIsAccepted`: the binding of a call holds the product it was
  reserved for, and a review is reserved only while that is the product tested.
* `StallIsFinal`: what two rounds failed with does not change afterwards, whether it was the
  same whole failure does not either, and `NoProgress` is asked again by every process
  before it issues the next round. For any set of failures.

### Commit operations, findings, lock

`CommitIntentProofs` (from `CommitAssumption` and `NoneAssumption`):

* `CommitsOnce`, `DispatchIsCovered`: `CommitInv` says what a call of `commit.py` and a Git
  child are about. `DispatchInv`: between the claim and Git's answer, the operation is
  approved, not cancelled, not committed, and named in the marker, also when the writer
  that started Git is dead. `HistoryInv`: commits with a trailer are of approved operations.
  The steps of interference are the reason for the second: they move every reference.
* `PromiseIsKept`: the refinement of `Approval`, for every operation at once.

`FindingsProofs` (from `FindingsAssumption` and `ReportAssumption`):

* `ProjectionIsExact`: `open`, `open_by_scope` and `ids`, updated in place by each report,
  are what all findings say, where several reports name, close and reopen one finding.
* `PassIsClosed`: a slice passes with nothing of it open and the gate with nothing at all;
  `GateInv` adds that below a passed gate nobody waits.
* `MergeLosesNothing`: by `RetainedInv` (what is retained was asked of the scope whose turn
  it is), and that names with the suffix of a seat are told apart.

`WriterLockProofs` (from `LockAssumption`):

* `LockExcludes`: exclusion, coverage and absence of leaks, for any number of
  processes, threads, worktrees and any nesting. The inductive invariant says what
  the tables mean: the frames of a thread for a repository are stacked on one outer
  frame (`Stacked`), an entry of `_roots` is a frame of its thread (`RootsTabled`),
  an entry of `_owners` has an outer frame (`OwnersTabled`), and a held lock file
  has an owner in its process (`LocksOwned`). Exclusion alone is not inductive: leaving
  a frame releases the lock, which is right only because frames of one repository
  are stacked on their outer one.

### The product

`ProductProofs` (from `ProductAssumption`; that positions are told apart gives one turn at
a time) proves `ProductInv`, whose parts are

* `TurnInv`: one scope is at work, and what the process is in the middle of is about it;
* `SourceInv`: each recorded row is a claim, or a prompt was the first with it. With it,
  `NothingPassesUnseen`;
* `ReviewedInv`: what a slice that waits for its approval, or for the commit of it, claims
  is what was tested; `ComparedInv`: a compared product is what its rows say, and the
  payload after it, of every path but those in `uncompared`. With both,
  `ApprovalCommitsTheReviewed`;
* `TheirsInv`: where others' files are, at each place of a round, so that `Observe` does
  not take them for changes of the round, but for those in `unchecked`. With it,
  `OthersWorkIsLeft`;
* `AccountInv`: undisturbed, each change is the last row and a claim of the slice at work,
  the last row of each claimed path describes the file, and, while a round is out, the
  paths that `Fresh`, `Undone` and `Redone` will find are those where that is not so. With
  it, `WorkAdmitsItself` and `WorkCanBeClosed`. A settled tree alone is not inductive: the
  rows of a round are computed from the baseline and the claims of earlier rounds.

### Calls of processes

`SeatCallProofs` (from `CallAssumption` and `StreamAssumption`: a line of each kind has a
size, and caps are numbers) is about outputs, chunks and tails of any length. Its
inductive invariant has four kinds of parts, and no property is inductive alone: what is
answered at the end is right only because of what each earlier part carries to it.

* what the drain holds of the output taken so far: the stream is the one fed with it
  (`StreamIsFed`), a seat keeps a prefix (`SeatKeeps`), a suite a suffix, which begins
  with a line once the thread has ended (`SuiteKeeps`, `TailIsWholeLines`);
* that a drain ends only with everything taken and the pipe closed (`DrainEnds`), and that
  nothing runs before it is started (`Unborn`, `Launching`);
* what went wrong has been noted (`Noted`), and the exit is the child's when nothing did
  (`Reaped`);
* what a caller answers from is what was joined, and its answer is computed from that
  (`Answered`).

From these follow

* `StreamIsAlwaysOfLines`: `FeedsOfConcat` says that feeding one chunk after the other is
  feeding both at once, `FedIsOfLines` that a fed stream stands where one told whole lines
  would stand. A chunk may end anywhere, also inside a line that is already too long.
* `TailIsAlwaysWholeLines`: a tail that was cut loses the line it begins with, in `_drain`
  and not before.
* `NothingIsEverLost`, `UsageIsAlwaysHonest`, `PromiseIsSafe`: `SettledIs` and
  `CompletedIs` turn the classification of outcomes, read off the stream or the kept bytes,
  into a statement about the whole output. The refinement is step by step: what processes
  do is `Runs`, the deadline `Waits`, the return of an answer `Decides`, everything else a
  stutter.

The folds (`FoldLeft` over lines, pieces and bytes) are the library's, defined by a CHOOSE
over functions on subsets. `FoldFacts` proves of any operator that such a function exists,
that it does not matter which, and what folding one element more, or a concatenation, does;
its `PrefixInduction` argues by the first prefix that fails, as the library's induction
cannot be instantiated.

### What stays with TLC

* Liveness: `RecoveryDecides`, `ApprovalDecided`, `MarkerIsResolved`, `SettledIsRecorded`,
  `InterruptedMergeResumes`, `BacklogCatchesUp`, `SessionEnds`, and what `PromiseKept` adds to
  `PromiseIsSafe`: that there is an answer. The prover has no rule for them.

`LockCoversFrames`, `NothingLeaks` and `GateCoversAcceptedRounds` are proved and have no
run.

## Not modelled

Digests, paths, wording and timestamps; the comparison of files with their
recorded digests is equality of abstract contents. The check of the transform
between boundary policies is a nondeterministic refusal (`BoundaryRejects`).
Rendering, configuration, runtime selection, historical assessment and the command
line keep no state and are input checks or formatting.

In `seats/`, `receipt.py` and `_loop_evidence.py` the grammar of outcomes, reports and
receipts, the packages of evidence and the removal of private text are parsing and
input and output; of `gitws.py` the reading of blobs, bounded diffs, renames and
links. The holistic gate is in `Ledger`, `Findings` and `Product`, and not yet in
`Runner`.

## Plan

1. `Runner`: the holistic gate (`loop.py:_holistic`), then a route of two slices.
2. `Admission`: STOP, checker, recovery and grant gate in their order, probes.
3. Proofs: the lemmas about sums in `LedgerProofs` as instances of `FoldFacts`.
