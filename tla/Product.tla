------------------------------ MODULE Product -------------------------------
(* The product in the working tree and what the ledger says of it: the       *)
(* baseline that a prompt records, the rows that a coded round claims, the   *)
(* manifest that accumulates them, and the commit of an approval             *)
(* (loop.py, _preflight.py, gitws.py, commit.py).  Slices share their files, *)
(* people may work in the same tree, and approvals may commit or not.  What  *)
(* the code compares and what it reads again later are steps of their own.   *)
EXTENDS Naturals

CONSTANTS
  Slices,       \* the slices of a milestone with a holistic gate
  Milestone,    \* and the milestone itself, which is closed after them
  Position,     \* the order of the roadmap
  Paths,        \* product files
  Contents,     \* what a file may hold
  Absent,       \* a path where no file is
  Initially,    \* what is committed at first
  Writable,     \* the paths inside the fence of a slice
  Policies,     \* whether approvals commit: a set of BOOLEANs
  MaxRounds,    \* bound: prompts
  MaxEdits,     \* bound: files that others change
  MaxCommits    \* bound: files that others commit

Scopes == Slices \cup {Milestone}

ASSUME ProductAssumption ==
  /\ Milestone \notin Slices
  /\ Position \in [Scopes -> Nat]
  /\ \A s, t \in Slices : Position[s] = Position[t] => s = t
  /\ \A s \in Slices : Position[s] < Position[Milestone]
  /\ Absent \notin Contents
  /\ Initially \in [Paths -> Contents \cup {Absent}]
  /\ Writable \in [Slices -> SUBSET Paths]
  /\ Policies \subseteq BOOLEAN
  /\ MaxRounds \in Nat /\ MaxEdits \in Nat /\ MaxCommits \in Nat

VARIABLES
  disk,       \* what every path holds in the working tree
  head        \* and in HEAD

VARIABLES
  recorded,   \* the last row of each path in a baseline, a change or a manifest
  latest,     \* the last row of each path in a coded round
  claims,     \* the manifest of a slice: the last row of each path it changed
  baseline,   \* the changes that the last prompt of a slice found
  step,       \* how far each scope is
  tested      \* the product that the suite passed

VARIABLES
  work,       \* what the runner is in the middle of
  theirs,     \* paths that hold what others wrote and no slice had claimed
  found,      \* the rows that a prompt was the first to record
  rounds, edits, commits

VARIABLES     \* history: what others wrote between a comparison and its use
  unchecked,  \* from the check of a tree to the witness of the coder's call
  uncompared, \* from the comparison of an approval to its payload
  bare        \* an approval stood without its commit

tree   == <<disk, head>>
rows   == <<recorded, latest, claims, baseline>>
bounds == <<rounds, edits, commits>>
gaps   == <<unchecked, uncompared>>
vars   == <<tree, rows, step, tested, work, theirs, found, bounds, gaps, bare>>

Files == [Paths -> Contents \cup {Absent}]

-----------------------------------------------------------------------------
(* Git and rows *)

RowOf(was, is) ==
  CASE is = Absent                 -> [kind |-> "deleted",  sha |-> was]
    [] is # Absent /\ was = Absent -> [kind |-> "added",    sha |-> is]
    [] is # Absent /\ was # Absent -> [kind |-> "modified", sha |-> is]

Row(p) == RowOf(head[p], disk[p])

(* The rows of one map, and for other paths those of another.               *)
Over(f, g) ==
  [p \in DOMAIN f \cup DOMAIN g |-> IF p \in DOMAIN f THEN f[p] ELSE g[p]]

(* What status lists: a file that was never committed and is gone, or one   *)
(* that is as HEAD has it, is not a change.                                 *)
Changes == [p \in {q \in Paths : disk[q] # head[q]} |-> Row(p)]

(* What a row says that its file holds.                                     *)
Says(row) == IF row.kind = "deleted" THEN Absent ELSE row.sha

Describes(row, p) == disk[p] = Says(row)

Differ(f, g) == {p \in Paths : f[p] # g[p]}

(* The working tree is admitted when each change is the last recorded one.  *)
Recorded(p, row) == p \in DOMAIN recorded /\ recorded[p] = row

Unrecorded == {p \in DOMAIN Changes : ~Recorded(p, Changes[p])}

Clean == Unrecorded = {}

Drifted(known) == {p \in DOMAIN known : ~Describes(known[p], p)}

Claimed == UNION {DOMAIN claims[s] : s \in Slices}

Idle        == work.at = "none"
NoWork      == [at |-> "none"]
Waiting     == {s \in Scopes : step[s] # "accepted"}
Turn(s)     == s \in Waiting /\ \A t \in Waiting : Position[s] <= Position[t]
Enter(s, v) == step' = [step EXCEPT ![s] = v]

-----------------------------------------------------------------------------
(* A round of the coder *)

(* The changes that stand there are recorded with the prompt.               *)
Issue(s) ==
  /\ Idle /\ Turn(s) /\ step[s] = "issue"
  /\ rounds < MaxRounds
  /\ rounds' = rounds + 1
  /\ baseline' = [baseline EXCEPT ![s] = Changes]
  /\ recorded' = Over(Changes, recorded)
  /\ found' = found \cup {<<p, Changes[p]>> : p \in Unrecorded}
  /\ Enter(s, "coding")
  /\ UNCHANGED <<tree, latest, claims, tested, work, theirs, edits, commits, gaps, bare>>

Prompt(s) == Clean /\ Issue(s)

(* The template's prompt admits what the architect has changed; so does the *)
(* runner's, of what others write after it has checked the tree.            *)
PromptAllowingDirt(s) == Issue(s)

(* The start of the round is on record before the tree is checked again, so *)
(* that a refusal leaves a start without a call.                            *)
Start(s) ==
  /\ Idle /\ Turn(s) /\ step[s] = "coding"
  /\ Clean
  /\ work' = [at |-> "starting", scope |-> s, retry |-> TRUE]
  /\ Enter(s, "started")
  /\ UNCHANGED <<tree, rows, tested, theirs, found, bounds, gaps, bare>>

Check ==
  /\ work.at = "starting"
  /\ Clean
  /\ work' = [work EXCEPT !.at = "checked"]
  /\ unchecked' = unchecked \cap Claimed
  /\ UNCHANGED <<tree, rows, step, tested, theirs, found, bounds, uncompared, bare>>

(* The dispatch file, the binding and the reservation lie between the check *)
(* and the witness, which takes the tree as it is then.                     *)
Call ==
  /\ work.at = "checked"
  /\ work' = [at |-> "called", scope |-> work.scope, retry |-> work.retry,
              seen |-> <<disk, head>>]
  /\ UNCHANGED <<tree, rows, step, tested, theirs, found, bounds, gaps, bare>>

(* A transport failure without an edit is tried once more, from the check.  *)
CoderRetries ==
  /\ work.at = "called"
  /\ work.seen = <<disk, head>>
  /\ work.retry
  /\ work' = [at |-> "starting", scope |-> work.scope, retry |-> FALSE]
  /\ UNCHANGED <<tree, rows, step, tested, theirs, found, bounds, gaps, bare>>

(* Changes of others that stood there at the prompt.                        *)
Protected(s) ==
  {p \in DOMAIN baseline[s] :
     p \notin DOMAIN claims[s] \/ claims[s][p] # baseline[s][p]}

Forbidden(s, delta) == (delta \ Writable[s]) \cup (delta \cap Protected(s))

(* The coder, and whoever writes beside it, leave any files.                *)
Coded(files) ==
  /\ work.at = "called"
  /\ disk' = files
  /\ theirs' = theirs \ Differ(disk, files)
  /\ UNCHANGED <<head, rows, step, tested, found, bounds, gaps, bare>>

(* Every other failure leaves the start of the round on record and stops.   *)
CoderStops(files) ==
  /\ Coded(files)
  /\ work' = NoWork

CoderReturns(files) ==
  /\ Coded(files)
  /\ head = work.seen[2]
  /\ Forbidden(work.scope, Differ(work.seen[1], files)) = {}
  /\ work' = [at |-> "returned", scope |-> work.scope, seen |-> <<files, head>>]

(* Mutant: a path that was changed at the prompt is never fresh.            *)
FreshPaths(s) == [p \in DOMAIN Changes \ DOMAIN baseline[s] |-> Changes[p]]

(* Mutant: whatever is different from HEAD was changed by the round.        *)
EveryChange(s) == Changes

(* What the round changed: the changes the prompt did not find, ...         *)
Fresh(s) ==
  LET stood == {p \in DOMAIN baseline[s] :
                  p \in DOMAIN Changes /\ baseline[s][p] = Changes[p]}
  IN [p \in DOMAIN Changes \ stood |-> Changes[p]]

(* ... and what the slice claimed and is different now, though Git sees no  *)
(* fresh change there.                                                      *)
Undone(s) ==
  {p \in DOMAIN claims[s] : claims[s][p].kind # "deleted" /\ disk[p] = Absent}
(* Mutant: a file that the slice deleted and that is back is forgotten.     *)
RedoneIfKept(s) ==
  {p \in DOMAIN claims[s] :
     claims[s][p].kind # "deleted" /\ disk[p] \notin {Absent, claims[s][p].sha}}

Redone(s) ==
  {p \in DOMAIN claims[s] :
     /\ disk[p] # Absent
     /\ claims[s][p].kind = "deleted" \/ disk[p] # claims[s][p].sha}

Revised(s) ==
  [p \in (Undone(s) \cup Redone(s)) \ DOMAIN Fresh(s) |->
     IF p \in Undone(s) THEN [kind |-> "deleted",  sha |-> claims[s][p].sha]
                        ELSE [kind |-> "modified", sha |-> disk[p]]]

ChangedByRound(s) == Over(Fresh(s), Revised(s))

Observe ==
  /\ work.at = "returned"
  /\ DOMAIN ChangedByRound(work.scope) \subseteq Writable[work.scope]
  /\ work' = [at |-> "observed", scope |-> work.scope, seen |-> work.seen,
              changed |-> ChangedByRound(work.scope)]
  /\ UNCHANGED <<tree, rows, step, tested, theirs, found, bounds, gaps, bare>>

(* The tree is compared once more before the round is recorded.             *)
Unchanged == work.seen = <<disk, head>>

(* Mutant: the manifest of the round alone.                                 *)
ManifestOfRound(s, changed) == changed

(* The manifest accumulates over the rounds of the slice.                   *)
Manifest(s, changed) == Over(changed, claims[s])

Record(result) ==
  /\ work.at = "observed"
  /\ Unchanged
  /\ LET s == work.scope
         manifest == Manifest(s, work.changed)
     IN /\ claims' = [claims EXCEPT ![s] = manifest]
        /\ recorded' = Over(manifest, recorded)
        /\ Enter(s, result)
  /\ latest' = Over(work.changed, latest)
  /\ work' = NoWork
  /\ UNCHANGED <<tree, baseline, tested, theirs, found, bounds, gaps, bare>>

(* Anything else that is wrong stops, and so does a crash.                  *)
Stop ==
  /\ work.at \in {"starting", "checked", "returned", "observed", "testing",
                  "compared", "captured"}
  /\ work' = NoWork
  /\ UNCHANGED <<tree, rows, step, tested, theirs, found, bounds, gaps, bare>>

(* People settle a blocked round, which the slice then repeats.             *)
Resolve(s) ==
  /\ Idle /\ step[s] = "blocked"
  /\ Enter(s, "issue")
  /\ UNCHANGED <<tree, rows, tested, work, theirs, found, bounds, gaps, bare>>

-----------------------------------------------------------------------------
(* Verification, review and the gate *)

Test(s) ==
  /\ Idle /\ Turn(s) /\ step[s] = "verifying"
  /\ Clean
  /\ work' = [at |-> "testing", scope |-> s]
  /\ UNCHANGED <<tree, rows, step, tested, theirs, found, bounds, gaps, bare>>

(* The suite runs on the tree as it is then.                                *)
Verify(result) ==
  /\ work.at = "testing"
  /\ tested' = <<disk, head>>
  /\ Enter(work.scope, result)
  /\ work' = NoWork
  /\ UNCHANGED <<tree, rows, theirs, found, bounds, gaps, bare>>

(* Reviewers see the manifest as it stands, and the tree that was tested.   *)
Review(s, verdict) ==
  /\ Idle /\ Turn(s) /\ step[s] = "reviewing"
  /\ Clean
  /\ Drifted(claims[s]) = {}
  /\ tested = <<disk, head>>
  /\ Enter(s, verdict)
  /\ UNCHANGED <<tree, rows, tested, work, theirs, found, bounds, gaps, bare>>

(* The gate is shown a tree where each claimed path is the last recorded or *)
(* as HEAD has it.                                                          *)
Presentable ==
  /\ Idle /\ Turn(Milestone) /\ step[Milestone] = "issue"
  /\ Clean
  /\ \A p \in Drifted(latest) : disk[p] = head[p]

Pass ==
  /\ Presentable
  /\ Enter(Milestone, "pending")
  /\ UNCHANGED <<tree, rows, tested, work, theirs, found, bounds, gaps, bare>>

SendBack(back) ==
  /\ Presentable
  /\ back # {}
  /\ step' = [s \in Scopes |-> IF s \in back THEN "issue" ELSE step[s]]
  /\ UNCHANGED <<tree, rows, tested, work, theirs, found, bounds, gaps, bare>>

-----------------------------------------------------------------------------
(* Approval *)

(* The product of a milestone: of each path in a manifest, the last change. *)
Products == [p \in Claimed |-> latest[p]]

ProductOf(s) == IF s = Milestone THEN Products ELSE claims[s]

(* An approval refuses a product that is not the one its manifests say.     *)
Compare(s) ==
  /\ Idle /\ Turn(s) /\ step[s] = "pending"
  /\ Drifted(ProductOf(s)) = {}
  /\ work' = [at |-> "compared", scope |-> s]
  /\ uncompared' = {}
  /\ UNCHANGED <<tree, rows, step, tested, theirs, found, bounds, unchecked, bare>>

(* Under the one policy it is recorded, and nothing is committed.           *)
Accept ==
  /\ work.at = "compared"
  /\ FALSE \in Policies
  /\ Enter(work.scope, "accepted")
  /\ work' = NoWork
  /\ bare' = TRUE
  /\ UNCHANGED <<tree, rows, tested, theirs, found, bounds, gaps>>

(* What the files hold; one that was never committed and is gone has no     *)
(* entry.                                                                   *)
Payload(paths) == [p \in {q \in paths : {disk[q], head[q]} # {Absent}} |-> disk[p]]

(* Under the other, the files are read again.  Of the manifests only the    *)
(* paths are used: nothing compares what is read with what they say.        *)
Capture ==
  /\ work.at = "compared"
  /\ TRUE \in Policies
  /\ work' = [at |-> "captured", scope |-> work.scope, parent |-> head,
              payload |-> Payload(DOMAIN ProductOf(work.scope))]
  /\ UNCHANGED <<tree, rows, step, tested, theirs, found, bounds, gaps, bare>>

(* The approval binds the payload and its parent; all else waits for Git.   *)
Append ==
  /\ work.at = "captured"
  /\ head = work.parent
  /\ Enter(work.scope, "accepted")
  /\ work' = [work EXCEPT !.at = "approved"]
  /\ UNCHANGED <<tree, rows, tested, theirs, found, bounds, gaps, bare>>

Land ==
  /\ head' = [p \in Paths |-> IF p \in DOMAIN work.payload THEN disk[p] ELSE head[p]]
  /\ work' = NoWork
  /\ UNCHANGED <<disk, rows, step, tested, theirs, found, bounds, gaps, bare>>

(* Mutant: whatever the approved paths hold by now is committed.            *)
CommitAnyway == work.at = "approved" /\ Land

(* Exactly the payload is committed, or nothing is.                         *)
Commit ==
  /\ work.at = "approved"
  /\ head = work.parent
  /\ \A p \in DOMAIN work.payload : disk[p] = work.payload[p]
  /\ Land

(* People cancel the pending commit: the acceptance stands, or work resumes.*)
Cancel(retain) ==
  /\ work.at = "approved"
  /\ work' = NoWork
  /\ \/ retain /\ bare' = TRUE /\ UNCHANGED step
     \/ ~retain /\ Enter(work.scope, "issue") /\ UNCHANGED bare
  /\ UNCHANGED <<tree, rows, tested, theirs, found, bounds, gaps>>

-----------------------------------------------------------------------------
(* Others, at any moment *)

(* Changes are told apart by what a file holds: one that is put back as a   *)
(* row recorded it, or during a round as the coder left it, passes for that. *)
PutBack(p, content) ==
  \/ Recorded(p, RowOf(head[p], content))
  \/ work.at \in {"returned", "observed"} /\ content = work.seen[1][p]

(* What is written beside a coder's call counts as the coder's.             *)
Edit(p, content) ==
  /\ edits < MaxEdits
  /\ work.at # "called"
  /\ content # disk[p]
  /\ edits' = edits + 1
  /\ disk' = [disk EXCEPT ![p] = content]
  /\ theirs' = IF PutBack(p, content) THEN theirs \ {p}
                                      ELSE theirs \cup ({p} \ Claimed)
  /\ unchecked'  = IF work.at = "checked"  THEN unchecked \cup {p}  ELSE unchecked
  /\ uncompared' = IF work.at = "compared" THEN uncompared \cup {p} ELSE uncompared
  /\ UNCHANGED <<head, rows, step, tested, work, found, rounds, commits, bare>>

CommitFile(p) ==
  /\ commits < MaxCommits
  /\ disk[p] # head[p]
  /\ commits' = commits + 1
  /\ head' = [head EXCEPT ![p] = disk[p]]
  /\ UNCHANGED <<disk, rows, step, tested, work, theirs, found, rounds, edits, gaps, bare>>

-----------------------------------------------------------------------------
Init ==
  /\ disk = Initially /\ head = Initially
  /\ recorded = <<>> /\ latest = <<>>
  /\ claims = [s \in Slices |-> <<>>] /\ baseline = [s \in Slices |-> <<>>]
  /\ step = [s \in Scopes |-> "issue"]
  /\ tested = <<Initially, Initially>>
  /\ work = NoWork /\ theirs = {} /\ found = {}
  /\ rounds = 0 /\ edits = 0 /\ commits = 0
  /\ unchecked = {} /\ uncompared = {} /\ bare = FALSE

Coding ==
  \/ \E s \in Slices : Prompt(s) \/ Start(s)
  \/ Check \/ Call \/ CoderRetries
  \/ \E files \in Files : CoderReturns(files) \/ CoderStops(files)
  \/ Observe \/ Stop
  \/ \E result \in {"verifying", "blocked"} : Record(result)

Deciding ==
  \/ \E s \in Slices : Test(s)
  \/ \E result \in {"reviewing", "issue"} : Verify(result)
  \/ \E s \in Slices, verdict \in {"pending", "issue", "blocked"} : Review(s, verdict)
  \/ Pass
  \/ \E back \in SUBSET Slices : SendBack(back)

Approving ==
  \/ \E s \in Scopes : Compare(s)
  \/ Accept \/ Capture \/ Append \/ Commit
  \/ \E retain \in BOOLEAN : Cancel(retain)

Others ==
  \/ \E s \in Slices : PromptAllowingDirt(s) \/ Resolve(s)
  \/ \E p \in Paths, content \in Contents \cup {Absent} : Edit(p, content)
  \/ \E p \in Paths : CommitFile(p)

Next == Coding \/ Deciding \/ Approving \/ Others

Spec == Init /\ [][Next]_vars

-----------------------------------------------------------------------------
(* Properties *)

(* Nothing is under way, and no coder's call was left without its record.   *)
Settled == Idle /\ \A s \in Slices : step[s] # "started"

(* Nobody else has changed a file, and every approval was committed.        *)
Undisturbed == edits = 0 /\ ~bare

(* The runner never refuses what it did itself: while it is undisturbed,    *)
(* every change of the tree is the recorded one, and none is recorded first *)
(* by a prompt (_profile_workspace_errors).                                 *)
WorkIsAccounted == Undisturbed => found = {} /\ (Settled => Clean)

(* And the milestone can be closed: the last rows are what the tree holds,  *)
(* over slices that change each other's files and rounds that undo them     *)
(* (approve, active product drift).                                         *)
ClosureIsCurrent == Undisturbed /\ Settled => Drifted(Products) = {}

(* Nothing goes past the reviewers: when a slice passes, each change of the *)
(* tree is what the manifest of a slice says, or is a row that a prompt was *)
(* the first to record (_coding_slice, review_receipt).                     *)
ReviewSeesAll ==
  [][\A s \in Slices : step[s] = "reviewing" /\ step'[s] = "pending" =>
       \A p \in DOMAIN Changes :
         \/ \E t \in Slices : p \in DOMAIN claims[t] /\ claims[t][p] = Changes[p]
         \/ <<p, Changes[p]>> \in found]_vars

(* An approval is over: its payload was committed, or it was cancelled.     *)
Concludes == work.at = "approved" /\ work'.at = "none"

(* What an approval was given for.                                          *)
Seen(s, p) == IF s = Milestone THEN Says(latest[p]) ELSE tested[1][p]

(* The commit of an approval is what the suite passed and the reviewers saw *)
(* of a slice, and the last row of each path of a milestone, however others *)
(* edit and commit before, between and after; but not what they write to a  *)
(* path after approve has compared it and before _request_intent reads it   *)
(* again (approve, _request_intent, _worktree).                             *)
CommitIsReviewed ==
  [][Concludes => \A p \in Paths : head'[p] # head[p] =>
       p \in uncompared \/ head'[p] = Seen(work.scope, p)]_vars

(* What others wrote, and no slice had claimed before, is not committed by  *)
(* an approval: not what a prompt found there, nor what was written after   *)
(* it; but what is written after the tree was checked for a call and before *)
(* the call was witnessed passes for the coder's (_call, _seat_drift,       *)
(* _coding_slice).                                                          *)
OthersWorkStays ==
  [][Concludes => \A p \in theirs \ unchecked : head'[p] = head[p]]_vars
=============================================================================
