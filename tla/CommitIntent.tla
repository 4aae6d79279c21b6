---------------------------- MODULE CommitIntent ----------------------------
(***************************************************************************)
(* How an approval becomes exactly one Git commit (src/src/frutlups/       *)
(* commit.py): an immutable manifest, the approval line in the ledger, an  *)
(* in-flight marker, `git add`, a check of the exact candidate, and        *)
(* `git commit`.  The writer may die at any point; the Git process it      *)
(* started lives on; Git may fail and leave index.lock; someone else may   *)
(* move HEAD, edit the payload, stage or commit.  Completion is never      *)
(* recorded: `status` derives it from the commits that can be reached.     *)
(*                                                                         *)
(* One worktree and one payload path `file` are modelled; `rest` stands    *)
(* for every path outside the approval.  The ledger only grows, so a       *)
(* version of it is its length.  Assumed of the world outside: the ledger  *)
(* file is written by this program only, commits stay reachable from some  *)
(* reference, nobody else writes this program's commit trailer, and a      *)
(* human attributes the exit of a Git process only when it has exited.     *)
(* Unfinished invocations, which refuse the same calls, are in Ledger.     *)
(***************************************************************************)
EXTENDS Integers, Sequences, FiniteSets

CONSTANTS
  Operations,   \* identities of commit operations (fresh uuids)
  Contents,     \* contents of a path
  None          \* no operation, no manifest, no Git process

CONSTANTS
  MaxLog,       \* bound: lines of the ledger
  MaxCommits,   \* bound: commits in the repository
  MaxEdits,     \* bound: steps of other people and of Git hooks
  MaxFaults     \* bound: crashes, failures of Git, refusals of the boundary check

ASSUME CommitAssumption ==
  /\ None \notin Operations /\ IsFiniteSet(Operations)
  /\ Contents # {}
  /\ MaxLog \in Nat /\ MaxCommits \in Nat \ {0}
  /\ MaxEdits \in Nat /\ MaxFaults \in Nat

VARIABLES
  log,        \* the ledger: approvals, cancellations and other events
  manifest,   \* the manifest written for each operation
  commits,    \* every commit; the first is the root
  head, index, file,
  marker,     \* operation named by template-commit-inflight
  indexLock,  \* Git's index.lock exists
  call,       \* where the holder of the writer lock is, for which operation
  child,      \* the Git process running, for which operation
  edits, faults

vars == <<log, manifest, commits, head, index, file, marker, indexLock, call, child,
          edits, faults>>

repository == <<commits, head, index, file>>

Trees     == [file : Contents, rest : Contents, log : 0..MaxLog]
Events    == [ev : {"approved", "cancelled", "other"}, op : Operations \cup {None}]
Manifests == [parent : 1..MaxCommits, index : Trees, file : Contents, prefix : 0..(MaxLog - 1)]
Commits   == [parent : 0..MaxCommits, past : SUBSET (1..MaxCommits), tree : Trees,
              op : Operations \cup {None}]
Stages    == {"free", "intent", "approved", "marked", "adding", "staged", "checked",
              "committing", "returned"}

ASSUME NoneAssumption == None \notin Manifests

Idle  == [pc |-> "free", op |-> None]
NoGit == [git |-> "none", op |-> None]

\* Shapes of the state; a call is about an operation exactly while it runs.
TypeOK ==
  /\ log \in Seq(Events) /\ Len(log) \in 0..MaxLog
  /\ manifest \in [Operations -> Manifests \cup {None}]
  /\ commits \in Seq(Commits) /\ Len(commits) \in 1..MaxCommits
  /\ head \in DOMAIN commits
  /\ index \in Trees
  /\ file \in Contents
  /\ marker \in Operations \cup {None}
  /\ indexLock \in BOOLEAN
  /\ call \in [pc : Stages, op : Operations \cup {None}]
  /\ (call.pc = "free") <=> (call.op = None)
  /\ child \in [git : {"none", "add", "commit"}, op : Operations \cup {None}]
  /\ edits \in 0..MaxEdits /\ faults \in 0..MaxFaults

-----------------------------------------------------------------------------
(* What the ledger and the repository say of an operation (`status`).      *)

InLog(ev, op) == \E i \in DOMAIN log : log[i] = [ev |-> ev, op |-> op]

Approved(op)  == InLog("approved", op)
Cancelled(op) == InLog("cancelled", op)

\* The tree the approval is about: the payload, the ledger up to the
\* approval, and nothing else changed.
Candidate(op) ==
  [file |-> manifest[op].file,
   rest |-> commits[manifest[op].parent].tree.rest,
   log  |-> manifest[op].prefix + 1]

\* Descendants of the parent whose message carries the operation.
Found(op) ==
  {c \in DOMAIN commits : commits[c].op = op /\ manifest[op].parent \in commits[c].past}

Witnesses(op) ==
  {c \in Found(op) : /\ commits[c].parent = manifest[op].parent
                     /\ commits[c].tree = Candidate(op)}

Standing(op) ==
  IF ~Approved(op) THEN "unused"
  ELSE IF Cancelled(op)
    THEN IF Witnesses(op) = {} THEN "cancelled" ELSE "refused"
  ELSE IF Witnesses(op) # {}
    THEN IF \E c \in commits[head].past : Witnesses(op) = {c} THEN "completed" ELSE "refused"
  ELSE IF Found(op) = {} /\ head = manifest[op].parent THEN "pending" ELSE "refused"

Pending == {op \in Operations : Standing(op) = "pending"}

\* `status` returns; otherwise it raises and so does its caller.
StatusHolds ==
  /\ \A op \in Operations : Standing(op) # "refused"
  /\ Cardinality(Pending) <= 1

\* A marker left by a completed operation is archived on the way.
Archivable == marker # None /\ Standing(marker) = "completed" /\ ~indexLock

\* No Git dispatch is unresolved (`_idle`), before and after such an archive.
NoIndexLock    == ~indexLock
NoDispatch     == marker = None /\ ~indexLock
NoDispatchLeft == NoDispatch \/ Archivable

\* The guard of every writer (`require_idle`).
NonePending == Pending = {}
MayWrite    == StatusHolds /\ NonePending /\ NoDispatchLeft

Unstaged(base) == index.rest = commits[base].tree.rest

-----------------------------------------------------------------------------
(* Approving: the manifest, then the line in the ledger.                   *)

Init ==
  /\ \E c \in Contents :
       /\ file = c
       /\ index = [file |-> c, rest |-> c, log |-> 0]
       /\ commits = <<[parent |-> 0, past |-> {1}, op |-> None,
                       tree |-> [file |-> c, rest |-> c, log |-> 0]]>>
  /\ log = <<>>
  /\ manifest = [op \in Operations |-> None]
  /\ head = 1
  /\ marker = None /\ indexLock = FALSE
  /\ call = Idle /\ child = NoGit
  /\ edits = 0 /\ faults = 0

RequestIntent(op) ==
  /\ call = Idle
  /\ manifest[op] = None
  /\ MayWrite
  /\ Unstaged(head)
  /\ Len(log) + 1 < MaxLog        \* the bound leaves room for a cancellation
  /\ manifest' = [manifest EXCEPT ![op] =
       [parent |-> head, index |-> index, file |-> file, prefix |-> Len(log)]]
  /\ marker' = None
  /\ call' = [pc |-> "intent", op |-> op]
  /\ UNCHANGED <<log, repository, indexLock, child, edits, faults>>

AppendApproval ==
  /\ call.pc = "intent"
  /\ IF /\ MayWrite
        /\ head = manifest[call.op].parent
        /\ Len(log) = manifest[call.op].prefix
     THEN /\ log' = Append(log, [ev |-> "approved", op |-> call.op])
          /\ marker' = None
          /\ call' = [call EXCEPT !.pc = "approved"]
     ELSE /\ call' = Idle
          /\ UNCHANGED <<log, marker>>
  /\ UNCHANGED <<manifest, repository, indexLock, child, edits, faults>>

\* Every other event of the ledger goes through the same guard.
AppendOther ==
  /\ call = Idle
  /\ MayWrite
  /\ Len(log) < MaxLog
  /\ log' = Append(log, [ev |-> "other", op |-> None])
  /\ marker' = None
  /\ UNCHANGED <<manifest, repository, indexLock, call, child, edits, faults>>

-----------------------------------------------------------------------------
(* Recovery: the missing Git work, and only that.                          *)

\* `_worktree`: nothing the approval is about has changed.
WorktreeIntact(op) ==
  /\ head = manifest[op].parent
  /\ Len(log) = manifest[op].prefix + 1
  /\ file = manifest[op].file

\* The index is the one recorded, or already exactly the candidate.
IndexInitial(op)  == index = manifest[op].index
IndexExpected(op) == index \in {manifest[op].index, Candidate(op)}

Recoverable(op) ==
  /\ StatusHolds
  /\ op \in Pending
  /\ NoDispatchLeft
  /\ WorktreeIntact(op)
  /\ Unstaged(head)
  /\ IndexExpected(op)

\* The marker is written, exclusively, before the first change to the index.
ClaimLater(op) == UNCHANGED marker
Claim(op)      == marker' = op

Recover(op) ==
  /\ call = Idle \/ call = [pc |-> "approved", op |-> op]
  /\ Recoverable(op)
  /\ Claim(op)
  /\ call' = [pc |-> IF index = manifest[op].index THEN "marked" ELSE "staged", op |-> op]
  /\ UNCHANGED <<log, manifest, repository, indexLock, child, edits, faults>>

\* Recovery with nothing pending archives the marker of a completed operation.
ArchiveCompleted ==
  /\ call = Idle
  /\ StatusHolds /\ Archivable
  /\ marker' = None
  /\ UNCHANGED <<log, manifest, repository, indexLock, call, child, edits, faults>>

\* A refusal ends the call and leaves everything, the marker too, as it is.
Ended == call' = Idle

Refused ==
  /\ \/ call.pc = "approved" /\ ~Recoverable(call.op)
     \/ call.pc = "marked" /\ ~Unstaged(head)
     \/ call.pc = "staged" /\ ~(WorktreeIntact(call.op) /\ index = Candidate(call.op))
  /\ Ended
  /\ UNCHANGED <<log, manifest, repository, marker, indexLock, child, edits, faults>>

BoundaryRejects ==
  /\ call.pc = "staged" /\ faults < MaxFaults
  /\ Ended
  /\ faults' = faults + 1
  /\ UNCHANGED <<log, manifest, repository, marker, indexLock, child, edits>>

DispatchAdd ==
  /\ call.pc = "marked" /\ Unstaged(head)
  /\ child' = [git |-> "add", op |-> call.op]
  /\ call' = [call EXCEPT !.pc = "adding"]
  /\ UNCHANGED <<log, manifest, repository, marker, indexLock, edits, faults>>

CheckCandidate ==
  /\ call.pc = "staged"
  /\ WorktreeIntact(call.op)
  /\ index = Candidate(call.op)
  /\ call' = [call EXCEPT !.pc = "checked"]
  /\ UNCHANGED <<log, manifest, repository, marker, indexLock, child, edits, faults>>

DispatchCommit ==
  /\ call.pc = "checked"
  /\ child' = [git |-> "commit", op |-> call.op]
  /\ call' = [call EXCEPT !.pc = "committing"]
  /\ UNCHANGED <<log, manifest, repository, marker, indexLock, edits, faults>>

\* The commit is looked for again; only a completed one is archived.
Finish ==
  /\ call.pc = "returned"
  /\ call' = Idle
  /\ marker' = IF StatusHolds /\ Standing(call.op) = "completed" /\ Archivable
               THEN None ELSE marker
  /\ UNCHANGED <<log, manifest, repository, indexLock, child, edits, faults>>

-----------------------------------------------------------------------------
(* Git, which outlives the writer that started it.                         *)

\* The waiting caller goes on to `pc`; a caller that died does not.
Returns(pc) ==
  /\ child' = NoGit
  /\ call' = IF call.pc \notin {"adding", "committing"} THEN call
             ELSE IF pc = "free" THEN Idle ELSE [call EXCEPT !.pc = pc]

AddStages ==
  /\ child.git = "add" /\ ~indexLock
  /\ index' = [index EXCEPT !.file = file, !.log = Len(log)]
  /\ Returns("staged")
  /\ UNCHANGED <<log, manifest, commits, head, file, marker, indexLock, edits, faults>>

Commit(tree, op) ==
  /\ commits' = Append(commits,
       [parent |-> head, tree |-> tree, op |-> op,
        past |-> commits[head].past \cup {Len(commits) + 1}])
  /\ head' = Len(commits) + 1

\* The commit is made, and Git may still report a failure afterwards.
CommitLands ==
  /\ child.git = "commit" /\ ~indexLock
  /\ Len(commits) < MaxCommits
  /\ Commit(index, child.op)
  /\ \/ Returns("returned") /\ UNCHANGED faults
     \/ faults < MaxFaults /\ Returns("free") /\ faults' = faults + 1
  /\ UNCHANGED <<log, manifest, index, file, marker, indexLock, edits>>

\* A hook of the repository changes what is committed.
CommitLandsAltered ==
  /\ child.git = "commit" /\ ~indexLock
  /\ Len(commits) < MaxCommits /\ edits < MaxEdits
  /\ \E c \in Contents \ {index.file} :
       /\ Commit([index EXCEPT !.file = c], child.op)
       /\ index' = [index EXCEPT !.file = c]
  /\ Returns("returned")
  /\ edits' = edits + 1
  /\ UNCHANGED <<log, manifest, file, marker, indexLock, faults>>

\* Git exits without effect, or is killed and leaves its lock.
GitFails ==
  /\ child # NoGit
  /\ indexLock \/ faults < MaxFaults
  /\ \E left \in {indexLock, TRUE} : indexLock' = left
  /\ Returns("free")
  /\ faults' = IF faults < MaxFaults THEN faults + 1 ELSE faults
  /\ UNCHANGED <<log, manifest, repository, marker, edits>>

\* The writer dies: its lock is released, its child is not.
Crash ==
  /\ call # Idle /\ faults < MaxFaults
  /\ call' = Idle
  /\ faults' = faults + 1
  /\ UNCHANGED <<log, manifest, repository, marker, indexLock, child, edits>>

-----------------------------------------------------------------------------
(* Humans: attributing an exit, cancelling, and everything else they do.   *)

AttributableIfHealthy == Approved(marker) /\ StatusHolds
Attributable          == Approved(marker)

\* A human says the Git process of the marker has exited (`resolve_inflight`).
Attribute ==
  /\ call = Idle
  /\ marker # None /\ ~indexLock
  /\ child = NoGit
  /\ Attributable
  /\ marker' = None
  /\ UNCHANGED <<log, manifest, repository, indexLock, call, child, edits, faults>>

RemoveLock ==
  /\ indexLock /\ child = NoGit
  /\ indexLock' = FALSE
  /\ UNCHANGED <<log, manifest, repository, marker, call, child, edits, faults>>

UnwitnessedAtHead(op)   == Witnesses(op) \cap commits[head].past = {}
UnwitnessedAtParent(op) == Witnesses(op) = {} /\ head = manifest[op].parent
Unwitnessed(op)         == Witnesses(op) = {}

Cancel(op) ==
  /\ call = Idle
  /\ Approved(op) /\ ~Cancelled(op)
  /\ Unwitnessed(op)
  /\ NoDispatch
  /\ Len(log) < MaxLog
  /\ log' = Append(log, [ev |-> "cancelled", op |-> op])
  /\ UNCHANGED <<manifest, repository, marker, indexLock, call, child, edits, faults>>

\* The bound on commits leaves room for those of the operations.
RoomForOthers ==
  Len(commits) + Cardinality({op \in Operations : \A c \in DOMAIN commits : commits[c].op # op}) < MaxCommits

Interfere ==
  /\ edits < MaxEdits
  /\ edits' = edits + 1
  /\ \/ /\ \E c \in DOMAIN commits \ {head} : head' = c       \* moves HEAD
        /\ UNCHANGED <<commits, index, file>>
     \/ /\ RoomForOthers                                      \* commits what is staged
        /\ Commit(index, None)
        /\ UNCHANGED <<index, file>>
     \/ /\ \E c \in Contents \ {file} : file' = c             \* edits the payload
        /\ UNCHANGED <<commits, head, index>>
     \/ /\ \E t \in {commits[head].tree, [index EXCEPT !.file = file, !.log = Len(log)]}
              \cup {[index EXCEPT !.rest = c] : c \in Contents} :
             t # index /\ index' = t                          \* unstages, stages
        /\ UNCHANGED <<commits, head, file>>
  /\ UNCHANGED <<log, manifest, marker, indexLock, call, child, faults>>

-----------------------------------------------------------------------------
Calling ==
  \/ AppendApproval \/ DispatchAdd \/ CheckCandidate \/ DispatchCommit \/ Finish
  \/ Refused \/ \E op \in Operations : call.op = op /\ Recover(op)

Git == AddStages \/ CommitLands \/ CommitLandsAltered \/ GitFails

Next ==
  \/ \E op \in Operations : RequestIntent(op) \/ Recover(op) \/ Cancel(op)
  \/ AppendApproval \/ AppendOther \/ ArchiveCompleted \/ Refused \/ BoundaryRejects
  \/ DispatchAdd \/ CheckCandidate \/ DispatchCommit \/ Finish
  \/ AddStages \/ CommitLands \/ CommitLandsAltered \/ GitFails \/ Crash
  \/ Attribute \/ RemoveLock \/ Interfere

Spec == Init /\ [][Next]_vars

\* A call that runs goes on, Git exits, the runner recovers when it is started
\* again, a human removes a lock left behind and attributes an exit.
Fairness ==
  /\ WF_vars(Calling) /\ WF_vars(Git)
  /\ \A op \in Operations : WF_vars(Recover(op))
  /\ WF_vars(Attribute) /\ WF_vars(RemoveLock) /\ WF_vars(ArchiveCompleted)

\* A human also cancels an operation that recovery refuses, once somebody has
\* interfered.
Abandon(op) == edits > 0 /\ ~Recoverable(op) /\ Cancel(op)

AttendedSpec == Spec /\ Fairness /\ \A op \in Operations : WF_vars(Abandon(op))

-----------------------------------------------------------------------------
(* Properties.                                                             *)

Open(op) == Approved(op) /\ ~Cancelled(op) /\ Witnesses(op) = {}

\* An operation is witnessed by one commit at most, and by none once it is
\* cancelled: no retry and no Git process left behind by a dead writer
\* commits it twice or after all (commit.py:status).
WitnessIsUnique ==
  \A op \in Operations :
    /\ \A c, d \in Witnesses(op) : c = d
    /\ Cancelled(op) => Witnesses(op) = {}

\* While Git runs for an operation, the marker on disk names it, whether or
\* not the writer that started it lives (commit.py:_recover, _archive_marker).
MarkerCoversDispatch == child # NoGit => marker = child.op

\* Each operation keeps the promise of Approval (commit.py as a whole).
Decision(op) ==
  IF ~Approved(op) THEN "unused"
  ELSE IF Cancelled(op) THEN "cancelled"
  ELSE IF Witnesses(op) = {} THEN "pending" ELSE "completed"

Promise == INSTANCE Approval WITH decision <- [op \in Operations |-> Decision(op)]

ApprovalKept == Promise!Spec

\* Without interference recovery alone commits what was approved, however
\* often writers die and Git fails, unless a human cancels it.
RecoveryDecides ==
  \A op \in Operations : Open(op) ~> (~Open(op) \/ edits > 0)

\* With interference an approval is still decided: recovered or cancelled.
ApprovalDecided == Promise!LiveSpec

\* No marker stays for ever: it is archived on completion or attributed.
MarkerIsResolved == []<>(marker = None)
=============================================================================
