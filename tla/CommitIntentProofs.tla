------------------------ MODULE CommitIntentProofs ------------------------
(***************************************************************************)
(* Theorems about commit operations, for every number of operations,       *)
(* contents and faults: what recovery dispatches is covered by its marker, *)
(* is committed at most once, and keeps the promise of Approval.           *)
(***************************************************************************)
EXTENDS CommitIntent, FiniteSetTheorems, TLAPS

(* Between the claim and the answer of Git a call works for an operation    *)
(* that is approved, neither cancelled nor committed, and names it in the   *)
(* marker.                                                                  *)
Working == {"marked", "adding", "staged", "checked", "committing"}

Claimed(op) ==
  /\ op \in Operations /\ marker = op
  /\ Approved(op) /\ ~Cancelled(op) /\ Found(op) = {}

(* Only the caller that waits for it, if it lives, runs beside Git.         *)
Awaited ==
  \/ call = Idle
  \/ call.op = child.op /\ <<call.pc, child.git>> \in {<<"adding", "add">>, <<"committing", "commit">>}

DispatchInv ==
  /\ child # NoGit => Claimed(child.op) /\ Awaited
  /\ call.pc \in Working => Claimed(call.op)
  /\ call.pc = "intent" => manifest[call.op] # None /\ ~Approved(call.op)

(* What the ledger and the commits say of an operation agrees.              *)
HistoryInv ==
  /\ \A op \in Operations :
       /\ manifest[op] # None => manifest[op].parent \in DOMAIN commits
       /\ Approved(op) => manifest[op] # None
       /\ Cancelled(op) => Approved(op)
  /\ \A c \in DOMAIN commits : commits[c].op # None => Approved(commits[c].op)

CommitInv == DispatchInv /\ HistoryInv /\ WitnessIsUnique

-----------------------------------------------------------------------------
(* Logs and commits only grow *)

LEMMA LogGrows ==
  ASSUME log \in Seq(Events), NEW e \in Events, log' = Append(log, e)
  PROVE  \A ev, op : InLog(ev, op)' <=> InLog(ev, op) \/ e = [ev |-> ev, op |-> op]
  <1>1. /\ DOMAIN log' = DOMAIN log \cup {Len(log) + 1}
        /\ \A i \in DOMAIN log : log'[i] = log[i]
        /\ log'[Len(log) + 1] = e
    OBVIOUS
  <1>. QED BY <1>1 DEF InLog

LEMMA CommitsGrow ==
  ASSUME commits \in Seq(Commits), NEW c, commits' = Append(commits, c)
  PROVE  /\ DOMAIN commits' = DOMAIN commits \cup {Len(commits) + 1}
         /\ Len(commits) + 1 \notin DOMAIN commits
         /\ \A i \in DOMAIN commits : commits'[i] = commits[i]
         /\ commits'[Len(commits) + 1] = c
  OBVIOUS

(* What is said of an operation depends on the ledger, its manifest and the *)
(* commits alone.                                                           *)
LEMMA HistoryStays ==
  ASSUME UNCHANGED <<log, manifest, commits>>
  PROVE  /\ \A op : /\ (Approved(op)' <=> Approved(op)) /\ (Cancelled(op)' <=> Cancelled(op))
                     /\ Found(op)' = Found(op) /\ Witnesses(op)' = Witnesses(op)
         /\ HistoryInv => HistoryInv'
         /\ WitnessIsUnique => WitnessIsUnique'
  <1>1. /\ \A op : (Approved(op)' <=> Approved(op)) /\ (Cancelled(op)' <=> Cancelled(op))
        /\ \A op : Found(op)' = Found(op)
    BY DEF Approved, Cancelled, InLog, Found
  <1>2. \A op : Witnesses(op)' = Witnesses(op)
    BY <1>1 DEF Witnesses, Candidate
  <1>. QED BY <1>1, <1>2 DEF HistoryInv, WitnessIsUnique

(* While Git runs, its operation has no commit, and so no call finds that   *)
(* nothing is dispatched: nothing else starts.                              *)
LEMMA DispatchBlocks ==
  ASSUME TypeOK, DispatchInv, NoDispatchLeft
  PROVE  child = NoGit
  <1>. SUFFICES ASSUME child # NoGit PROVE FALSE
    OBVIOUS
  <1>1. Claimed(child.op)
    BY DEF DispatchInv
  <1>2. marker # None /\ Witnesses(marker) = {}
    BY <1>1, CommitAssumption DEF Claimed, Witnesses
  <1>3. Standing(marker) # "completed"
    BY <1>1, <1>2 DEF Standing, Claimed
  <1>. QED BY <1>2, <1>3 DEF NoDispatchLeft, NoDispatch, Archivable

(* A call that is not waiting for Git is alone.                             *)
LEMMA CallIsAlone ==
  ASSUME DispatchInv, call # Idle, call.pc \notin {"adding", "committing"}
  PROVE  child = NoGit
  BY DEF DispatchInv, Awaited


-----------------------------------------------------------------------------
(* Type correctness *)

LEMMA InitType == Init => TypeOK
  <1>. SUFFICES ASSUME Init PROVE TypeOK
    OBVIOUS
  <1>1. PICK c \in Contents :
          /\ file = c /\ index = [file |-> c, rest |-> c, log |-> 0]
          /\ commits = <<[parent |-> 0, past |-> {1}, op |-> None,
                          tree |-> [file |-> c, rest |-> c, log |-> 0]]>>
    BY DEF Init
  <1>2. [file |-> c, rest |-> c, log |-> 0] \in Trees
    BY CommitAssumption DEF Trees
  <1>3. [parent |-> 0, past |-> {1}, op |-> None, tree |-> [file |-> c, rest |-> c, log |-> 0]]
          \in Commits
    BY <1>2, CommitAssumption DEF Commits
  <1>4. commits \in Seq(Commits) /\ Len(commits) = 1 /\ DOMAIN commits = {1}
    BY <1>1, <1>3
  <1>5. log \in Seq(Events) /\ Len(log) = 0
    BY DEF Init
  <1>6. call \in [pc : Stages, op : Operations \cup {None}] /\ call.pc = "free" /\ call.op = None
    BY DEF Init, Idle, Stages
  <1>7. /\ child \in [git : {"none", "add", "commit"}, op : Operations \cup {None}]
        /\ manifest \in [Operations -> Manifests \cup {None}]
    BY DEF Init, NoGit
  <1>8. /\ Len(log) \in 0..MaxLog /\ Len(commits) \in 1..MaxCommits /\ head \in DOMAIN commits
        /\ edits \in 0..MaxEdits /\ faults \in 0..MaxFaults
    BY <1>4, <1>5, CommitAssumption DEF Init
  <1>9. index \in Trees /\ file \in Contents
    BY <1>1, <1>2
  <1>. QED BY <1>4, <1>5, <1>6, <1>7, <1>8, <1>9 DEF Init, TypeOK

(* One more line, while there is room for it.                               *)
LEMMA LogType ==
  ASSUME TypeOK, NEW e \in Events, Len(log) < MaxLog, log' = Append(log, e)
  PROVE  log' \in Seq(Events) /\ Len(log') \in 0..MaxLog
  BY CommitAssumption DEF TypeOK

(* One more commit on HEAD, while there is room for it.                     *)
LEMMA CommitType ==
  ASSUME TypeOK, NEW tree \in Trees, NEW op \in Operations \cup {None},
         Len(commits) < MaxCommits, Commit(tree, op)
  PROVE  /\ commits' \in Seq(Commits) /\ Len(commits') \in 1..MaxCommits
         /\ head' \in DOMAIN commits'
  <1>1. head \in 1..MaxCommits /\ commits[head] \in Commits /\ Len(commits) \in Nat
    BY CommitAssumption DEF TypeOK
  <1>2. [parent |-> head, tree |-> tree, op |-> op,
         past |-> commits[head].past \cup {Len(commits) + 1}] \in Commits
    BY <1>1, CommitAssumption DEF Commits, TypeOK
  <1>. QED BY <1>1, <1>2, CommitAssumption DEF Commit, TypeOK

LEMMA ReturnsType ==
  ASSUME TypeOK, NEW pc \in Stages, Returns(pc)
  PROVE  /\ call' \in [pc : Stages, op : Operations \cup {None}]
         /\ (call'.pc = "free") <=> (call'.op = None)
         /\ child' \in [git : {"none", "add", "commit"}, op : Operations \cup {None}]
  BY DEF TypeOK, Returns, Idle, NoGit, Stages

LEMMA CallingType ==
  ASSUME TypeOK, DispatchInv,
         \/ \E op \in Operations : RequestIntent(op) \/ Recover(op)
         \/ AppendApproval \/ AppendOther \/ ArchiveCompleted \/ Refused \/ BoundaryRejects
         \/ DispatchAdd \/ CheckCandidate \/ DispatchCommit \/ Finish
  PROVE  TypeOK'
  <1>. USE DEF repository
  <1>1. ASSUME NEW op \in Operations, RequestIntent(op) PROVE TypeOK'
    <2>1. [parent |-> head, index |-> index, file |-> file, prefix |-> Len(log)] \in Manifests
      BY <1>1, CommitAssumption DEF RequestIntent, TypeOK, Manifests
    <2>. QED BY <1>1, <2>1, CommitAssumption DEF RequestIntent, TypeOK, Stages
  <1>2. ASSUME NEW op \in Operations, Recover(op) PROVE TypeOK'
    BY <1>2, CommitAssumption DEF Recover, Claim, TypeOK, Stages
  <1>3. ASSUME AppendApproval PROVE TypeOK'
    <2>1. CASE MayWrite /\ head = manifest[call.op].parent /\ Len(log) = manifest[call.op].prefix
      <3>1. call.op \in Operations /\ call' \in [pc : Stages, op : Operations \cup {None}]
            /\ call'.pc = "approved" /\ call'.op = call.op
        BY <1>3, <2>1 DEF AppendApproval, TypeOK, Stages
      <3>2. [ev |-> "approved", op |-> call.op] \in Events
        BY <3>1 DEF Events
      <3>3. Len(log) < MaxLog
        BY <1>3, <2>1, <3>1, CommitAssumption
        DEF AppendApproval, DispatchInv, TypeOK, Manifests
      <3>. QED BY <1>3, <2>1, <3>1, <3>2, <3>3, LogType, CommitAssumption
               DEF AppendApproval, TypeOK
    <2>2. CASE call' = Idle /\ UNCHANGED <<log, marker>>
      BY <1>3, <2>2 DEF AppendApproval, TypeOK, Idle, Stages
    <2>. QED BY <1>3, <2>1, <2>2 DEF AppendApproval
  <1>4. ASSUME AppendOther PROVE TypeOK'
    <2>1. [ev |-> "other", op |-> None] \in Events
      BY DEF Events
    <2>. QED BY <1>4, <2>1, LogType DEF AppendOther, TypeOK
  <1>5. ASSUME ArchiveCompleted \/ BoundaryRejects \/ Finish PROVE TypeOK'
    BY <1>5, CommitAssumption
    DEF ArchiveCompleted, BoundaryRejects, Finish, Ended, TypeOK, Idle, Stages
  <1>6. ASSUME Refused PROVE TypeOK'
    BY <1>6 DEF Refused, Ended, TypeOK, Idle, Stages
  <1>7. ASSUME DispatchAdd \/ CheckCandidate \/ DispatchCommit PROVE TypeOK'
    BY <1>7 DEF DispatchAdd, CheckCandidate, DispatchCommit, TypeOK, Stages
  <1>. QED BY <1>1, <1>2, <1>3, <1>4, <1>5, <1>6, <1>7

LEMMA WorldType ==
  ASSUME TypeOK,
         \/ AddStages \/ CommitLands \/ CommitLandsAltered \/ GitFails \/ Crash
         \/ Attribute \/ RemoveLock \/ Interfere \/ \E op \in Operations : Cancel(op)
  PROVE  TypeOK'
  <1>. USE DEF repository
  <1>1. ASSUME AddStages PROVE TypeOK'
    <2>1. [index EXCEPT !.file = file, !.log = Len(log)] \in Trees
      BY DEF TypeOK, Trees
    <2>. QED BY <1>1, <2>1, ReturnsType DEF AddStages, TypeOK, Stages
  <1>2. ASSUME CommitLands PROVE TypeOK'
    <2>1. /\ commits' \in Seq(Commits) /\ Len(commits') \in 1..MaxCommits
          /\ head' \in DOMAIN commits'
      BY <1>2, CommitType DEF CommitLands, TypeOK
    <2>2. faults' \in 0..MaxFaults
      BY <1>2, CommitAssumption DEF CommitLands, TypeOK
    <2>3. \E pc \in Stages : Returns(pc)
      BY <1>2 DEF CommitLands, Stages
    <2>. QED BY <1>2, <2>1, <2>2, <2>3, ReturnsType DEF CommitLands, TypeOK
  <1>3. ASSUME CommitLandsAltered PROVE TypeOK'
    <2>1. PICK c \in Contents : /\ Commit([index EXCEPT !.file = c], child.op)
                                /\ index' = [index EXCEPT !.file = c]
      BY <1>3 DEF CommitLandsAltered
    <2>2. index' \in Trees
      BY <2>1 DEF TypeOK, Trees
    <2>3. /\ commits' \in Seq(Commits) /\ Len(commits') \in 1..MaxCommits
          /\ head' \in DOMAIN commits'
      BY <1>3, <2>1, <2>2, CommitType DEF CommitLandsAltered, TypeOK
    <2>4. "returned" \in Stages /\ Returns("returned") /\ edits' \in 0..MaxEdits
      BY <1>3, CommitAssumption DEF CommitLandsAltered, TypeOK, Stages
    <2>. QED BY <1>3, <2>2, <2>3, <2>4, ReturnsType DEF CommitLandsAltered, TypeOK
  <1>4. ASSUME GitFails PROVE TypeOK'
    <2>1. "free" \in Stages /\ Returns("free")
      BY <1>4 DEF GitFails, Stages
    <2>2. indexLock' \in BOOLEAN
      BY <1>4, Zenon DEF GitFails, TypeOK
    <2>3. faults' \in 0..MaxFaults
      BY <1>4, CommitAssumption DEF GitFails, TypeOK
    <2>. QED BY <1>4, <2>1, <2>2, <2>3, ReturnsType DEF GitFails, TypeOK
  <1>5. ASSUME Crash \/ Attribute PROVE TypeOK'
    BY <1>5, CommitAssumption DEF Crash, Attribute, TypeOK, Idle, Stages
  <1>8. ASSUME RemoveLock PROVE TypeOK'
    <2>1. indexLock' \in BOOLEAN
      BY <1>8, Zenon DEF RemoveLock
    <2>. QED BY <1>8, <2>1 DEF RemoveLock, TypeOK
  <1>6. ASSUME Interfere PROVE TypeOK'
    <2>1. edits' \in 0..MaxEdits
      BY <1>6, CommitAssumption DEF Interfere, TypeOK
    <2>2. CASE /\ \E c \in DOMAIN commits \ {head} : head' = c
               /\ UNCHANGED <<commits, index, file>>
      BY <1>6, <2>1, <2>2 DEF Interfere, TypeOK
    <2>3. CASE RoomForOthers /\ Commit(index, None) /\ UNCHANGED <<index, file>>
      <3>1. Len(commits) < MaxCommits
        <4>. DEFINE free == {op \in Operations : \A c \in DOMAIN commits : commits[c].op # op}
        <4>1. Cardinality(free) \in Nat
          BY CommitAssumption, FS_Subset, FS_CardinalityType
        <4>2. Len(commits) \in Nat /\ Len(commits) + Cardinality(free) < MaxCommits
          BY <2>3 DEF TypeOK, RoomForOthers
        <4>. HIDE DEF free
        <4>. QED BY <4>1, <4>2, CommitAssumption
      <3>. QED BY <1>6, <2>1, <2>3, <3>1, CommitType DEF Interfere, TypeOK
    <2>4. CASE /\ \E c \in Contents \ {file} : file' = c
               /\ UNCHANGED <<commits, head, index>>
      BY <1>6, <2>1, <2>4 DEF Interfere, TypeOK
    <2>5. CASE /\ index' \in {commits[head].tree, [index EXCEPT !.file = file, !.log = Len(log)]}
                             \cup {[index EXCEPT !.rest = c] : c \in Contents}
               /\ UNCHANGED <<commits, head, file>>
      <3>1. /\ commits[head].tree \in Trees
            /\ [index EXCEPT !.file = file, !.log = Len(log)] \in Trees
            /\ \A c \in Contents : [index EXCEPT !.rest = c] \in Trees
        <4>1. commits[head] \in Commits
          BY DEF TypeOK
        <4>2. Len(log) \in 0..MaxLog /\ file \in Contents /\ index \in Trees
          BY DEF TypeOK
        <4>. QED BY <4>1, <4>2 DEF Trees, Commits
      <3>. QED BY <1>6, <2>1, <2>5, <3>1 DEF Interfere, TypeOK
    <2>. QED BY <1>6, <2>2, <2>3, <2>4, <2>5 DEF Interfere
  <1>7. ASSUME NEW op \in Operations, Cancel(op) PROVE TypeOK'
    <2>1. [ev |-> "cancelled", op |-> op] \in Events
      BY DEF Events
    <2>. QED BY <1>7, <2>1, LogType DEF Cancel, TypeOK
  <1>. QED BY <1>1, <1>2, <1>3, <1>4, <1>5, <1>6, <1>7, <1>8

-----------------------------------------------------------------------------
(* Dispatches are covered, and commit once *)

LEMMA InitInv == Init => CommitInv
  <1>. SUFFICES ASSUME Init PROVE CommitInv
    OBVIOUS
  <1>1. /\ \A ev, op : ~InLog(ev, op)
        /\ DOMAIN commits = {1} /\ commits[1].op = None
    BY DEF Init, InLog
  <1>2. \A op \in Operations : Witnesses(op) = {}
    BY <1>1, CommitAssumption DEF Witnesses, Found
  <1>3. DispatchInv
    BY DEF Init, DispatchInv, Idle, Working
  <1>4. HistoryInv /\ WitnessIsUnique
    BY <1>1, <1>2 DEF Init, HistoryInv, WitnessIsUnique, Approved, Cancelled
  <1>. QED BY <1>3, <1>4 DEF CommitInv

(* An operation without commits that recovery finds pending can be claimed. *)
LEMMA RecoverableIsClaimed ==
  ASSUME NEW op \in Operations, Recoverable(op), Claim(op), UNCHANGED <<log, manifest, commits>>
  PROVE  Claimed(op)'
  <1>1. Approved(op) /\ ~Cancelled(op) /\ Found(op) = {}
    BY DEF Recoverable, Pending, Standing
  <1>. QED BY <1>1, HistoryStays DEF Claim, Claimed

(* A call that ends leaves what Git does for it covered.                    *)
LEMMA CallEnds ==
  ASSUME DispatchInv, UNCHANGED <<log, manifest, commits, marker, child>>, call' = Idle
  PROVE  DispatchInv'
  <1>1. child' # NoGit => Claimed(child.op)'
    BY HistoryStays DEF DispatchInv, Claimed
  <1>2. Awaited' /\ call'.pc \notin Working /\ call'.pc # "intent"
    BY DEF Awaited, Idle, Working
  <1>. QED BY <1>1, <1>2 DEF DispatchInv

(* Steps that change neither the ledger nor the commits.                    *)
LEMMA DispatchStays ==
  ASSUME TypeOK, DispatchInv, UNCHANGED <<log, manifest, commits>>,
         \/ \E op \in Operations : Recover(op)
         \/ ArchiveCompleted \/ Refused \/ BoundaryRejects
         \/ DispatchAdd \/ CheckCandidate \/ DispatchCommit \/ Finish
         \/ AddStages \/ GitFails \/ Crash \/ Attribute \/ RemoveLock \/ Interfere
  PROVE  DispatchInv'
  <1>0. /\ \A op : (marker' = op /\ Claimed(op)) => Claimed(op)'
        /\ \A op : (Approved(op)' <=> Approved(op))
    BY HistoryStays DEF Claimed
  <1>1. ASSUME NEW op \in Operations, Recover(op) PROVE DispatchInv'
    <2>1. child = NoGit /\ UNCHANGED child
      BY <1>1, DispatchBlocks DEF Recover, Recoverable
    <2>2. Claimed(op)'
      BY <1>1, RecoverableIsClaimed DEF Recover
    <2>3. call'.op = op /\ call'.pc \in {"marked", "staged"}
      BY <1>1 DEF Recover
    <2>. QED BY <2>1, <2>2, <2>3 DEF DispatchInv, NoGit
  <1>2. ASSUME ArchiveCompleted PROVE DispatchInv'
    <2>1. child = NoGit /\ UNCHANGED child
      BY <1>2, DispatchBlocks DEF ArchiveCompleted, NoDispatchLeft
    <2>. QED BY <1>2, <2>1 DEF ArchiveCompleted, DispatchInv, Idle, Working, NoGit
  <1>3. ASSUME Refused \/ BoundaryRejects \/ Crash PROVE DispatchInv'
    BY <1>3, CallEnds DEF Refused, BoundaryRejects, Crash, Ended
  <1>4. ASSUME DispatchAdd PROVE DispatchInv'
    <2>1. child'.op = call.op /\ call'.op = call.op /\ call'.pc = "adding" /\ child'.git = "add"
      BY <1>4 DEF DispatchAdd, TypeOK
    <2>2. Claimed(call.op) /\ UNCHANGED marker
      BY <1>4 DEF DispatchAdd, DispatchInv, Working
    <2>. QED BY <1>0, <2>1, <2>2 DEF DispatchInv, Awaited, Claimed
  <1>5. ASSUME DispatchCommit PROVE DispatchInv'
    <2>1. child'.op = call.op /\ call'.op = call.op /\ call'.pc = "committing"
          /\ child'.git = "commit"
      BY <1>5 DEF DispatchCommit, TypeOK
    <2>2. Claimed(call.op) /\ UNCHANGED marker
      BY <1>5 DEF DispatchCommit, DispatchInv, Working
    <2>. QED BY <1>0, <2>1, <2>2 DEF DispatchInv, Awaited, Claimed
  <1>6. ASSUME CheckCandidate PROVE DispatchInv'
    <2>1. child = NoGit /\ UNCHANGED child
      BY <1>6, CallIsAlone DEF CheckCandidate, Idle
    <2>2. call'.op = call.op /\ call'.pc = "checked" /\ Claimed(call.op) /\ UNCHANGED marker
      BY <1>6 DEF CheckCandidate, DispatchInv, Working, TypeOK
    <2>. QED BY <1>0, <2>1, <2>2 DEF DispatchInv, Claimed
  <1>7. ASSUME Finish PROVE DispatchInv'
    <2>1. child = NoGit /\ UNCHANGED child
      BY <1>7, CallIsAlone DEF Finish, Idle
    <2>. QED BY <1>7, <2>1 DEF Finish, DispatchInv, Idle, Working
  <1>8. ASSUME NEW pc \in {"staged", "free"}, Returns(pc), child # NoGit, UNCHANGED marker
        PROVE  DispatchInv'
    <2>1. Claimed(child.op) /\ Awaited /\ child' = NoGit
      BY <1>8 DEF DispatchInv, Returns
    <2>2. CASE call = Idle
      BY <1>8, <2>1, <2>2 DEF Returns, DispatchInv, Idle, Working
    <2>3. CASE call # Idle
      <3>1. call.op = child.op /\ call.pc \in {"adding", "committing"}
        BY <2>1, <2>3 DEF Awaited
      <3>2. call' = Idle \/ (call'.op = child.op /\ call'.pc = "staged")
        BY <1>8, <3>1 DEF Returns, TypeOK
      <3>. QED BY <1>0, <1>8, <2>1, <3>2 DEF DispatchInv, Claimed, Idle, Working
    <2>. QED BY <2>2, <2>3
  <1>9. ASSUME AddStages \/ GitFails PROVE DispatchInv'
    <2>1. CASE AddStages
      <3>1. child # NoGit
        BY <2>1 DEF AddStages, NoGit
      <3>. QED BY <1>8, <2>1, <3>1 DEF AddStages
    <2>2. CASE GitFails
      BY <1>8, <2>2 DEF GitFails
    <2>. QED BY <1>9, <2>1, <2>2
  <1>10. ASSUME Attribute PROVE DispatchInv'
    BY <1>10 DEF Attribute, DispatchInv, Idle, Working
  <1>11. ASSUME RemoveLock \/ Interfere PROVE DispatchInv'
    BY <1>0, <1>11 DEF RemoveLock, Interfere, DispatchInv, Awaited, Claimed
  <1>. QED BY <1>1, <1>2, <1>3, <1>4, <1>5, <1>6, <1>7, <1>9, <1>10, <1>11

(* A new manifest is that of an operation nothing is said of yet.           *)
LEMMA RequestKeeps ==
  ASSUME TypeOK, CommitInv, NEW op \in Operations, RequestIntent(op)
  PROVE  CommitInv'
  <1>1. /\ UNCHANGED <<log, commits, child>> /\ child = NoGit
        /\ call' = [pc |-> "intent", op |-> op]
    BY DispatchBlocks DEF CommitInv, RequestIntent, MayWrite, repository
  <1>2. \A o : (Approved(o)' <=> Approved(o)) /\ (Cancelled(o)' <=> Cancelled(o))
    BY <1>1 DEF Approved, Cancelled, InLog
  <1>3. ~Approved(op) /\ \A c \in DOMAIN commits : commits[c].op # op
    BY CommitAssumption DEF CommitInv, HistoryInv, RequestIntent
  <1>4. /\ manifest'[op] \in Manifests /\ manifest'[op].parent = head
        /\ \A o \in Operations \ {op} : manifest'[o] = manifest[o]
    <2>1. [parent |-> head, index |-> index, file |-> file, prefix |-> Len(log)] \in Manifests
      BY CommitAssumption DEF RequestIntent, TypeOK, Manifests
    <2>. QED BY <2>1 DEF RequestIntent, TypeOK
  <1>5. Witnesses(op)' = {}
    BY <1>1, <1>3 DEF Witnesses, Found
  <1>6. \A o \in Operations \ {op} : Witnesses(o)' = Witnesses(o)
    BY <1>1, <1>4 DEF Witnesses, Found, Candidate
  <1>7. DispatchInv'
    BY <1>1, <1>2, <1>3, <1>4, NoneAssumption DEF DispatchInv, Working
  <1>8. HistoryInv'
    BY <1>1, <1>2, <1>3, <1>4 DEF CommitInv, HistoryInv, TypeOK
  <1>9. WitnessIsUnique'
    BY <1>2, <1>5, <1>6 DEF CommitInv, WitnessIsUnique
  <1>. QED BY <1>7, <1>8, <1>9 DEF CommitInv

(* A line of the ledger says nothing of the commits.                        *)
LEMMA WitnessesStay ==
  ASSUME UNCHANGED <<manifest, commits>>
  PROVE  \A op : Found(op)' = Found(op) /\ Witnesses(op)' = Witnesses(op)
  BY DEF Found, Witnesses, Candidate

LEMMA AppendKeeps ==
  ASSUME TypeOK, CommitInv, AppendApproval \/ AppendOther
  PROVE  CommitInv'
  <1>1. ASSUME call' = Idle, UNCHANGED <<log, manifest, commits, marker, child>>
        PROVE  CommitInv'
    BY <1>1, CallEnds, HistoryStays DEF CommitInv
  <1>2. ASSUME AppendApproval, MayWrite, log' = Append(log, [ev |-> "approved", op |-> call.op]),
               call' = [call EXCEPT !.pc = "approved"]
        PROVE  CommitInv'
    <2>1. child = NoGit /\ UNCHANGED <<manifest, commits, child>> /\ call'.pc = "approved"
      BY <1>2, DispatchBlocks DEF AppendApproval, MayWrite, CommitInv, repository, TypeOK
    <2>2. call.op \in Operations /\ manifest[call.op] # None /\ ~Approved(call.op)
      BY <1>2 DEF AppendApproval, CommitInv, DispatchInv, TypeOK
    <2>3. /\ \A op : Approved(op)' <=> Approved(op) \/ op = call.op
          /\ \A op : (Cancelled(op)' <=> Cancelled(op))
      <3>1. [ev |-> "approved", op |-> call.op] \in Events
        BY <2>2 DEF Events
      <3>. QED BY <1>2, <3>1, LogGrows DEF Approved, Cancelled, TypeOK
    <2>4. DispatchInv'
      BY <2>1 DEF DispatchInv, Working
    <2>5. HistoryInv'
      BY <2>1, <2>2, <2>3 DEF CommitInv, HistoryInv
    <2>6. WitnessIsUnique'
      BY <2>1, <2>3, WitnessesStay DEF CommitInv, WitnessIsUnique
    <2>. QED BY <2>4, <2>5, <2>6 DEF CommitInv
  <1>3. ASSUME AppendOther PROVE CommitInv'
    <2>1. child = NoGit /\ UNCHANGED <<manifest, commits, child, call>> /\ call = Idle
      BY <1>3, DispatchBlocks DEF AppendOther, MayWrite, CommitInv, repository
    <2>2. \A op : (Approved(op)' <=> Approved(op)) /\ (Cancelled(op)' <=> Cancelled(op))
      <3>1. [ev |-> "other", op |-> None] \in Events
        BY DEF Events
      <3>. QED BY <1>3, <3>1, LogGrows DEF AppendOther, Approved, Cancelled, TypeOK
    <2>3. DispatchInv'
      BY <2>1 DEF DispatchInv, Working, Idle
    <2>4. HistoryInv' /\ WitnessIsUnique'
      BY <2>1, <2>2, WitnessesStay DEF CommitInv, HistoryInv, WitnessIsUnique
    <2>. QED BY <2>3, <2>4 DEF CommitInv
  <1>. QED BY <1>1, <1>2, <1>3 DEF AppendApproval, repository

LEMMA CancelKeeps ==
  ASSUME TypeOK, CommitInv, NEW op \in Operations, Cancel(op)
  PROVE  CommitInv'
  <1>1. child = NoGit /\ UNCHANGED <<manifest, commits, child, call>> /\ call = Idle
    BY DispatchBlocks DEF Cancel, NoDispatchLeft, CommitInv, repository
  <1>2. /\ \A o : (Approved(o)' <=> Approved(o))
        /\ \A o : Cancelled(o)' <=> Cancelled(o) \/ o = op
    <2>1. [ev |-> "cancelled", op |-> op] \in Events
      BY DEF Events
    <2>. QED BY <2>1, LogGrows DEF Cancel, Approved, Cancelled, TypeOK
  <1>3. DispatchInv'
    BY <1>1 DEF DispatchInv, Working, Idle
  <1>4. HistoryInv'
    BY <1>1, <1>2 DEF CommitInv, HistoryInv, Cancel
  <1>5. WitnessIsUnique'
    BY <1>1, <1>2, WitnessesStay DEF CommitInv, WitnessIsUnique, Cancel, Unwitnessed
  <1>. QED BY <1>3, <1>4, <1>5 DEF CommitInv

(* A commit is found for the operation it names and for no other.           *)
LEMMA CommitFound ==
  ASSUME TypeOK, HistoryInv, NEW tree, NEW o, Commit(tree, o), UNCHANGED <<log, manifest>>
  PROVE  /\ \A op \in Operations \ {o} : Found(op)' = Found(op) /\ Witnesses(op)' = Witnesses(op)
         /\ o \in Operations => Found(o)' \subseteq Found(o) \cup {Len(commits) + 1}
         /\ \A op : (Approved(op)' <=> Approved(op)) /\ (Cancelled(op)' <=> Cancelled(op))
         /\ (o # None => Approved(o)) => HistoryInv'
  <1>1. /\ DOMAIN commits' = DOMAIN commits \cup {Len(commits) + 1}
        /\ Len(commits) + 1 \notin DOMAIN commits
        /\ \A i \in DOMAIN commits : commits'[i] = commits[i]
        /\ commits'[Len(commits) + 1].op = o
    BY CommitsGrow DEF Commit, TypeOK
  <1>2. \A op : (Approved(op)' <=> Approved(op)) /\ (Cancelled(op)' <=> Cancelled(op))
    BY DEF Approved, Cancelled, InLog
  <1>3. \A op : op # o => Found(op)' = Found(op)
    BY <1>1 DEF Found
  <1>4. ASSUME NEW op \in Operations \ {o} PROVE Witnesses(op)' = Witnesses(op)
    <2>1. CASE Found(op) = {}
      BY <1>3, <2>1 DEF Witnesses
    <2>2. CASE Found(op) # {}
      <3>1. manifest[op].parent \in DOMAIN commits
        BY <2>2, CommitAssumption DEF Found, HistoryInv
      <3>2. Candidate(op)' = Candidate(op)
        BY <1>1, <3>1 DEF Candidate
      <3>. QED BY <1>1, <1>3, <3>2 DEF Witnesses, Found
    <2>. QED BY <2>1, <2>2
  <1>5. Found(o)' \subseteq Found(o) \cup {Len(commits) + 1}
    BY <1>1 DEF Found
  <1>6. ASSUME o # None => Approved(o) PROVE HistoryInv'
    BY <1>1, <1>2, <1>6 DEF HistoryInv
  <1>. QED BY <1>2, <1>3, <1>4, <1>5, <1>6

(* The commit Git makes for an operation is its first and only one.         *)
LEMMA LandsKeeps ==
  ASSUME TypeOK, CommitInv, CommitLands \/ CommitLandsAltered
  PROVE  CommitInv'
  <1>1. PICK pc \in {"returned", "free"} : Returns(pc)
    BY DEF CommitLands, CommitLandsAltered
  <1>2. PICK op \in Operations : child.op = op /\ Claimed(op) /\ Awaited /\ child.git = "commit"
    BY DEF CommitLands, CommitLandsAltered, NoGit, CommitInv, DispatchInv, Claimed
  <1>3. PICK tree : Commit(tree, op)
    BY <1>2 DEF CommitLands, CommitLandsAltered
  <1>4. UNCHANGED <<log, manifest>>
    BY DEF CommitLands, CommitLandsAltered
  <1>5. DispatchInv'
    <2>1. child' = NoGit
      BY <1>1 DEF Returns
    <2>2. call'.pc \notin Working /\ call'.pc # "intent"
      BY <1>1, <1>2 DEF Returns, Awaited, Idle, Working, TypeOK
    <2>. QED BY <2>1, <2>2 DEF DispatchInv
  <1>6. HistoryInv'
    BY <1>2, <1>3, <1>4, CommitFound DEF CommitInv, Claimed
  <1>7. WitnessIsUnique'
    <2>1. Found(op)' \subseteq {Len(commits) + 1} /\ ~Cancelled(op)'
      BY <1>2, <1>3, <1>4, CommitFound DEF CommitInv, Claimed
    <2>2. Witnesses(op)' \subseteq {Len(commits) + 1}
      BY <2>1 DEF Witnesses
    <2>3. \A o \in Operations \ {op} :
            Witnesses(o)' = Witnesses(o) /\ (Cancelled(o)' <=> Cancelled(o))
      BY <1>3, <1>4, CommitFound DEF CommitInv
    <2>. QED BY <2>1, <2>2, <2>3 DEF CommitInv, WitnessIsUnique
  <1>. QED BY <1>5, <1>6, <1>7 DEF CommitInv

(* The commits of others name no operation.                                 *)
LEMMA InterfereKeeps ==
  ASSUME TypeOK, CommitInv, Interfere
  PROVE  CommitInv'
  <1>1. CASE UNCHANGED commits
    BY <1>1, DispatchStays, HistoryStays DEF Interfere, CommitInv
  <1>2. CASE Commit(index, None)
    <2>1. UNCHANGED <<log, manifest, marker, call, child>>
      BY DEF Interfere
    <2>2. /\ \A op \in Operations : Found(op)' = Found(op) /\ Witnesses(op)' = Witnesses(op)
          /\ \A op : (Approved(op)' <=> Approved(op)) /\ (Cancelled(op)' <=> Cancelled(op))
          /\ HistoryInv'
      BY <1>2, <2>1, CommitFound, CommitAssumption DEF CommitInv
    <2>3. \A op : Claimed(op)' = Claimed(op)
      BY <2>1, <2>2 DEF Claimed
    <2>4. DispatchInv'
      BY <2>1, <2>2, <2>3 DEF CommitInv, DispatchInv, Awaited
    <2>5. WitnessIsUnique'
      BY <2>2 DEF CommitInv, WitnessIsUnique
    <2>. QED BY <2>2, <2>4, <2>5 DEF CommitInv
  <1>. QED BY <1>1, <1>2 DEF Interfere

LEMMA NextKeeps == TypeOK /\ CommitInv /\ [Next]_vars => TypeOK' /\ CommitInv'
  <1>. SUFFICES ASSUME TypeOK, CommitInv, [Next]_vars PROVE TypeOK' /\ CommitInv'
    OBVIOUS
  <1>1. TypeOK'
    <2>1. CASE UNCHANGED vars
      BY <2>1 DEF vars, TypeOK
    <2>. QED BY <2>1, CallingType, WorldType DEF Next, CommitInv
  <1>2. CASE UNCHANGED vars
    <2>1. TypeOK'
      BY <1>2 DEF vars, TypeOK
    <2>2. DispatchInv'
      <3>1. \A op : Claimed(op) => Claimed(op)'
        BY <1>2, HistoryStays DEF vars, Claimed
      <3>2. ~Approved(call.op) => ~Approved(call.op)'
        BY <1>2 DEF vars, Approved, InLog
      <3>. QED BY <1>2, <3>1, <3>2 DEF vars, CommitInv, DispatchInv, Awaited
    <2>. QED BY <1>2, <2>1, <2>2, HistoryStays DEF vars, CommitInv
  <1>3. ASSUME \/ \E op \in Operations : Recover(op)
               \/ ArchiveCompleted \/ Refused \/ BoundaryRejects
               \/ DispatchAdd \/ CheckCandidate \/ DispatchCommit \/ Finish
               \/ AddStages \/ GitFails \/ Crash \/ Attribute \/ RemoveLock
        PROVE  CommitInv'
    <2>1. UNCHANGED <<log, manifest, commits>>
      BY <1>3 DEF Recover, ArchiveCompleted, Refused, BoundaryRejects, DispatchAdd,
           CheckCandidate, DispatchCommit, Finish, AddStages, GitFails, Crash, Attribute,
           RemoveLock, repository
    <2>. QED BY <1>3, <2>1, DispatchStays, HistoryStays DEF CommitInv
  <1>. QED BY <1>1, <1>2, <1>3, RequestKeeps, AppendKeeps, CancelKeeps, LandsKeeps,
              InterfereKeeps DEF Next

LEMMA CommitHolds == Spec => [](TypeOK /\ CommitInv)
  <1>1. Init => TypeOK /\ CommitInv
    BY InitType, InitInv
  <1>2. TypeOK /\ CommitInv /\ [Next]_vars => TypeOK' /\ CommitInv'
    BY NextKeeps
  <1>. QED BY <1>1, <1>2, PTL DEF Spec

(* Whatever dies, fails or interferes, no operation is committed twice, or  *)
(* once cancelled (commit.py:status, _recover).                             *)
THEOREM CommitsOnce == Spec => []WitnessIsUnique
  <1>1. CommitInv => WitnessIsUnique
    BY DEF CommitInv
  <1>. QED BY <1>1, CommitHolds, PTL

(* What Git was sent to do is covered by the marker until it has done it or *)
(* somebody has attributed its exit (commit.py:_recover, _archive_marker).  *)
THEOREM DispatchIsCovered == Spec => []MarkerCoversDispatch
  <1>1. CommitInv => MarkerCoversDispatch
    BY DEF CommitInv, DispatchInv, Claimed, MarkerCoversDispatch
  <1>. QED BY <1>1, CommitHolds, PTL

-----------------------------------------------------------------------------
(* Each step of a commit operation keeps the promise of Approval            *)

LEMMA DecisionStays ==
  ASSUME NEW op, (Approved(op)' <=> Approved(op)), (Cancelled(op)' <=> Cancelled(op)),
         Witnesses(op)' = Witnesses(op)
  PROVE  Decision(op)' = Decision(op)
  BY DEF Decision

(* Where `status` holds and nothing is pending, nothing awaits a decision.  *)
LEMMA NoneAwaits ==
  ASSUME MayWrite, NEW op \in Operations
  PROVE  Decision(op) # "pending"
  <1>1. Standing(op) \notin {"refused", "pending"}
    BY DEF MayWrite, StatusHolds, NonePending, Pending
  <1>. QED BY <1>1 DEF Standing, Decision

LEMMA StepPromised ==
  ASSUME TypeOK, CommitInv, Next
  PROVE  [Promise!Next]_([op \in Operations |-> Decision(op)])
  <1>. DEFINE d == [op \in Operations |-> Decision(op)]
  <1>1. ASSUME \A op \in Operations : Decision(op)' = Decision(op) PROVE UNCHANGED d
    BY <1>1
  <1>2. ASSUME UNCHANGED <<log, commits>>,
               UNCHANGED manifest \/ \E op \in Operations : RequestIntent(op)
        PROVE  UNCHANGED d
    <2>1. CASE UNCHANGED manifest
      BY <1>1, <1>2, <2>1, HistoryStays, DecisionStays
    <2>2. CASE \E op \in Operations : RequestIntent(op)
      <3>1. PICK op \in Operations : RequestIntent(op)
        BY <2>2
      <3>2. \A o : (Approved(o)' <=> Approved(o)) /\ (Cancelled(o)' <=> Cancelled(o))
        BY <1>2 DEF Approved, Cancelled, InLog
      <3>3. ~Approved(op)
        BY <3>1, CommitAssumption DEF CommitInv, HistoryInv, RequestIntent
      <3>4. \A o \in Operations \ {op} : Witnesses(o)' = Witnesses(o)
        BY <1>2, <3>1 DEF RequestIntent, Witnesses, Found, Candidate, TypeOK
      <3>5. Decision(op)' = Decision(op)
        BY <3>2, <3>3 DEF Decision
      <3>. QED BY <1>1, <3>2, <3>4, <3>5, DecisionStays
    <2>. QED BY <1>2, <2>1, <2>2
  <1>3. ASSUME AppendApproval PROVE [Promise!Next]_d
    <2>1. CASE UNCHANGED log
      BY <1>2, <1>3, <2>1 DEF AppendApproval, repository
    <2>2. CASE MayWrite /\ log' = Append(log, [ev |-> "approved", op |-> call.op])
      <3>1. PICK op \in Operations : call.op = op /\ ~Approved(op)
        BY <1>3 DEF AppendApproval, CommitInv, DispatchInv, TypeOK
      <3>2. /\ \A o : Approved(o)' <=> Approved(o) \/ o = op
            /\ \A o : (Cancelled(o)' <=> Cancelled(o))
        <4>1. [ev |-> "approved", op |-> op] \in Events
          BY DEF Events
        <4>. QED BY <2>2, <3>1, <4>1, LogGrows DEF Approved, Cancelled, TypeOK
      <3>3. Witnesses(op) = {} /\ ~Cancelled(op)
        BY <3>1, CommitAssumption DEF CommitInv, HistoryInv, Witnesses, Found
      <3>4. UNCHANGED <<manifest, commits>>
        BY <1>3 DEF AppendApproval, repository
      <3>5. Decision(op) = "unused" /\ Decision(op)' = "pending"
        BY <3>1, <3>2, <3>3, <3>4, WitnessesStay DEF Decision
      <3>6. \A o \in Operations \ {op} : Decision(o)' = Decision(o)
        BY <3>2, <3>4, WitnessesStay, DecisionStays
      <3>7. \A o \in Operations : Decision(o) # "pending"
        BY <2>2, NoneAwaits
      <3>8. Promise!Approve(op)
        BY <3>5, <3>6, <3>7 DEF Promise!Approve
      <3>. QED BY <3>8 DEF Promise!Next
    <2>. QED BY <1>3, <2>1, <2>2 DEF AppendApproval
  <1>4. ASSUME AppendOther PROVE UNCHANGED d
    <2>1. [ev |-> "other", op |-> None] \in Events
      BY DEF Events
    <2>2. \A op : (Approved(op)' <=> Approved(op)) /\ (Cancelled(op)' <=> Cancelled(op))
      BY <1>4, <2>1, LogGrows DEF AppendOther, Approved, Cancelled, TypeOK
    <2>. QED BY <1>1, <1>4, <2>2, WitnessesStay, DecisionStays DEF AppendOther, repository
  <1>5. ASSUME NEW op \in Operations, Cancel(op) PROVE Promise!Decide(op)
    <2>1. UNCHANGED <<manifest, commits>>
      BY <1>5 DEF Cancel, repository
    <2>2. /\ \A o : (Approved(o)' <=> Approved(o))
          /\ \A o : Cancelled(o)' <=> Cancelled(o) \/ o = op
      <3>1. [ev |-> "cancelled", op |-> op] \in Events
        BY DEF Events
      <3>. QED BY <1>5, <3>1, LogGrows DEF Cancel, Approved, Cancelled, TypeOK
    <2>3. Decision(op) = "pending" /\ Decision(op)' = "cancelled"
      BY <1>5, <2>2 DEF Cancel, Unwitnessed, Decision
    <2>4. \A o \in Operations \ {op} : Decision(o)' = Decision(o)
      BY <2>1, <2>2, WitnessesStay, DecisionStays
    <2>. QED BY <2>3, <2>4 DEF Promise!Decide
  <1>6. ASSUME CommitLands \/ CommitLandsAltered PROVE [Promise!Next]_d
    <2>1. PICK op \in Operations : child.op = op /\ Claimed(op)
      BY <1>6 DEF CommitInv, DispatchInv, Claimed, CommitLands, CommitLandsAltered, NoGit
    <2>2. PICK tree : Commit(tree, op)
      BY <1>6, <2>1 DEF CommitLands, CommitLandsAltered
    <2>3. UNCHANGED <<log, manifest>>
      BY <1>6 DEF CommitLands, CommitLandsAltered
    <2>4. Decision(op) = "pending"
      BY <2>1 DEF Claimed, Decision, Witnesses
    <2>5. \A o \in Operations \ {op} : Decision(o)' = Decision(o)
      BY <2>2, <2>3, CommitFound, DecisionStays DEF CommitInv
    <2>6. Decision(op)' \in {"pending", "completed"}
      BY <2>1, <2>2, <2>3, CommitFound DEF CommitInv, Claimed, Decision
    <2>7. CASE Decision(op)' = "pending"
      BY <1>1, <2>4, <2>5, <2>7
    <2>8. CASE Decision(op)' = "completed"
      <3>1. Promise!Decide(op)
        BY <2>4, <2>5, <2>8 DEF Promise!Decide
      <3>. QED BY <3>1 DEF Promise!Next
    <2>. QED BY <2>6, <2>7, <2>8
  <1>7. ASSUME Interfere PROVE UNCHANGED d
    <2>1. CASE UNCHANGED commits
      BY <1>2, <1>7, <2>1 DEF Interfere
    <2>2. CASE Commit(index, None)
      BY <1>1, <1>7, <2>2, CommitFound, DecisionStays, CommitAssumption DEF Interfere, CommitInv
    <2>. QED BY <1>7, <2>1, <2>2 DEF Interfere
  <1>8. ASSUME \/ \E op \in Operations : Recover(op) \/ RequestIntent(op)
               \/ ArchiveCompleted \/ Refused \/ BoundaryRejects
               \/ DispatchAdd \/ CheckCandidate \/ DispatchCommit \/ Finish
               \/ AddStages \/ GitFails \/ Crash \/ Attribute \/ RemoveLock
        PROVE  UNCHANGED d
    <2>1. /\ UNCHANGED <<log, commits>>
          /\ UNCHANGED manifest \/ \E op \in Operations : RequestIntent(op)
      BY <1>8 DEF Recover, RequestIntent, ArchiveCompleted, Refused, BoundaryRejects, DispatchAdd,
           CheckCandidate, DispatchCommit, Finish, AddStages, GitFails, Crash, Attribute,
           RemoveLock, repository
    <2>. QED BY <1>2, <2>1
  <1>. HIDE DEF d
  <1>9. [Promise!Next]_d
    BY <1>3, <1>4, <1>5, <1>6, <1>7, <1>8 DEF Next, Promise!Next
  <1>. QED BY <1>9 DEF d

(* A commit operation implements Approval: it is decided once, finally,     *)
(* and while it is open nothing else is approved (commit.py as a whole).    *)
THEOREM PromiseIsKept == Spec => ApprovalKept
  <1>1. Init => Promise!Init
    <2>. SUFFICES ASSUME Init PROVE \A op \in Operations : Decision(op) = "unused"
      BY DEF Promise!Init
    <2>. QED BY DEF Init, Decision, Approved, InLog
  <1>2. TypeOK /\ CommitInv /\ [Next]_vars
          => [Promise!Next]_([op \in Operations |-> Decision(op)])
    <2>1. CASE UNCHANGED vars
      BY <2>1, HistoryStays, DecisionStays DEF vars
    <2>. QED BY <2>1, StepPromised
  <1>3. Spec => [](TypeOK /\ CommitInv)
    <2>1. Init => TypeOK /\ CommitInv
      BY InitType, InitInv
    <2>. QED BY <2>1, NextKeeps, PTL DEF Spec
  <1>. QED BY <1>1, <1>2, <1>3, PTL DEF Spec, ApprovalKept, Promise!Spec
=============================================================================
