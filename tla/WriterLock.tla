----------------------------- MODULE WriterLock -----------------------------
(***************************************************************************)
(* src/src/frutlups/ownership.py: the lock every writer takes.  It is a    *)
(* file lock in the Git directory that linked worktrees share, held once   *)
(* per process, and the process-wide tables _owners and _roots make it     *)
(* reentrant for the thread that holds it, by any worktree.                *)
(*                                                                         *)
(* Entering takes two steps under _guard with `git rev-parse` between      *)
(* them; leaving takes one.  A process may die at any time, which          *)
(* releases its file locks and loses its tables.                           *)
(***************************************************************************)
EXTENDS Integers, Sequences

CONSTANTS
  Processes, Threads,
  ProcessOf,    \* the process of each thread
  Roots,        \* worktrees
  Folders,      \* Git common directories
  FolderOf,     \* the common directory of each worktree
  None          \* no holder

CONSTANT
  MaxDepth      \* bound: nested entries of one thread

ASSUME LockAssumption ==
  /\ ProcessOf \in [Threads -> Processes]
  /\ FolderOf \in [Roots -> Folders]
  /\ None \notin Processes \cup Threads \cup Roots
  /\ MaxDepth \in Nat

VARIABLES
  flock,      \* the process holding the file lock of each folder
  owners,     \* _owners of each process
  roots,      \* _roots of each process
  entering,   \* the worktree a thread is asking Git about
  frames      \* the entries each thread is inside of, outermost first

vars == <<flock, owners, roots, entering, frames>>

\* An entry changes no table, only _roots, or everything.
Kinds  == {"reentrant", "nested", "outer"}
Frames == [root : Roots, kind : Kinds]

TypeOK ==
  /\ flock \in [Folders -> Processes \cup {None}]
  /\ owners \in [Processes -> [Folders -> Threads \cup {None}]]
  /\ roots \in [Processes -> [Roots -> Threads \cup {None}]]
  /\ entering \in [Threads -> Roots \cup {None}]
  /\ frames \in [Threads -> Seq(Frames)]

Init ==
  /\ flock = [f \in Folders |-> None]
  /\ owners = [p \in Processes |-> [f \in Folders |-> None]]
  /\ roots = [p \in Processes |-> [r \in Roots |-> None]]
  /\ entering = [t \in Threads |-> None]
  /\ frames = [t \in Threads |-> <<>>]

\* A writer is a thread of a process, not the process.
Owner(t) == t

Push(t, r, kind) == frames' = [frames EXCEPT ![t] = Append(@, [root |-> r, kind |-> kind])]

\* The thread is inside of this very worktree already.
EnterAgain(t, r) ==
  /\ entering[t] = None /\ Len(frames[t]) < MaxDepth
  /\ roots[ProcessOf[t]][r] = Owner(t)
  /\ Push(t, r, "reentrant")
  /\ UNCHANGED <<flock, owners, roots, entering>>

Ask(t, r) ==
  /\ entering[t] = None /\ Len(frames[t]) < MaxDepth
  /\ roots[ProcessOf[t]][r] # Owner(t)
  /\ entering' = [entering EXCEPT ![t] = r]
  /\ UNCHANGED <<flock, owners, roots, frames>>

Register(t, r) ==
  /\ roots' = [roots EXCEPT ![ProcessOf[t]][r] = Owner(t)]
  /\ entering' = [entering EXCEPT ![t] = None]

\* The thread owns the folder by another worktree.
EnterNested(t) ==
  LET r == entering[t] IN
  /\ r # None
  /\ owners[ProcessOf[t]][FolderOf[r]] = Owner(t)
  /\ Register(t, r)
  /\ Push(t, r, "nested")
  /\ UNCHANGED <<flock, owners>>

\* Nobody in this process owns it: the file lock is tried, never waited for.
EnterOuter(t) ==
  LET r == entering[t]
      f == FolderOf[r] IN
  /\ r # None
  /\ owners[ProcessOf[t]][f] = None
  /\ flock[f] = None
  /\ flock' = [flock EXCEPT ![f] = ProcessOf[t]]
  /\ owners' = [owners EXCEPT ![ProcessOf[t]][f] = Owner(t)]
  /\ Register(t, r)
  /\ Push(t, r, "outer")

\* "another writer owns the repository", or Git fails.
Refuse(t) ==
  /\ entering[t] # None
  /\ entering' = [entering EXCEPT ![t] = None]
  /\ UNCHANGED <<flock, owners, roots, frames>>

\* Only the outermost entry gives the folder up.
LastIsNotReentrant(t) == frames[t][Len(frames[t])].kind # "reentrant"
LastIsOuter(t)        == frames[t][Len(frames[t])].kind = "outer"

Leave(t) ==
  LET p == ProcessOf[t]
      r == frames[t][Len(frames[t])].root
      f == FolderOf[r] IN
  /\ entering[t] = None /\ frames[t] # <<>>
  /\ frames' = [frames EXCEPT ![t] = SubSeq(@, 1, Len(@) - 1)]
  /\ roots' = IF frames[t][Len(frames[t])].kind = "reentrant" THEN roots
              ELSE [roots EXCEPT ![p][r] = None]
  /\ owners' = IF LastIsOuter(t) THEN [owners EXCEPT ![p][f] = None] ELSE owners
  /\ flock' = IF LastIsOuter(t) THEN [flock EXCEPT ![f] = None] ELSE flock
  /\ UNCHANGED entering

\* The process dies, and may be started again.
Die(p) ==
  /\ flock' = [f \in Folders |-> IF flock[f] = p THEN None ELSE flock[f]]
  /\ owners' = [owners EXCEPT ![p] = [f \in Folders |-> None]]
  /\ roots' = [roots EXCEPT ![p] = [r \in Roots |-> None]]
  /\ entering' = [t \in Threads |-> IF ProcessOf[t] = p THEN None ELSE entering[t]]
  /\ frames' = [t \in Threads |-> IF ProcessOf[t] = p THEN <<>> ELSE frames[t]]

Next ==
  \/ \E t \in Threads :
       \/ \E r \in Roots : EnterAgain(t, r) \/ Ask(t, r)
       \/ EnterNested(t) \/ EnterOuter(t) \/ Refuse(t) \/ Leave(t)
  \/ \E p \in Processes : Die(p)

Spec == Init /\ [][Next]_vars

-----------------------------------------------------------------------------
(* Properties.                                                             *)

InsideOf(t, f) == \E i \in DOMAIN frames[t] : FolderOf[frames[t][i].root] = f

\* Two threads, of one process or of two, by one worktree or by two linked
\* ones, are never both inside of the lock of a repository (writer_lock).
MutualExclusion ==
  \A t, u \in Threads, f \in Folders : InsideOf(t, f) /\ InsideOf(u, f) => t = u

\* A thread inside holds the file lock and the table entry of the repository
\* until its outermost entry is left, in whatever order worktrees were nested.
LockCoversFrames ==
  \A t \in Threads, f \in Folders :
    InsideOf(t, f) => flock[f] = ProcessOf[t] /\ owners[ProcessOf[t]][f] = t

\* Nothing is held by nobody: a lock that is taken has a thread inside, so a
\* refusal always names a live writer (writer_lock's finally).
NothingLeaks ==
  /\ \A f \in Folders : flock[f] # None =>
       \E t \in Threads : ProcessOf[t] = flock[f] /\ InsideOf(t, f)
  /\ \A p \in Processes, r \in Roots : roots[p][r] # None =>
       \E i \in DOMAIN frames[roots[p][r]] : frames[roots[p][r]][i].root = r
=============================================================================
