---------------------------- MODULE MCWriterLock ----------------------------
(* Two processes, one of two threads; a repository with two worktrees and   *)
(* another repository.                                                      *)
EXTENDS WriterLock, TLC

CONSTANTS runner, human, t1, t2, u1, main, linked, other, repo, alone

ProcessOfThreads == (t1 :> runner) @@ (t2 :> runner) @@ (u1 :> human)
FolderOfRoots    == (main :> repo) @@ (linked :> repo) @@ (other :> alone)
=============================================================================
