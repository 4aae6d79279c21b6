--------------------------- MODULE MCCommitIntent ---------------------------
(* CommitIntent on two operations and two contents.  They are not declared  *)
(* symmetric: the run checks liveness.                                      *)
EXTENDS CommitIntent
=============================================================================
