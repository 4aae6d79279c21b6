------------------------------ MODULE MCRunner ------------------------------
(* Small projects for the runner: one milestone of one slice.               *)
EXTENDS Runner, TLC

CONSTANTS m1, s1, coder, reader, critic

OneMilestone == [s \in Slices |-> m1]
Order        == [s \in Slices |-> 1]

OneReader  == <<reader>>
TwoReaders == <<reader, critic>>

Give(jobs, retries) ==
  [u \in Units |-> IF u \in {"jobs", "seconds"} THEN jobs ELSE retries]
OneJob    == {Give(1, 0)}
FourJobs  == {Give(4, 0)}
WithRetry == {Give(4, 1)}
Scarce    == OneJob \cup WithRetry

(* Invocations are not symmetric: a reservation picks a fresh one.          *)
Names == UNION {Permutations(S) : S \in {Runs, Authorities, Failures \ Inconclusive}}
=============================================================================
