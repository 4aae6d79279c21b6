------------------------------ MODULE MCLedger ------------------------------
(* Small instances of the ledger for TLC. *)
EXTENDS Ledger, TLC

CONSTANTS m1, s1, s2

(* One milestone; the roadmap order is s1, s2.                              *)
OneMilestone == [s \in Slices |-> m1]
Order        == [s \in Slices |-> IF s = s1 THEN 1 ELSE 2]

Give(jobs, transport, format, seconds) ==
  [jobs |-> jobs, transport_retries |-> transport, format_retries |-> format,
   seconds |-> seconds]

NoAllowance    == {}
OneAllowance   == {Give(1, 1, 1, 1)}
RetryAllowance == {Give(3, 2, 1, 2), Give(3, 0, 1, 2)}

Names == Permutations(Invocations) \cup Permutations(Runs)
         \cup Permutations(Authorities) \cup Permutations(Operations)
=============================================================================
