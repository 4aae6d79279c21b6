----------------------------- MODULE MCFindings -----------------------------
(* A milestone of two slices, one or two reviewers, a few reports.          *)
EXTENDS Findings, TLC

CONSTANTS m1, s1, s2, reader, critic, f

Order      == [s \in Slices |-> IF s = s1 THEN 1 ELSE 2]
(* The first slice is at more risk.                                         *)
ByRisk     == [s \in Slices |-> IF s = s1 THEN <<reader, critic>> ELSE <<reader>>]
(* The name begins with the second slice, whoever reports it.               *)
Prefixes   == [b \in Base |-> s2]

Row(severity, disposition) == [severity |-> severity, disposition |-> disposition]
Saying(verdict, rows)      == [verdict |-> verdict, findings |-> rows]

FewReports ==
  {Saying("pass", <<>>),
   Saying("needs_work", <<f>> :> Row("P2", "open")),
   Saying("blocked", <<f>> :> Row("P3", "open"))}
=============================================================================
