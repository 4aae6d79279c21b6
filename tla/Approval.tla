------------------------------ MODULE Approval ------------------------------
(***************************************************************************)
(* What commit.py promises of an approval that is to be committed: it is   *)
(* pending until one decision, completed or cancelled, is made about it,   *)
(* the decision is final, and nothing else is approved in the meantime.    *)
(***************************************************************************)
CONSTANT Operations

VARIABLE decision

Decisions == {"unused", "pending", "completed", "cancelled"}

Init == decision = [op \in Operations |-> "unused"]

Approve(op) ==
  /\ \A other \in Operations : decision[other] # "pending"
  /\ decision[op] = "unused"
  /\ decision' = [decision EXCEPT ![op] = "pending"]

Decide(op) ==
  /\ decision[op] = "pending"
  /\ \E d \in {"completed", "cancelled"} : decision' = [decision EXCEPT ![op] = d]

Next == \E op \in Operations : Approve(op) \/ Decide(op)

Spec == Init /\ [][Next]_decision

\* An approval does not stay pending.
LiveSpec == Spec /\ \A op \in Operations : WF_decision(Decide(op))
=============================================================================
