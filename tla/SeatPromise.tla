----------------------------- MODULE SeatPromise -----------------------------
(***************************************************************************)
(* What a call of a child process promises its caller: an answer, one only *)
(* and whatever the processes do, and `completed' only when everything that *)
(* will ever be written has been written, the process has exited 0 in time, *)
(* and the whole output, not the part that happened to be read, says so.    *)
(***************************************************************************)
EXTENDS Integers, Sequences, SequencesExt

CONSTANTS
  Callers,    \* kinds of callers
  Says(_, _)  \* the output of a call is a final answer to its caller

VARIABLES
  caller,
  output,     \* all that the processes of the call have written
  closed,     \* none of them is left to write more
  late,       \* the deadline has passed
  code,       \* exit code of the process, -1 before
  answer      \* status given to the caller, "none" before

Init ==
  /\ caller \in Callers
  /\ output = <<>> /\ closed = FALSE /\ late = FALSE
  /\ code = -1 /\ answer = "none"

\* The processes of the call write and end, in any order, until all have.
Runs ==
  /\ ~closed
  /\ IsPrefix(output, output')
  /\ code = -1 \/ code' = code
  /\ UNCHANGED <<late, answer>>

Decides ==
  /\ answer = "none" /\ answer' # "none"
  /\ answer' = "completed" => closed /\ code = 0 /\ ~late /\ Says(caller, output)
  /\ UNCHANGED <<output, closed, late, code>>

\* The deadline counts until there is an answer.
Waits ==
  /\ answer = "none" /\ late' = TRUE
  /\ UNCHANGED <<output, closed, code, answer>>

Next == (Runs \/ Decides \/ Waits) /\ UNCHANGED caller

Answers == <>(answer # "none")

vars == <<caller, output, closed, late, code, answer>>

Safety == Init /\ [][Next]_vars

Spec == Safety /\ Answers
=============================================================================
