------------------------------ MODULE MCSeatCall ------------------------------
(* A call with a few lines of one or two units; some are longer than read.  *)
EXTENDS SeatCall

\* An answer is as long as a line may be; a note is longer.
Sizes == [k \in Kinds |-> CASE k = "note" -> 3 [] k = "answer" -> 2 [] OTHER -> 1]

\* The kinds that matter to the reader of each caller.
Lively(child, inside, escaped) ==
  [p \in Family |-> CASE p = "child" -> child [] p = "inside" -> inside [] OTHER -> escaped]
Talk ==
  [c \in Callers |->
     CASE c = "pi" -> Lively({"answer", "retry", "settled", "note"}, {"helper"}, {"turn", "start"})
       [] c = "claude" -> Lively({"answer", "long"}, {"refused"}, {"answer"})
       [] OTHER -> Lively({"answer", "turn"}, {"turn"}, {"answer"})]
=============================================================================
