------------------------------- MODULE SeatCall -------------------------------
(***************************************************************************)
(* One call of a child process: run_process of src/src/frutlups/procs.py   *)
(* on POSIX with a thread draining each pipe, and its three callers, the   *)
(* Pi seat, the Claude seat and the verification of a suite.  The child    *)
(* may fork into its own session or escape from it; whoever is alive holds *)
(* the pipes open and writes.  The deadline may pass at any time, a join   *)
(* may be slower than its thread, and each operation of the system may     *)
(* fail.                                                                   *)
(*                                                                         *)
(* Modelled once: both pipes carry the same processes, so that the drain   *)
(* of stderr differs only in having no consumer; here it can only fail.    *)
(* Left out: Windows jobs, the input file, and the times themselves.       *)
(***************************************************************************)
EXTENDS PiStream

CONSTANTS
  Callers,    \* subset of {"pi", "claude", "suite"}
  Said,       \* kinds of lines that each process of a call of each caller writes
  TailLimit,  \* units of the tail kept of a suite (tail_limit)
  MaxSteps,   \* bound: lines written and processes forked in a call
  MaxFaults   \* bound: operations that fail

Family == {"child", "inside", "escaped"}

ASSUME CallAssumption ==
  /\ Callers \subseteq {"pi", "claude", "suite"}
  /\ Said \in [Callers -> [Family -> SUBSET Kinds]]
  /\ TailLimit \in Nat \ {0} /\ MaxSteps \in Nat /\ MaxFaults \in Nat

VARIABLES
  caller,
  at,        \* where run_process and its caller are
  life,      \* the child, a descendant of its session, one that escaped from it
  code,      \* how the child ended: 0, 1, -9 when killed, -1 before
  output,    \* all that was written to the pipe
  steps,     \* lines written and processes forked
  taken,     \* units of the output that the thread has read
  thread,    \* the thread that drains the pipe
  deaf,      \* the consumer has raised and is not called again
  stream,    \* the stream of the Pi seat
  kept,      \* the captured file, of a suite its tail
  cut,       \* something was not kept
  errors,    \* an error was noted
  exit,      \* exit code the parent has collected, -1 before
  timedOut,
  process,   \* the ProcessResult
  answer,    \* what the caller makes of it
  faults

vars == <<caller, at, life, code, output, steps, taken, thread, deaf, stream, kept, cut,
          errors, exit, timedOut, process, answer, faults>>

outside == <<life, code, output, steps>>
drained == <<taken, thread, deaf, stream, kept, cut>>
parent  == <<exit, timedOut, process, answer>>

NoProcess == [exit |-> -1, timedOut |-> FALSE, exception |-> FALSE, truncated |-> FALSE]
NoAnswer  == [status |-> "none", class |-> "none", usage |-> "unknown"]

Living(p) == life[p] \in {"alive", "dying"}
Open      == \E p \in Family : Living(p)

TypeOK ==
  /\ caller \in Callers
  /\ at \in {"launching", "waiting", "reaping", "joining", "answering", "returned"}
  /\ life \in [Family -> {"unborn", "alive", "dying", "gone"}]
  /\ code \in {-9, -1, 0, 1} /\ (code # -1 <=> life["child"] = "gone")
  /\ output \in Seq(Units) /\ taken \in 0..Len(output)
  /\ steps \in 0..MaxSteps
  /\ thread \in {"none", "reading", "ended", "failed"}
  /\ stream \in Streams
  /\ kept \in Seq(Units)
  /\ Len(kept) <= IF caller = "suite" THEN TailLimit ELSE KeepCap
  /\ {deaf, cut, errors, timedOut} \subseteq BOOLEAN
  /\ exit \in {-1, code}
  /\ process \in [exit : {-1, exit}, timedOut : BOOLEAN, exception : BOOLEAN,
                  truncated : BOOLEAN]
  /\ answer \in [status : {"none", "completed", "failed", "timed_out", "unresolved"},
                 class : {"none", "timeout", "transport", "capacity", "output"},
                 usage : {"unknown", "partial", "complete"}]
  /\ faults \in 0..MaxFaults

Init ==
  /\ caller \in Callers
  /\ at = "launching"
  /\ life = [p \in Family |-> "unborn"] /\ code = -1
  /\ output = <<>> /\ steps = 0
  /\ taken = 0 /\ thread = "none" /\ deaf = FALSE /\ stream = Fresh
  /\ kept = <<>> /\ cut = FALSE
  /\ errors = FALSE /\ exit = -1 /\ timedOut = FALSE
  /\ process = NoProcess /\ answer = NoAnswer
  /\ faults = 0

Fault == faults < MaxFaults /\ faults' = faults + 1

-----------------------------------------------------------------------------
(* The processes of the call.                                              *)

\* Nobody looks any more at what is written or read after the answer.
Watched    == thread = "reading" /\ at # "returned"
Written(p) == IF Watched /\ steps < MaxSteps THEN Said[caller][p] ELSE {}

\* A process may end in the middle of a line, or of its newline.
Tails(p) ==
  {<<>>} \cup UNION {{SubSeq(Whole(k), 1, n) : n \in 1..Size[k]} : k \in Written(p)}

Speak(p) ==
  /\ life[p] = "alive"
  /\ \E k \in Written(p) : output' = output \o Whole(k) \o <<Newline>>
  /\ steps' = steps + 1
  /\ UNCHANGED <<caller, at, life, code, drained, errors, parent, faults>>

Gone(p, how) ==
  /\ life' = [life EXCEPT ![p] = "gone"]
  /\ \E t \in Tails(p) :
       /\ output' = output \o t
       /\ steps' = IF t = <<>> THEN steps ELSE steps + 1
  /\ code' = IF p = "child" THEN how ELSE code
  /\ UNCHANGED <<caller, at, drained, errors, parent, faults>>

Leave(p) == life[p] = "alive" /\ \E how \in IF p = "child" THEN {0, 1} ELSE {0} : Gone(p, how)

Die(p) == life[p] = "dying" /\ Gone(p, -9)

\* Only a process of the session has children in it.
Fork(p) ==
  /\ life[p] = "unborn"
  /\ \E q \in {"child", "inside"} : life[q] = "alive"
  /\ steps < MaxSteps /\ steps' = steps + 1
  /\ life' = [life EXCEPT ![p] = "alive"]
  /\ UNCHANGED <<caller, at, code, output, drained, errors, parent, faults>>

-----------------------------------------------------------------------------
(* The thread: it hands every chunk on and keeps what it may.              *)

Consumer == caller = "pi" /\ ~deaf

FirstOf(text, n) == SubSeq(text, 1, IF Len(text) > n THEN n ELSE Len(text))
LastOf(text, n)  == SubSeq(text, IF Len(text) > n THEN Len(text) - n + 1 ELSE 1, Len(text))

\* A suite keeps the tail of its output, a seat the beginning.
Retain(chunk) ==
  /\ kept' = IF caller = "suite" THEN LastOf(kept \o chunk, TailLimit)
             ELSE kept \o FirstOf(chunk, KeepCap - Len(kept))
  /\ cut' = (cut \/ Len(kept') < Len(kept) + Len(chunk))

Read ==
  /\ Watched /\ taken < Len(output)
  /\ \E n \in 1..(Len(output) - taken) :
       LET chunk == SubSeq(output, taken + 1, taken + n)
       IN /\ taken' = taken + n
          /\ Retain(chunk)
          /\ \/ /\ stream' = IF Consumer THEN Feed(stream, chunk) ELSE stream
                /\ UNCHANGED <<deaf, errors, faults>>
             \/ /\ Consumer /\ Fault                \* the consumer raises
                /\ deaf' = TRUE /\ errors' = TRUE
                /\ UNCHANGED stream
  /\ UNCHANGED <<caller, at, outside, thread, parent>>

\* A tail that was cut starts inside a line: that line is dropped.
TailAsCut == kept
TailFromLine ==
  IF \E i \in DOMAIN kept : kept[i] = Newline
    THEN SubSeq(kept, 1 + CHOOSE i \in DOMAIN kept :
                            /\ kept[i] = Newline
                            /\ \A j \in 1..(i - 1) : kept[j] # Newline, Len(kept))
    ELSE <<>>

\* The end of the output is read when nobody holds the pipe any more.
ReadEnd ==
  /\ Watched /\ taken = Len(output) /\ ~Open
  /\ thread' = "ended"
  /\ stream' = IF Consumer THEN AtEnd(stream) ELSE stream
  /\ kept' = IF caller = "suite" /\ cut THEN TailFromLine ELSE kept
  /\ UNCHANGED <<caller, at, outside, taken, deaf, cut, errors, parent, faults>>

\* Reading or writing fails: the thread ends and closes the pipe.
DrainFails ==
  /\ Watched /\ Fault
  /\ errors' = TRUE
  /\ \/ thread' = "failed" \/ UNCHANGED thread   \* this drain, or that of stderr
  /\ UNCHANGED <<caller, at, outside, taken, deaf, stream, kept, cut, parent>>

-----------------------------------------------------------------------------
(* run_process.                                                            *)

Launch ==
  /\ at = "launching"
  /\ at' = "waiting"
  /\ life' = [life EXCEPT !["child"] = "alive"]
  /\ thread' = "reading"
  /\ UNCHANGED <<caller, code, output, steps, taken, deaf, stream, kept, cut, errors,
                 parent, faults>>

LaunchFails ==
  /\ at = "launching" /\ Fault
  /\ at' = "joining" /\ errors' = TRUE
  /\ UNCHANGED <<caller, outside, drained, parent>>

\* The adapter refuses the job or cannot prepare it (result_boundary).
Unprepared ==
  /\ at = "launching" /\ Fault
  /\ at' = "returned"
  /\ answer' = [status |-> "failed", class |-> "output", usage |-> "unknown"]
  /\ UNCHANGED <<caller, outside, drained, errors, exit, timedOut, process>>

\* The session is killed, also when its leader has ended by itself.
ChildOnly == {"child"}
Session   == {"child", "inside"}

Kill ==
  /\ at' = "reaping"
  /\ life' = [p \in Family |-> IF p \in Session /\ life[p] = "alive" THEN "dying" ELSE life[p]]
  /\ UNCHANGED <<caller, code, output, steps, drained, errors, exit, process, answer, faults>>

\* The child is killed at its deadline, which it may just have met.
WaitEnds == at = "waiting" /\ life["child"] = "gone" /\ Kill /\ UNCHANGED timedOut
Deadline == at = "waiting" /\ Kill /\ timedOut' = TRUE

Reap ==
  /\ at = "reaping" /\ life["child"] = "gone"
  /\ at' = "joining" /\ exit' = code
  /\ UNCHANGED <<caller, outside, drained, errors, timedOut, process, answer, faults>>

\* A killed process that does not die is given up after ten seconds.
ReapFails ==
  /\ at = "reaping" /\ life["child"] = "dying" /\ Fault
  /\ at' = "joining" /\ errors' = TRUE
  /\ UNCHANGED <<caller, outside, drained, parent>>

\* The joins end with their threads or after five seconds each; a thread that
\* is still alive then is an error.
Exception == errors \/ thread = "reading"

Join ==
  /\ at = "joining"
  /\ at' = "answering"
  /\ process' = [exit |-> exit, timedOut |-> timedOut, exception |-> Exception,
                 truncated |-> cut]
  /\ UNCHANGED <<caller, outside, drained, errors, exit, timedOut, answer, faults>>

-----------------------------------------------------------------------------
(* The answer of the caller.  The stream is read as it then is.            *)

SeatAnswer(class, usage) ==
  [status |-> IF class = "none" THEN "completed"
              ELSE IF process.timedOut THEN "timed_out" ELSE "failed",
   class |-> class, usage |-> usage]

\* receipt._execute: an exception leaves the disposition unresolved.
SuiteAnswer ==
  [status |-> IF process.exception THEN "unresolved"
              ELSE IF process.timedOut THEN "timed_out"
              ELSE IF process.exit = 0 THEN "completed" ELSE "failed",
   class |-> "none", usage |-> "unknown"]

Answer ==
  /\ at = "answering"
  /\ at' = "returned"
  /\ answer' = CASE caller = "suite"  -> SuiteAnswer
                 [] caller = "pi"     -> LET class == PiOutcome(stream, process)
                                         IN SeatAnswer(class, PiUsage(stream, class))
                 [] caller = "claude" -> LET class == ClaudeOutcome(kept, process)
                                         IN SeatAnswer(class, ClaudeUsage(kept, class))
  /\ UNCHANGED <<caller, outside, drained, errors, exit, timedOut, process, faults>>

-----------------------------------------------------------------------------
Running  == \E p \in Family : Speak(p) \/ Leave(p) \/ Die(p) \/ (p # "child" /\ Fork(p))
Draining == Read \/ ReadEnd \/ DrainFails
Calling  ==
  \/ Launch \/ LaunchFails \/ Unprepared \/ WaitEnds \/ Deadline
  \/ Reap \/ ReapFails \/ Join \/ Answer

Next == Running \/ Draining \/ Calling

Spec == Init /\ [][Next]_vars

\* Time passes and the call goes on, and a process that was killed dies.
\* Nobody else has to end, to write or to read.
FairSpec ==
  /\ Spec
  /\ WF_vars(Calling)
  /\ \A p \in Family : WF_vars(Die(p))

-----------------------------------------------------------------------------
(* Properties.                                                             *)

\* A call keeps the promise of a seat: it answers, and it completes only with
\* the whole output of processes that are all gone, of a child that exited 0 in
\* time, whatever the threads had read when they were joined (run_process,
\* _Stream.outcome).
Promise ==
  INSTANCE SeatPromise WITH
    closed <- life["child"] # "unborn" /\ ~Open,
    late   <- timedOut,
    answer <- answer.status

PromiseKept == Promise!Spec

\* However the pipe splits the output into chunks, the stream stands where one
\* that had been given every finished line at once would stand, and holds back
\* the beginning of the next (_Stream.feed).
Told(st, piece) == IF Len(piece.text) > Cap THEN Error(st) ELSE Record(st, piece.text)

StreamIsOfLines ==
  (caller = "pi" /\ ~deaf) =>
    LET pieces == Pieces(SubSeq(output, 1, taken))
        over   == Len(Rest(pieces)) > Cap
        ended  == thread = "ended"
        told   == FoldLeft(Told, Fresh, IF ended THEN pieces ELSE Ended(pieces))
    IN stream = [told EXCEPT
         !.finished   = ended,
         !.pending    = IF over \/ ended THEN <<>> ELSE Rest(pieces),
         !.discarding = over,
         !.diagnostic = @ \/ over,
         !.whole      = @ /\ ~over]

\* What is kept of a suite when its drain has ended is made of whole lines of
\* its output, to the end of it: nothing published starts inside a line (_drain).
TailIsWholeLines ==
  (caller = "suite" /\ thread = "ended") =>
    \E i \in 0..Len(output) :
      /\ kept = SubSeq(output, i + 1, Len(output))
      /\ i = 0 \/ output[i] = Newline \/ kept = <<>>

\* An answer other than `completed' has a cause: a failed operation, a deadline,
\* the exit of the child, a pipe held open, or an output that does not say so
\* (PiSeat.run, ClaudeSeat.run, _execute).
NothingIsLost ==
  (at = "returned" /\ answer.status # "completed") =>
    \/ faults > 0 \/ timedOut \/ code # 0
    \/ process.exception
    \/ ~Says(caller, output)

\* Usage is called complete only of a completed call whose every line was
\* counted, and a failed call does not hide what is known to be spent
\* (completeness, _metrics).
UsageIsHonest ==
  (at = "returned" /\ caller = "pi") =>
    LET lines   == Lines(SubSeq(output, 1, taken))
        spent   == {n \in DOMAIN lines : Decoded(lines[n]) \in Counted}
        partial == {n \in DOMAIN lines : Decoded(lines[n]) \in {"helper", "bad"}}
    IN /\ answer.usage = "complete" =>
            answer.status = "completed" /\ partial = {} /\ stream.usage = Cardinality(spent)
       /\ answer.usage = "unknown" => stream.usage = 0

\* The processes of the session do not outlive the call, also when the child
\* had ended before (run_process, os.killpg).
SessionEnds ==
  (at = "returned") ~> \A p \in {"child", "inside"} : life[p] \in {"unborn", "gone"}
=============================================================================
