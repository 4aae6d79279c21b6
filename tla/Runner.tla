------------------------------- MODULE Runner -------------------------------
(***************************************************************************)
(* The runner of frutlups over the ledger: loop.py, _attempts.py, the      *)
(* guarded writers of ledger.py and the probes of _preflight.py.           *)
(*                                                                         *)
(* One process at a time holds the writer lock for the whole of a run, and *)
(* moves one slice by one transition per iteration.  Each action is a step *)
(* between two durable writes or a call of a seat, so that a crash may     *)
(* separate any two of them.  Files are written before the event that      *)
(* records them; a file without its event is loose.  People act only while *)
(* no process runs: grants, extensions, resolutions, edits, tidying.       *)
(*                                                                         *)
(* Every action appends by an action of Ledger, under guards of its own.   *)
(* A contract digest is what it is computed from: the seat, the product    *)
(* and the prompts issued.  The product stands for the paths a manifest    *)
(* names, Base for what HEAD holds of them; approvals commit nothing here  *)
(* (CommitIntent).  Milestones have no holistic gate.                      *)
(***************************************************************************)
EXTENDS Ledger, Sequences

CONSTANTS
  Route,            \* seats that review a slice, in order
  Coder,            \* the seat that codes
  Suite,            \* the verification command, in the place of a seat
  ProbePlan,        \* one seat per distinct identity on the route
  CorrectiveRounds, \* max_corrective_rounds of the configuration
  Contents,         \* contents of the product
  Base,             \* the content in HEAD
  Entries,          \* how a process may start: "run" (public), "loop" (Loop)
  Failures,         \* what the receipt of a failed run of the suite shows
  Inconclusive      \* the failures of which it does not show everything

CONSTANTS
  Sweeps,           \* whether people who tidy up remove ignored files too
  MaxCrashes,       \* bound: processes that die or fail in mid-step
  MaxEdits          \* bound: edits of the product by people

Reviewers == {Route[n] : n \in DOMAIN Route}
Seats     == Reviewers \cup {Coder}

Opinions == {"pass", "needs_work", "blocked"}
Answers  == Opinions \cup {"malformed", "transport", "refused"}

(* A failure is the exit, the timeout, the output and the runtime of a run  *)
(* that left the product alone; one whose output was cut proves nothing.    *)
Tested == {"ok", "unstable"} \cup Failures

Digests == [seat : Seats \cup {Suite}, product : Contents, issued : [Slices -> 0..MaxRound]]

ASSUME RunnerAssumption ==
  /\ Autonomy
  /\ HolisticReview = {}
  /\ Contracts = Digests
  /\ Route \in Seq(Reviewers)
  /\ ProbePlan \subseteq Seats
  /\ Suite \notin Seats /\ Coder \notin Reviewers
  /\ CorrectiveRounds \in Nat
  /\ Base \in Contents
  /\ Entries \subseteq {"run", "loop"}
  /\ Failures \cap ({"ok", "unstable", "none"} \cup Answers) = {}
  /\ Inconclusive \subseteq Failures
  /\ Sweeps \subseteq BOOLEAN
  /\ MaxCrashes \in Nat /\ MaxEdits \in Nat

Files   == {"prompt", "started", "dispatch", "outcome", "receipt", "answer",
            "package", "report", "proof"}
Coding  == {"implemented", "blocked", "malformed", "transport", "refused"}

VARIABLES
  last,       \* what the last line of the ledger is
  evidence,   \* what the evidence file of an invocation says
  loose,      \* evidence files written and not recorded
  recorded,   \* artifact events: file, slice and round
  marked,     \* coding markers under local_state: slice and round
  product,    \* the product in the working tree
  accounted   \* the product the ledger accounts for

VARIABLES
  at,         \* where the process is, "off" when there is none
  call,       \* the invocation it is about
  heard,      \* what the coder reported
  probed,     \* its readiness was established
  crashes, edits

durable  == <<last, evidence, loose, recorded, marked, product, accounted>>
volatile == <<at, call, heard, probed>>
bounds   == <<crashes, edits>>
rvars    == <<vars, durable, volatile, bounds>>

Places == {"off", "preflight", "idle", "issuing", "ready", "marking", "started",
           "dispatching", "coding", "coded", "outcome", "recording",
           "testing", "tested", "settled",
           "presenting", "asking", "reviewing", "answered", "reporting", "proving"}
Lines  == [line : {"other", "finish", "dispatch", "proof"},
           of : Invocations \cup (Slices \X (1..MaxRound)) \cup {None}]

Line(kind, of) == [line |-> kind, of |-> of]
Other          == Line("other", None)

(* The state of the runner has the shape its files and fields give it; a    *)
(* call is about an invocation.                                             *)
RunnerTypeOK ==
  /\ TypeOK
  /\ last \in Lines
  /\ evidence \in [Invocations -> Tested \cup Answers \cup {"none"}]
  /\ loose \in SUBSET Files
  /\ recorded \in SUBSET (Files \X Slices \X (1..MaxRound))
  /\ marked \in SUBSET (Slices \X (1..MaxRound))
  /\ product \in Contents /\ accounted \in Contents
  /\ at \in Places
  /\ call \in Invocations \cup {None}
  /\ at \in {"coding", "coded", "testing", "tested", "settled", "reviewing", "answered"}
       => call # None
  /\ heard \in Coding \cup {"none"}
  /\ probed \in BOOLEAN
  /\ crashes \in 0..MaxCrashes /\ edits \in 0..MaxEdits

-----------------------------------------------------------------------------
(* What the runner reads before it acts *)

Round(s) == slices[s].round
Here(s)  == <<s, Round(s)>>

Recorded(file, s) == <<file, s, Round(s)>> \in recorded

(* Every change of the working tree is recorded, or gone.                   *)
Clean == loose = {} /\ product \in {accounted, Base}

Waiting      == {s \in Slices : slices[s].step # "accepted"}
ReopenedWork == {s \in Waiting : slices[s].reopened}
Candidates == IF ReopenedWork # {} THEN ReopenedWork
              ELSE {s \in Waiting : status[MilestoneOf[s]] = "active"}
NextSlice(s) ==
  s \in Candidates /\ \A t \in Candidates : Position[s] <= Position[t]

(* The gate every fresh transition passes.                                  *)
MayWork(s) ==
  /\ NextSlice(s)
  /\ Unfinished = {}
  /\ \A t \in Slices : slices[t].step # "blocked"
  /\ head # None /\ Open(head)
  /\ status[runs[head].milestone] = "active"
  /\ MilestoneOf[s] = runs[head].milestone
  /\ s \in runs[head].slices
  /\ Remaining(runs[head])["jobs"] > 0
  /\ Remaining(runs[head])["seconds"] > 0

Issued(scope) ==
  [s \in Slices |-> IF scope \in {s, MilestoneOf[s]} THEN slices[s].last_prompt ELSE 0]
Bound(seat, scope) ==
  [seat |-> seat, product |-> product, issued |-> Issued(scope)]

Asks(role, scope, round) ==
  {i \in Started : /\ attempts[i].start.role = role
                   /\ attempts[i].start.scope = scope
                   /\ attempts[i].start.round = round}
Contract(i) == attempts[i].start.contract

(* A reservation is clipped to the seconds that remain.                     *)
Reservation(role, scope, round, seat, retry, parent) ==
  [role |-> role, scope |-> scope, round |-> round, contract |-> Bound(seat, scope),
   retry |-> retry, parent |-> parent,
   seconds |-> Min({MaxSeconds, Remaining(runs[head])["seconds"]})]

Reservable(a) ==
  /\ Unfinished = {}
  /\ RetryBound(a)
  /\ a.seconds > 0
  /\ status[runs[head].milestone] = "active"
  /\ GrantAdmits(a)

(* Reservations carry fresh invocations.                                    *)
Reserve(a) ==
  /\ a.seconds > 0
  /\ status[runs[head].milestone] = "active"
  /\ Started # Invocations
  /\ LET i == CHOOSE j \in Invocations : j \notin Started
     IN AttemptStarted(i, a) /\ call' = i
  /\ last' = Other

Settle(outcome, measured) ==
  /\ AttemptFinished(call, outcome, measured)
  /\ last' = Line("finish", call)

-----------------------------------------------------------------------------
(* The process *)

End == at' = "off" /\ call' = None /\ heard' = "none" /\ probed' = FALSE
Go(place) == at' = place /\ UNCHANGED <<call, heard, probed>>

(* A stop: the process ends with nothing written.                           *)
Stop == End /\ UNCHANGED <<vars, durable, bounds>>

(* Only `run` looks at the working tree before it starts.                   *)
Begin(entry) ==
  /\ at = "off"
  /\ Unfinished = {}
  /\ entry = "run" => Clean
  /\ Go("idle")
  /\ UNCHANGED <<vars, durable, bounds>>

(* `preflight` probes when fresh work is admissible.                        *)
Preflight ==
  /\ at = "off"
  /\ Clean
  /\ \E s \in Slices : MayWork(s)
  /\ Go("preflight")
  /\ UNCHANGED <<vars, durable, bounds>>

-----------------------------------------------------------------------------
(* Writing the prompt of a round, and sending it to the coder *)

TestsOfRun(s) == {i \in Asks("verification", s, Round(s)) : attempts[i].run = head}
Tests(s)      == Asks("verification", s, Round(s))

(* Their receipts show the same failure, and all of it.                     *)
FailedAlike(i, j) ==
  evidence[i] = evidence[j] /\ evidence[i] \in Failures \ Inconclusive

(* Two rounds in succession failed alike on the same product.               *)
NoProgressOfContract(s) ==
  LET n == slices[s].last_receipt IN
    \E i \in Asks("verification", s, n), j \in Asks("verification", s, n - 1) :
      FailedAlike(i, j) /\ Contract(i) = Contract(j)
NoProgress(s) ==
  LET n == slices[s].last_receipt IN
    \E i \in Asks("verification", s, n), j \in Asks("verification", s, n - 1) :
      FailedAlike(i, j) /\ Contract(i).product = Contract(j).product

MayIssue(s) ==
  /\ MayWork(s)
  /\ slices[s].step \in {"unstarted", "fix"}
  /\ Clean
  /\ slices[s].step = "fix" => /\ ~NoProgress(s)
                               /\ slices[s].corrective < CorrectiveRounds

IssueFiles(s) ==
  /\ at = "idle"
  /\ MayIssue(s)
  /\ loose' = loose \cup {"prompt"}
  /\ Go("issuing")
  /\ UNCHANGED <<vars, last, evidence, recorded, marked, product, accounted, bounds>>

AppendPrompt(s) ==
  /\ at = "issuing" /\ NextSlice(s)
  /\ Prompt(s)
  /\ loose' = loose \ {"prompt"}
  /\ last' = Other
  /\ Go("idle")
  /\ UNCHANGED <<evidence, recorded, marked, product, accounted, bounds>>

(* A recorded start is uncertainty, not permission to repeat writable work. *)
MayCodeAgain(s) == MayWork(s) /\ slices[s].step = "coding" /\ Clean
MayCode(s) ==
  /\ MayWork(s) /\ slices[s].step = "coding" /\ Clean
  /\ ~Recorded("started", s)

Ready(s) ==
  /\ at = "idle"
  /\ MayCode(s)
  /\ Go("ready")
  /\ UNCHANGED <<vars, durable, bounds>>

(* The marker is created exclusively: one left by a crash stops the runner. *)
Mark(s) ==
  /\ at = "ready" /\ probed /\ NextSlice(s)
  /\ Here(s) \notin marked
  /\ marked' = marked \cup {Here(s)}
  /\ Go("marking")
  /\ UNCHANGED <<vars, last, evidence, loose, recorded, product, accounted, bounds>>

RefuseMark(s) ==
  /\ at = "ready" /\ probed /\ NextSlice(s)
  /\ Here(s) \in marked
  /\ Stop

WriteStarted ==
  /\ at = "marking"
  /\ loose' = loose \cup {"started"}
  /\ Go("started")
  /\ UNCHANGED <<vars, last, evidence, recorded, marked, product, accounted, bounds>>

Record(file, s, line) ==
  /\ recorded' = recorded \cup {<<file, s, Round(s)>>}
  /\ loose' = loose \ {file}
  /\ last' = line
  /\ UNCHANGED <<vars, evidence, marked, product, accounted, bounds>>

RecordStarted(s) ==
  /\ at = "started" /\ NextSlice(s)
  /\ Record("started", s, Other)
  /\ Go("dispatching")

(* The first dispatch, or the one transport retry of a failed dispatch.     *)
Dispatch(s) ==
  IF heard = "transport"
  THEN Reservation("coder", s, Round(s), Coder, "transport", call)
  ELSE Reservation("coder", s, Round(s), Coder, "initial", None)

CallCoder(s) ==
  /\ at = "dispatching" /\ NextSlice(s)
  /\ Reserve(Dispatch(s))
  /\ at' = "coding" /\ heard' = "none" /\ UNCHANGED probed
  /\ UNCHANGED <<evidence, loose, recorded, marked, product, accounted, bounds>>

RefuseCoder(s) ==
  /\ at = "dispatching" /\ NextSlice(s)
  /\ ~Reservable(Dispatch(s))
  /\ Stop

(* A failed dispatch that left edits, or failed otherwise, is not repeated. *)
CoderReturns(result, content, measured) ==
  /\ at = "coding"
  /\ Settle(IF result \in {"transport", "refused"} THEN "failed" ELSE "completed", measured)
  /\ product' = content
  /\ CASE result \in {"implemented", "blocked"} ->
            at' = "coded" /\ heard' = result /\ UNCHANGED <<call, probed>>
       [] result = "transport" /\ content = product /\ attempts[call].start.retry = "initial" ->
            at' = "dispatching" /\ heard' = result /\ UNCHANGED <<call, probed>>
       [] OTHER -> End
  /\ UNCHANGED <<evidence, loose, recorded, marked, accounted, bounds>>

WriteOutcome ==
  /\ at = "coded"
  /\ loose' = loose \cup {"dispatch", "outcome"}
  /\ Go("outcome")
  /\ UNCHANGED <<vars, last, evidence, recorded, marked, product, accounted, bounds>>

RecordDispatch(s) ==
  /\ at = "outcome" /\ NextSlice(s)
  /\ Record("dispatch", s, Line("dispatch", Here(s)))
  /\ Go("recording")

AppendCoded(s) ==
  /\ at = "recording" /\ NextSlice(s)
  /\ last = Line("dispatch", Here(s))
  /\ Coded(s, heard = "implemented")
  /\ loose' = loose \ {"outcome"}
  /\ accounted' = product
  /\ last' = Other
  /\ at' = "idle" /\ call' = None /\ heard' = "none" /\ UNCHANGED probed
  /\ UNCHANGED <<evidence, recorded, marked, product, bounds>>

-----------------------------------------------------------------------------
(* Verification: reserved, run, its receipt written, settled, recorded      *)

MayVerify(s) == MayWork(s) /\ slices[s].step = "verifying" /\ Clean

TestRun(s) == Reservation("verification", s, Round(s), Suite, "initial", None)

CallTests(s) ==
  /\ at = "idle"
  /\ MayVerify(s)
  /\ Tests(s) = {}
  /\ Reserve(TestRun(s))
  /\ at' = "testing" /\ UNCHANGED <<heard, probed>>
  /\ UNCHANGED <<evidence, loose, recorded, marked, product, accounted, bounds>>

(* A run of the command that changes the product proves nothing.            *)
TestsReturn(result, content) ==
  /\ at = "testing"
  /\ (result = "unstable") <=> (content # product)
  /\ evidence' = [evidence EXCEPT ![call] = result]
  /\ product' = content
  /\ loose' = loose \cup {"receipt"}
  /\ Go("tested")
  /\ UNCHANGED <<vars, last, recorded, marked, accounted, bounds>>

SettleTests(measured) ==
  /\ at = "tested"
  /\ evidence[call] = "ok" => measured <= attempts[call].start.seconds
  /\ Settle(IF evidence[call] = "ok" THEN "completed" ELSE "failed", measured)
  /\ loose' = loose \ {"receipt"}
  /\ Go("settled")
  /\ UNCHANGED <<evidence, recorded, marked, product, accounted, bounds>>

(* A success past its deadline is left unfinished.                          *)
RefuseLateTests == at = "tested" /\ evidence[call] = "ok" /\ Stop

(* What an earlier process settled is recorded, never repeated.             *)
ReusableIfPassed(s, i) ==
  /\ Tests(s) = {i}
  /\ Contract(i) = Bound(Suite, s)
  /\ attempts[i].phase = "completed"
Reusable(s, i) ==
  /\ Tests(s) = {i}
  /\ Contract(i) = Bound(Suite, s)
  /\ attempts[i].phase \in {"completed", "failed"}

ReuseTests(s) ==
  /\ at = "idle"
  /\ MayVerify(s)
  /\ \E i \in Tests(s) : Reusable(s, i) /\ call' = i
  /\ at' = "settled" /\ UNCHANGED <<heard, probed>>
  /\ UNCHANGED <<vars, durable, bounds>>

AppendVerified(s) ==
  /\ at = "settled" /\ NextSlice(s)
  /\ last = Line("finish", call)
  /\ Verified(s, evidence[call] = "ok")
  /\ last' = Other
  /\ at' = "idle" /\ call' = None /\ UNCHANGED <<heard, probed>>
  /\ UNCHANGED <<evidence, loose, recorded, marked, product, accounted, bounds>>

RefuseVerified == at = "settled" /\ last # Line("finish", call) /\ Stop

-----------------------------------------------------------------------------
(* Review: the package, one chain of calls per seat, the merge              *)

AskedInRun(seat, s) ==
  {i \in Asks("reviewer", s, Round(s)) : /\ Contract(i) = Bound(seat, s)
                                         /\ attempts[i].run = head}
Asked(seat, s) == {i \in Asks("reviewer", s, Round(s)) : Contract(i) = Bound(seat, s)}

Latest(seat, s) ==
  {i \in Asked(seat, s) : \A j \in Asked(seat, s) : attempts[j].start.parent # i}

Checked(seat, s) == Asked(seat, s) \cap checkpoints # {}
Pending(s)       == {n \in DOMAIN Route : ~Checked(Route[n], s)}
Turn(s)          == Route[Min(Pending(s))]

(* The product reviewed is the one recorded and the one verified.           *)
Recordable(s) == product = accounted
Reviewable(s) ==
  /\ product = accounted
  /\ \E i \in Tests(s) : evidence[i] = "ok" /\ Contract(i).product = product

MayReview(s) == MayWork(s) /\ slices[s].step = "reviewing"

(* Merge files a crash left loose are recorded when every binding holds.    *)
AdoptableReport(s) ==
  IF Pending(s) # {} THEN {} ELSE loose \cap {"report"}
Adoptable(s) ==
  IF Pending(s) # {} THEN {}
  ELSE IF "report" \in loose THEN {"report"} ELSE loose \cap {"proof"}

Adopt(s, file) ==
  /\ at = "idle"
  /\ MayReview(s)
  /\ file \in Adoptable(s)
  /\ Record(file, s, IF file = "proof" THEN Line("proof", Here(s)) ELSE Other)
  /\ Go("idle")

MayPresent(s) ==
  /\ MayReview(s) /\ Reviewable(s) /\ Adoptable(s) = {}
  /\ loose \subseteq IF Recorded("package", s) THEN {} ELSE {"package"}

Present(s) ==
  /\ at = "idle"
  /\ MayPresent(s)
  /\ loose' = IF Recorded("package", s) THEN loose ELSE {"package"}
  /\ Go(IF Recorded("package", s) THEN "asking" ELSE "presenting")
  /\ UNCHANGED <<vars, last, evidence, recorded, marked, product, accounted, bounds>>

RecordPackage(s) ==
  /\ at = "presenting" /\ NextSlice(s)
  /\ Record("package", s, Other)
  /\ Go("asking")

(* The call the chain of a seat is waiting for: its first, or one repair of *)
(* a malformed report, or one repetition of a failed transport.             *)
NextCalls(seat, s) ==
  IF Asked(seat, s) = {} THEN {[retry |-> "initial", parent |-> None]}
  ELSE {c \in [retry : {"format", "transport"}, parent : Latest(seat, s)] :
          /\ \A i \in Asked(seat, s) : attempts[i].start.retry # c.retry
          /\ IF c.retry = "format"
             THEN attempts[c.parent].phase = "completed" /\ evidence[c.parent] = "malformed"
             ELSE attempts[c.parent].phase = "failed" /\ evidence[c.parent] = "transport"}

ReviewCall(seat, s, c) == Reservation("reviewer", s, Round(s), seat, c.retry, c.parent)

(* A seat has given a report that can be read.                              *)
Reports(seat, s) ==
  {i \in Latest(seat, s) : attempts[i].phase = "completed" /\ evidence[i] \in Opinions}

CallReviewer(s) ==
  /\ at = "asking" /\ probed /\ NextSlice(s) /\ Pending(s) # {}
  /\ \E c \in NextCalls(Turn(s), s) : Reserve(ReviewCall(Turn(s), s, c))
  /\ at' = "reviewing" /\ UNCHANGED <<heard, probed>>
  /\ UNCHANGED <<evidence, loose, recorded, marked, product, accounted, bounds>>

RefuseReview(s) ==
  /\ at = "asking" /\ NextSlice(s) /\ Pending(s) # {}
  /\ Reports(Turn(s), s) = {}
  /\ \A c \in NextCalls(Turn(s), s) : probed /\ ~Reservable(ReviewCall(Turn(s), s, c))
  /\ Stop

ReviewerReturns(answer) ==
  /\ at = "reviewing"
  /\ evidence' = [evidence EXCEPT ![call] = answer]
  /\ loose' = loose \cup {"answer"}
  /\ Go("answered")
  /\ UNCHANGED <<vars, last, recorded, marked, product, accounted, bounds>>

SettleReview(measured) ==
  /\ at = "answered"
  /\ Settle(IF evidence[call] \in {"transport", "refused"} THEN "failed" ELSE "completed",
            measured)
  /\ loose' = loose \ {"answer"}
  /\ at' = "asking" /\ call' = None /\ UNCHANGED <<heard, probed>>
  /\ UNCHANGED <<evidence, recorded, marked, product, accounted, bounds>>

AppendCheckpoint(s) ==
  /\ at = "asking" /\ NextSlice(s) /\ Pending(s) # {}
  /\ \E i \in Reports(Turn(s), s) : ReviewCheckpoint(i)
  /\ last' = Other
  /\ Go("asking")
  /\ UNCHANGED <<evidence, loose, recorded, marked, product, accounted, bounds>>

(* The merged report, then the proof of its sources.                        *)
WriteMerge(s) ==
  /\ at = "asking" /\ NextSlice(s) /\ Pending(s) = {}
  /\ IF ~Recorded("report", s) THEN loose' = loose \cup {"report"} /\ Go("reporting")
     ELSE ~Recorded("proof", s) /\ loose' = loose \cup {"proof"} /\ Go("proving")
  /\ UNCHANGED <<vars, last, evidence, recorded, marked, product, accounted, bounds>>

RecordReport(s) ==
  /\ at = "reporting" /\ NextSlice(s)
  /\ Record("report", s, Other)
  /\ Go("asking")

RecordProof(s) ==
  /\ at = "proving" /\ NextSlice(s)
  /\ Record("proof", s, Line("proof", Here(s)))
  /\ Go("asking")

MergedLeniently(s) ==
  LET said == {evidence[i] : i \in checkpoints \cap UNION {Asked(seat, s) : seat \in Reviewers}}
  IN IF "pass" \in said THEN "pass" ELSE CHOOSE v \in said : TRUE

(* The strictest of the seats decides.                                      *)
Merged(s) ==
  LET said == {evidence[i] : i \in checkpoints \cap UNION {Asked(seat, s) : seat \in Reviewers}}
  IN IF "blocked" \in said THEN "blocked"
     ELSE IF "needs_work" \in said THEN "needs_work" ELSE "pass"

AppendReviewed(s) ==
  /\ at = "asking" /\ NextSlice(s) /\ Pending(s) = {} /\ Recorded("proof", s)
  /\ last = Line("proof", Here(s))
  /\ Reviewed(s, Merged(s))
  /\ last' = Other
  /\ Go("idle")
  /\ UNCHANGED <<evidence, loose, recorded, marked, product, accounted, bounds>>

RefuseReviewed(s) ==
  /\ at = "asking" /\ NextSlice(s) /\ Pending(s) = {} /\ Recorded("proof", s)
  /\ last # Line("proof", Here(s))
  /\ Stop

MayAccept(s) == MayWork(s) /\ slices[s].step = "accept_pending" /\ product = accounted

Accept(s) ==
  /\ at = "idle"
  /\ MayAccept(s)
  /\ Accepted(s, None)
  /\ last' = Other
  /\ Go("idle")
  /\ UNCHANGED <<evidence, loose, recorded, marked, product, accounted, bounds>>

(* Nothing can be done for the slice at hand.                               *)
Return ==
  /\ at = "idle"
  /\ \A s \in Slices :
       /\ ~MayIssue(s) /\ ~MayCode(s) /\ ~MayPresent(s) /\ ~MayAccept(s)
       /\ MayReview(s) => Adoptable(s) = {}
       /\ MayVerify(s) => IF Tests(s) = {} THEN ~Reservable(TestRun(s))
                          ELSE \A i \in Tests(s) : ~Reusable(s, i)
  /\ Stop

-----------------------------------------------------------------------------
(* Readiness: the seats of the plan answer once in a run and context        *)

ProbeCall(seat) ==
  Reservation("probe", runs[head].milestone, Holistic, seat, "initial", None)

Probes(seat) == {i \in InRun(head) : Context(attempts[i].start) = Context(ProbeCall(seat))}

ProbedEver(seat) ==
  \E i \in Started : /\ Context(attempts[i].start) = Context(ProbeCall(seat))
                     /\ attempts[i].phase = "completed"
Probed(seat) == \E i \in Probes(seat) : attempts[i].phase = "completed"

(* Readiness is due before a dispatch only.                                 *)
ReadinessDue ==
  /\ ~probed
  /\ \/ at \in {"ready", "preflight"}
     \/ /\ at = "asking"
        /\ \E s \in Slices : /\ NextSlice(s) /\ Pending(s) # {}
                             /\ NextCalls(Turn(s), s) # {}

CallProbe(seat) ==
  /\ ReadinessDue
  /\ ~Probed(seat)
  /\ Reserve(ProbeCall(seat))
  /\ UNCHANGED <<at, heard, probed>>
  /\ UNCHANGED <<evidence, loose, recorded, marked, product, accounted, bounds>>

ProbeReturns(outcome, measured) ==
  /\ ReadinessDue
  /\ call \in Unfinished
  /\ Settle(outcome, measured)
  /\ call' = None /\ UNCHANGED <<at, heard, probed>>
  /\ UNCHANGED <<evidence, loose, recorded, marked, product, accounted, bounds>>

ProbesDone ==
  /\ ReadinessDue /\ Unfinished = {}
  /\ \A seat \in ProbePlan : Probed(seat)
  /\ IF at = "preflight" THEN End ELSE probed' = TRUE /\ UNCHANGED <<at, call, heard>>
  /\ UNCHANGED <<vars, durable, bounds>>

ProbesFail ==
  /\ ReadinessDue /\ Unfinished = {}
  /\ \E seat \in ProbePlan : ~Probed(seat)
  /\ \A seat \in ProbePlan : Probed(seat) \/ ~Reservable(ProbeCall(seat))
  /\ Stop

-----------------------------------------------------------------------------
(* Failures and people *)

(* The process dies, or fails in the middle of an operation, which leaves   *)
(* its reservation unfinished.  A coder or a command under way may already  *)
(* have changed the product.                                                *)
Crash(content) ==
  /\ at # "off"
  /\ crashes < MaxCrashes
  /\ crashes' = crashes + 1
  /\ content # product => at \in {"coding", "testing"}
  /\ product' = content
  /\ End
  /\ UNCHANGED <<vars, last, evidence, loose, recorded, marked, accounted, edits>>

Appended(line) ==
  /\ at = "off"
  /\ last' = line
  /\ UNCHANGED <<evidence, loose, recorded, marked, product, accounted, volatile, bounds>>

GrantRun(r, g, ref) == RunAdmitted(r, g, ref) /\ Appended(Other)
ExtendRun(x, ref)   == RunExtended(x, ref) /\ Appended(Other)
Unblock(s)          == Resolved(s) /\ Appended(Other)
Attribute(i) ==
  /\ AttemptFinished(i, "resolved", attempts[i].start.seconds)
  /\ Appended(Line("finish", i))

(* Unrecorded files are removed, with or without the ignored ones: the      *)
(* markers under local_state.                                               *)
Tidy(ignored) ==
  /\ at = "off"
  /\ loose # {} \/ (ignored /\ marked # {})
  /\ loose' = {}
  /\ marked' = IF ignored THEN {} ELSE marked
  /\ UNCHANGED <<vars, last, evidence, recorded, product, accounted, volatile, bounds>>

Edit(content) ==
  /\ at = "off"
  /\ edits < MaxEdits /\ content # product
  /\ edits' = edits + 1
  /\ product' = content
  /\ UNCHANGED <<vars, last, evidence, loose, recorded, marked, accounted, volatile, crashes>>

-----------------------------------------------------------------------------
RunnerInit ==
  /\ Init
  /\ last = Other
  /\ evidence = [i \in Invocations |-> "none"]
  /\ loose = {} /\ recorded = {} /\ marked = {}
  /\ product = Base /\ accounted = Base
  /\ at = "off" /\ call = None /\ heard = "none" /\ probed = FALSE
  /\ crashes = 0 /\ edits = 0

CodingStep(s) ==
  \/ IssueFiles(s) \/ AppendPrompt(s)
  \/ Ready(s) \/ Mark(s) \/ RefuseMark(s) \/ RecordStarted(s)
  \/ CallCoder(s) \/ RefuseCoder(s) \/ RecordDispatch(s) \/ AppendCoded(s)

ReviewStep(s) ==
  \/ Present(s) \/ RecordPackage(s) \/ (\E file \in Files : Adopt(s, file))
  \/ CallReviewer(s) \/ RefuseReview(s) \/ AppendCheckpoint(s)
  \/ WriteMerge(s) \/ RecordReport(s) \/ RecordProof(s)
  \/ AppendReviewed(s) \/ RefuseReviewed(s) \/ Accept(s)

ProcessStep ==
  \/ \E s \in Slices : CodingStep(s) \/ ReviewStep(s)
  \/ \E s \in Slices : CallTests(s) \/ ReuseTests(s) \/ AppendVerified(s)
  \/ WriteStarted \/ WriteOutcome \/ RefuseLateTests \/ RefuseVerified \/ Return
  \/ ProbesDone \/ ProbesFail
  \/ \E seat \in ProbePlan : CallProbe(seat)
  \/ \E n \in 0..MaxMeasured :
       \/ SettleTests(n) \/ SettleReview(n)
       \/ \E outcome \in {"completed", "failed"} : ProbeReturns(outcome, n)
       \/ \E result \in Coding, content \in Contents : CoderReturns(result, content, n)
  \/ \E result \in Tested, content \in Contents : TestsReturn(result, content)
  \/ \E answer \in Answers : ReviewerReturns(answer)

PeopleStep ==
  \/ \E r \in Runs, g \in Grants, ref \in Authorities : GrantRun(r, g, ref)
  \/ \E x \in Allowances, ref \in Authorities : ExtendRun(x, ref)
  \/ \E s \in Slices : Unblock(s)
  \/ \E i \in Unfinished : Attribute(i)
  \/ \E content \in Contents : Edit(content)
  \/ \E ignored \in Sweeps : Tidy(ignored)

RunnerNext ==
  \/ ProcessStep
  \/ PeopleStep
  \/ \E entry \in Entries : Begin(entry)
  \/ Preflight
  \/ \E content \in Contents : Crash(content)

RunnerSpec == RunnerInit /\ [][RunnerNext]_rvars

(* A process goes on until it ends, seats and commands return within their  *)
(* deadline, and `run` is tried again until it finds the lock free.         *)
Fairness ==
  /\ WF_rvars(ProcessStep)
  /\ SF_rvars(\E entry \in Entries : Begin(entry))

FairSpec == RunnerSpec /\ Fairness

-----------------------------------------------------------------------------
(* Properties *)

(* The coder of a round is dispatched as one chain, whatever crashed and    *)
(* whatever run is granted next: writable work is never repeated            *)
(* (_coding_slice, the started artifact).                                   *)
CoderDispatchedOnce ==
  \A s \in Slices, n \in 1..MaxRound :
    \A i, j \in Asks("coder", s, n) : attempts[i].root = attempts[j].root

(* What was done is not repeated, over crashes, restarts and runs: a round  *)
(* is verified once (_verifying_slice), and a seat is asked afresh once     *)
(* about one product of a round (_checkpoint_review).                       *)
NothingIsRepeated ==
  \A s \in Slices, n \in 1..MaxRound :
    /\ \A i, j \in Asks("verification", s, n) : i = j
    /\ \A i, j \in Asks("reviewer", s, n) :
         (/\ Contract(i) = Contract(j)
          /\ attempts[i].start.retry = "initial" /\ attempts[j].start.retry = "initial") => i = j

(* A seat is asked about nothing but the product that passed the tests of   *)
(* the round, whatever was edited or restored meanwhile (_reviewing_slice,  *)
(* _binding).                                                               *)
ReviewIsOfTested ==
  \A s \in Slices, n \in 1..MaxRound :
    \A i \in Asks("reviewer", s, n) :
      \E j \in Asks("verification", s, n) :
        /\ evidence[j] = "ok" /\ attempts[j].phase = "completed"
        /\ Contract(j).product = Contract(i).product

(* What is accepted was coded in this round, passed its verification, and   *)
(* was passed by every seat of the route on that same product, over every   *)
(* crash, edit and restart (_reviewing_slice).                              *)
AcceptedWasReviewed ==
  \A s \in Slices :
    slices[s].step \in {"accept_pending", "accepted"} =>
      /\ \E i \in Asks("coder", s, Round(s)) : attempts[i].phase = "completed"
      /\ \E i \in Tests(s) :
           /\ evidence[i] = "ok" /\ attempts[i].phase = "completed"
           /\ \A seat \in Reviewers :
                \E j \in Asks("reviewer", s, Round(s)) \cap checkpoints :
                  /\ Contract(j).seat = seat
                  /\ Contract(j).product = Contract(i).product
                  /\ evidence[j] = "pass"

(* When two rounds in succession failed on the same product, and both       *)
(* receipts show the whole of one and the same failure, no third round is   *)
(* sent to the coder, whatever was prompted, edited and restored in between *)
(* (no_progress).                                                           *)
StallEndsCoding ==
  \A s \in Slices, n \in 1..(MaxRound - 2) :
    (\E i \in Asks("verification", s, n), j \in Asks("verification", s, n + 1) :
       FailedAlike(i, j) /\ Contract(i).product = Contract(j).product)
      => slices[s].last_prompt < n + 2

(* A seat is dispatched in a run only after every seat of the plan answered *)
(* a probe of that run: the success of another run is never borrowed        *)
(* (_probed).                                                               *)
DispatchIsProbed ==
  \A i \in Started :
    attempts[i].start.role \in {"coder", "reviewer"} =>
      \A seat \in ProbePlan :
        \E j \in InRun(attempts[i].run) :
          /\ attempts[j].start.role = "probe" /\ attempts[j].phase = "completed"
          /\ Contract(j).seat = seat

(* The tests of the round are settled and their line is not written.        *)
TestsSettled(s) ==
  /\ slices[s].step = "verifying" /\ Round(s) < MaxRound
  /\ \E i \in Tests(s) : /\ attempts[i].phase \in {"completed", "failed"}
                         /\ Contract(i) = Bound(Suite, s)
  /\ Clean

(* A verification settled before a crash is recorded by the next run,       *)
(* passed or failed, when nobody appends in between (_append_operation).    *)
SettledIsRecorded ==
  \A s \in Slices : (TestsSettled(s) /\ MayWork(s)) ~> slices[s].step # "verifying"

(* A run that probes exhaust refuses the coder without effects: the start   *)
(* of a round is recorded only with its dispatch (_coding_slice).           *)
ExhaustionHasNoEffect ==
  (at = "off" /\ crashes = 0) =>
    \A s \in Slices : Recorded("started", s) => Asks("coder", s, Round(s)) # {}

(* A review interrupted between a merge file and its line is finished by    *)
(* running again (_recover_merge_artifacts).                                *)
InterruptedMergeResumes ==
  \A s \in Slices :
    (MayReview(s) /\ Adoptable(s) # {} /\ Round(s) < MaxRound)
      ~> slices[s].step # "reviewing"
=============================================================================
