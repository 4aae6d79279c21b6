---------------------------- MODULE RunnerProofs ----------------------------
(* Proofs about the runner: it appends nothing that the ledger does not     *)
(* admit, and no crash, restart, edit or new run makes it repeat writable   *)
(* work, review what was not tested, or accept what was not reviewed.       *)
EXTENDS Runner, LedgerProofs

-----------------------------------------------------------------------------
(* The invariant *)

(* A round is prompted before it is worked on, and verified before its      *)
(* review; every way back to work starts the next.                          *)
Paced(sl) ==
  /\ sl.round \in 1..MaxRound
  /\ sl.step = "unstarted" => sl.round = 1
  /\ sl.last_prompt = IF sl.step \in {"unstarted", "fix"} THEN sl.round - 1 ELSE sl.round
  /\ sl.last_receipt \in 0..sl.round
  /\ sl.step \in {"unstarted", "fix", "coding", "verifying"} => sl.last_receipt < sl.round
  /\ sl.step \in {"reviewing", "accept_pending", "accepted"} => sl.last_receipt = sl.round

RoundInv == \A s \in Slices : Paced(slices[s])

(* What the coder reported is about the call it was sent.                   *)
HeardInv ==
  heard # "none" => at \in {"dispatching", "coded", "outcome", "recording"} /\ call # None

(* The process is about a call for the slice whose turn it is.              *)
Serves(role, step) ==
  \E s \in Slices : NextSlice(s) /\ slices[s].step = step /\ call \in Asks(role, s, Round(s))

UnderWay(role) == call \in Unfinished /\ attempts[call].start.role = role

(* Where no call of a slice is at hand there is a probe, or none.           *)
NoCall == call = None \/ (call \in Started /\ attempts[call].start.role = "probe")

AnsweredIn(r, seat) ==
  \E j \in InRun(r) : /\ attempts[j].start.role = "probe" /\ attempts[j].phase = "completed"
                      /\ Contract(j).seat = seat

ReadyInv ==
  /\ at = "off" => ~probed
  /\ at \in {"marking", "started", "dispatching", "coding"} => probed
  /\ at \in {"off", "preflight", "idle", "issuing", "ready", "presenting", "asking",
             "reporting", "proving"} => NoCall
  /\ probed => \A seat \in ProbePlan : AnsweredIn(head, seat)

CodingInv ==
  /\ at = "issuing" =>
       \A s \in Slices : NextSlice(s) /\ slices[s].step = "fix" => ~NoProgress(s)
  /\ at \in {"ready", "marking", "started"} =>
       \A s \in Slices : NextSlice(s) => slices[s].step = "coding" /\ ~Recorded("started", s)
  /\ at = "dispatching" =>
       \A s \in Slices : NextSlice(s) =>
         /\ slices[s].step = "coding" /\ Recorded("started", s)
         /\ IF heard = "transport" THEN call \in Asks("coder", s, Round(s))
            ELSE Asks("coder", s, Round(s)) = {}
  /\ at = "coding" => UnderWay("coder") /\ Serves("coder", "coding")
  /\ at \in {"coded", "outcome", "recording"} =>
       attempts[call].phase = "completed" /\ Serves("coder", "coding")

TestingInv ==
  /\ at \in {"testing", "tested"} =>
       UnderWay("verification") /\ Serves("verification", "verifying")
  /\ at = "settled" =>
       /\ attempts[call].phase \in {"completed", "failed"}
       /\ Serves("verification", "verifying")

ReviewingInv ==
  /\ at \in {"presenting", "asking", "reviewing", "answered", "reporting", "proving"} =>
       \A s \in Slices : NextSlice(s) => slices[s].step = "reviewing" /\ Reviewable(s)
  /\ at \in {"reviewing", "answered"} => UnderWay("reviewer")

(* What the calls in the ledger say.                                        *)
CoderInv ==
  \A i \in Started : attempts[i].start.role = "coder" =>
    <<"started", attempts[i].start.scope, attempts[i].start.round>> \in recorded

TestInv ==
  \A s \in Slices : \A n \in 1..MaxRound : \A i \in Asks("verification", s, n) :
    /\ n <= Round(s)
    /\ attempts[i].phase = "completed" => evidence[i] = "ok"
    /\ attempts[i].phase = "failed" => evidence[i] # "ok"
    /\ n < Round(s) \/ slices[s].step # "verifying" => n <= slices[s].last_receipt

CheckedInv ==
  \A i \in checkpoints :
    i \in Started /\ attempts[i].phase = "completed" /\ evidence[i] \in Opinions

(* A slice past a step has what the step leaves behind.                     *)
StepInv ==
  \A s \in Slices :
    /\ slices[s].step \in {"verifying", "reviewing", "accept_pending", "accepted"} =>
         \E i \in Asks("coder", s, Round(s)) : attempts[i].phase = "completed"
    /\ slices[s].step \in {"reviewing", "accept_pending", "accepted"} =>
         \E i \in Tests(s) : attempts[i].phase = "completed"

(* The shape of the runner's state, which every other part rests on.        *)
Shape == RunnerTypeOK /\ AttemptsAreOwned /\ RoundInv /\ HeardInv

-----------------------------------------------------------------------------
(* The steps of the runner by what they append *)

(* Nothing is appended but artifact events.                                 *)
QuietStep ==
  \/ \E s \in Slices :
       \/ IssueFiles(s) \/ Ready(s) \/ Mark(s) \/ RefuseMark(s) \/ RecordStarted(s)
       \/ RefuseCoder(s) \/ RecordDispatch(s) \/ ReuseTests(s)
       \/ Present(s) \/ RecordPackage(s) \/ (\E file \in Files : Adopt(s, file))
       \/ RefuseReview(s) \/ WriteMerge(s) \/ RecordReport(s) \/ RecordProof(s)
       \/ RefuseReviewed(s)
  \/ WriteStarted \/ WriteOutcome \/ RefuseLateTests \/ RefuseVerified \/ Return
  \/ ProbesDone \/ ProbesFail \/ Preflight
  \/ \E entry \in Entries : Begin(entry)
  \/ \E content \in Contents : Crash(content) \/ Edit(content)
  \/ \E ignored \in Sweeps : Tidy(ignored)

AnswerStep ==
  \/ \E result \in Tested, content \in Contents : TestsReturn(result, content)
  \/ \E answer \in Answers : ReviewerReturns(answer)

MoveStep ==
  \E s \in Slices : \/ AppendPrompt(s) \/ AppendCoded(s) \/ AppendVerified(s)
                     \/ AppendReviewed(s) \/ Accept(s) \/ Unblock(s)

SendStep ==
  \/ \E s \in Slices : CallCoder(s) \/ CallTests(s) \/ CallReviewer(s)
  \/ \E seat \in ProbePlan : CallProbe(seat)

SettleStep ==
  \/ \E n \in 0..MaxMeasured :
       \/ SettleTests(n) \/ SettleReview(n)
       \/ \E outcome \in {"completed", "failed"} : ProbeReturns(outcome, n)
       \/ \E result \in Coding, content \in Contents : CoderReturns(result, content, n)
  \/ \E i \in Unfinished : Attribute(i)

CheckStep == \E s \in Slices : AppendCheckpoint(s)

GrantStep ==
  \/ \E r \in Runs, g \in Grants, ref \in Authorities : GrantRun(r, g, ref)
  \/ \E x \in Allowances, ref \in Authorities : ExtendRun(x, ref)

LEMMA StepKinds ==
  ASSUME RunnerNext
  PROVE  QuietStep \/ AnswerStep \/ MoveStep \/ SendStep \/ SettleStep \/ CheckStep \/ GrantStep
  BY DEF RunnerNext, ProcessStep, PeopleStep, CodingStep, ReviewStep, QuietStep, AnswerStep,
         MoveStep, SendStep, SettleStep, CheckStep, GrantStep

(* A quiet step leaves the ledger and the answers as they are, and only     *)
(* adds artifact events.                                                    *)
LEMMA QuietEffect ==
  ASSUME QuietStep
  PROVE  /\ UNCHANGED <<vars, evidence>>
         /\ recorded \subseteq recorded'
         /\ edits' \in {edits, edits + 1} /\ crashes' \in {crashes, crashes + 1}
  BY DEF QuietStep, IssueFiles, Ready, Mark, RefuseMark, RecordStarted, RefuseCoder,
         RecordDispatch, ReuseTests, Present, RecordPackage, Adopt, RefuseReview, WriteMerge,
         RecordReport, RecordProof, RefuseReviewed, WriteStarted, WriteOutcome, RefuseLateTests,
         RefuseVerified, Return, ProbesDone, ProbesFail, Preflight, Begin, Crash, Edit, Tidy,
         Record, Stop, durable, bounds

-----------------------------------------------------------------------------
(* The shape of the state *)

LEMMA LedgerUnchanged ==
  ASSUME UNCHANGED vars, TypeOK, AttemptsAreOwned, RoundInv
  PROVE  TypeOK' /\ AttemptsAreOwned' /\ RoundInv'
  BY DEF vars, lifecycle, calls, commits, grants, TypeOK, AttemptsAreOwned, RoundInv,
         Started, Admitted

(* The variables of the runner besides those of the ledger.                 *)
FieldsOK ==
  /\ last \in Lines
  /\ evidence \in [Invocations -> Tested \cup Answers \cup {"none"}]
  /\ loose \in SUBSET Files
  /\ recorded \in SUBSET (Files \X Slices \X (1..MaxRound))
  /\ marked \in SUBSET (Slices \X (1..MaxRound))
  /\ product \in Contents /\ accounted \in Contents
  /\ crashes \in 0..MaxCrashes /\ edits \in 0..MaxEdits

PlaceOK ==
  /\ at \in Places
  /\ call \in Invocations \cup {None}
  /\ at \in {"coding", "coded", "testing", "tested", "settled", "reviewing", "answered"}
       => call # None
  /\ heard \in Coding \cup {"none"}
  /\ probed \in BOOLEAN
  /\ HeardInv

LEMMA TypeParts == RunnerTypeOK /\ HeardInv <=> TypeOK /\ FieldsOK /\ PlaceOK
  BY DEF RunnerTypeOK, FieldsOK, PlaceOK

LEMMA HereType ==
  ASSUME RoundInv, NEW s \in Slices
  PROVE  Round(s) \in 1..MaxRound /\ Here(s) \in Slices \X (1..MaxRound)
  BY DEF RoundInv, Paced, Round, Here

LEMMA LineType ==
  ASSUME RoundInv, NEW s \in Slices
  PROVE  /\ Other \in Lines
         /\ Line("dispatch", Here(s)) \in Lines /\ Line("proof", Here(s)) \in Lines
         /\ \A i \in Invocations : Line("finish", i) \in Lines
  BY HereType DEF Other, Line, Lines

LEMMA QuietFields ==
  ASSUME Shape, QuietStep
  PROVE  FieldsOK'
  <1>. USE DEF Shape, RunnerTypeOK, FieldsOK
  <1>1. ASSUME NEW s \in Slices, NEW file \in Files, NEW line \in Lines, Record(file, s, line)
        PROVE  FieldsOK'
    <2>1. <<file, s, Round(s)>> \in Files \X Slices \X (1..MaxRound)
      BY HereType
    <2>. QED BY <1>1, <2>1 DEF Record, bounds
  <1>2. ASSUME NEW s \in Slices,
               RecordStarted(s) \/ RecordDispatch(s) \/ RecordPackage(s) \/ RecordReport(s)
               \/ RecordProof(s) \/ \E file \in Files : Adopt(s, file)
        PROVE  FieldsOK'
    BY <1>1, <1>2, LineType
    DEF RecordStarted, RecordDispatch, RecordPackage, RecordReport, RecordProof, Adopt, Files
  <1>3. ASSUME NEW s \in Slices, Mark(s)
        PROVE  FieldsOK'
    BY <1>3, HereType DEF Mark, bounds
  <1>4. ASSUME UNCHANGED <<durable, bounds>>
        PROVE  FieldsOK'
    BY <1>4 DEF durable, bounds
  <1>5. ASSUME NEW s \in Slices,
               IssueFiles(s) \/ Present(s) \/ WriteMerge(s)
        PROVE  FieldsOK'
    BY <1>5 DEF IssueFiles, Present, WriteMerge, Files, bounds
  <1>6. ASSUME WriteStarted \/ WriteOutcome \/ \E ignored \in Sweeps : Tidy(ignored)
        PROVE  FieldsOK'
    BY <1>6 DEF WriteStarted, WriteOutcome, Tidy, Files, bounds
  <1>7. ASSUME NEW content \in Contents, Crash(content) \/ Edit(content)
        PROVE  FieldsOK'
    BY <1>7, RunnerAssumption DEF Crash, Edit
  <1>8. ASSUME NEW s \in Slices,
               \/ Ready(s) \/ RefuseMark(s) \/ RefuseCoder(s) \/ ReuseTests(s)
               \/ RefuseReview(s) \/ RefuseReviewed(s)
        PROVE  UNCHANGED <<durable, bounds>>
    BY <1>8 DEF Ready, RefuseMark, RefuseCoder, ReuseTests, RefuseReview, RefuseReviewed, Stop
  <1>9. ASSUME \/ RefuseLateTests \/ RefuseVerified \/ Return \/ ProbesDone \/ ProbesFail
               \/ Preflight \/ \E entry \in Entries : Begin(entry)
        PROVE  UNCHANGED <<durable, bounds>>
    BY <1>9 DEF RefuseLateTests, RefuseVerified, Return, ProbesDone, ProbesFail, Preflight,
                Begin, Stop
  <1>. QED BY <1>2, <1>3, <1>4, <1>5, <1>6, <1>7, <1>8, <1>9 DEF QuietStep

LEMMA QuietPlace ==
  ASSUME Shape, QuietStep
  PROVE  PlaceOK'
  <1>. USE DEF Shape, RunnerTypeOK, PlaceOK, HeardInv, Places
  <1>1. ASSUME End PROVE PlaceOK'
    BY <1>1 DEF End
  <1>2. ASSUME UNCHANGED volatile PROVE PlaceOK'
    BY <1>2 DEF volatile
  <1>3. ASSUME NEW place \in Places, Go(place),
               heard # "none" => place \in {"dispatching", "outcome", "recording"},
               place \in {"coding", "coded", "testing", "tested", "settled", "reviewing",
                          "answered"}
                 => call # None
        PROVE PlaceOK'
    BY <1>3 DEF Go
  <1>4. ASSUME NEW s \in Slices,
               \/ IssueFiles(s) \/ Ready(s) \/ Mark(s) \/ RecordStarted(s) \/ RecordDispatch(s)
        PROVE  PlaceOK'
    BY <1>3, <1>4 DEF IssueFiles, Ready, Mark, RecordStarted, RecordDispatch
  <1>5. ASSUME NEW s \in Slices,
               \/ Present(s) \/ RecordPackage(s) \/ (\E file \in Files : Adopt(s, file))
               \/ WriteMerge(s) \/ RecordReport(s) \/ RecordProof(s)
        PROVE  PlaceOK'
    BY <1>3, <1>5 DEF Present, RecordPackage, Adopt, WriteMerge, RecordReport, RecordProof
  <1>6. ASSUME WriteStarted \/ WriteOutcome \/ Preflight \/ \E entry \in Entries : Begin(entry)
        PROVE  PlaceOK'
    BY <1>3, <1>6 DEF WriteStarted, WriteOutcome, Preflight, Begin
  <1>7. ASSUME NEW s \in Slices,
               RefuseMark(s) \/ RefuseCoder(s) \/ RefuseReview(s) \/ RefuseReviewed(s)
        PROVE  End
    BY <1>7 DEF RefuseMark, RefuseCoder, RefuseReview, RefuseReviewed, Stop
  <1>8. ASSUME \/ RefuseLateTests \/ RefuseVerified \/ Return \/ ProbesFail
               \/ \E content \in Contents : Crash(content)
        PROVE  End
    BY <1>8 DEF RefuseLateTests, RefuseVerified, Return, ProbesFail, Stop, Crash
  <1>9. ASSUME (\E content \in Contents : Edit(content)) \/ (\E ignored \in Sweeps : Tidy(ignored))
        PROVE  UNCHANGED volatile
    BY <1>9 DEF Edit, Tidy
  <1>10. ASSUME NEW s \in Slices, ReuseTests(s)
         PROVE  PlaceOK'
    BY <1>10, IdentityAssumption DEF ReuseTests, Tests, Asks, Started
  <1>11. ASSUME ProbesDone
         PROVE  PlaceOK'
    BY <1>1, <1>11 DEF ProbesDone
  <1>. QED BY <1>1, <1>2, <1>4, <1>5, <1>6, <1>7, <1>8, <1>9, <1>10, <1>11 DEF QuietStep

(* The steps of a round keep its pace.                                      *)
LEMMA SentBackIsPaced ==
  ASSUME NEW sl \in SliceState, sl.round \in 1..(MaxRound - 1),
         sl.last_prompt = sl.round, sl.last_receipt \in 0..sl.round
  PROVE  /\ Paced(SentBack(sl))
         /\ SentBack(sl).step = "fix" /\ SentBack(sl).round = sl.round + 1
         /\ SentBack(sl).last_prompt = sl.last_prompt
         /\ SentBack(sl).last_receipt = sl.last_receipt
  <1>. DEFINE fixed == [sl EXCEPT !.step = "fix"]
  <1>1. /\ fixed \in SliceState /\ fixed.step = "fix" /\ fixed.round = sl.round
        /\ fixed.last_prompt = sl.last_prompt /\ fixed.last_receipt = sl.last_receipt
    BY DEF SliceState, Steps
  <1>2. SentBack(sl) = [fixed EXCEPT !.round = fixed.round + 1]
    BY DEF SentBack
  <1>. HIDE DEF fixed
  <1>3. LET back == [fixed EXCEPT !.round = fixed.round + 1] IN
          /\ back.step = "fix" /\ back.round = sl.round + 1
          /\ back.last_prompt = sl.last_prompt /\ back.last_receipt = sl.last_receipt
    BY <1>1 DEF SliceState
  <1>. QED BY <1>2, <1>3, BoundAssumption DEF Paced

LEMMA PromptedIsPaced ==
  ASSUME NEW sl \in SliceState, Paced(sl), sl.step \in {"unstarted", "fix"}
  PROVE  LET new == Prompted(sl) IN
            /\ Paced(new) /\ new.step = "coding" /\ new.round = sl.round
            /\ new.last_prompt = sl.round /\ new.last_receipt = sl.last_receipt
  <1>0. /\ sl.round \in Nat /\ sl.last_prompt \in Nat /\ sl.last_receipt \in Nat
        /\ MaxRound \in Nat
    BY BoundAssumption DEF SliceState
  <1>1. LET new == Prompted(sl) IN
          /\ new.step = "coding" /\ new.round = sl.round
          /\ new.last_prompt = sl.round /\ new.last_receipt = sl.last_receipt
    BY DEF Prompted, SliceState
  <1>. QED BY <1>0, <1>1 DEF Paced

LEMMA CodedIsPaced ==
  ASSUME NEW sl \in SliceState, Paced(sl), NEW b \in BOOLEAN, sl.step = "coding"
  PROVE  LET new == CodedAs(sl, b) IN
            /\ Paced(new) /\ new.step = IF b THEN "verifying" ELSE "blocked"
            /\ new.round = sl.round
            /\ new.last_prompt = sl.last_prompt /\ new.last_receipt = sl.last_receipt
  <1>0. /\ sl.round \in Nat /\ sl.last_prompt \in Nat /\ sl.last_receipt \in Nat
        /\ MaxRound \in Nat
    BY BoundAssumption DEF SliceState
  <1>1. LET new == CodedAs(sl, b) IN
          /\ new.step = IF b THEN "verifying" ELSE "blocked"
          /\ new.round = sl.round
          /\ new.last_prompt = sl.last_prompt /\ new.last_receipt = sl.last_receipt
    BY DEF CodedAs, SliceState
  <1>. QED BY <1>0, <1>1 DEF Paced

LEMMA VerifiedIsPaced ==
  ASSUME NEW sl \in SliceState, Paced(sl), NEW b \in BOOLEAN,
         sl.step = "verifying", b \/ sl.round < MaxRound
  PROVE  LET new == VerifiedAs(sl, b) IN
            /\ Paced(new) /\ new.step = IF b THEN "reviewing" ELSE "fix"
            /\ new.round = IF b THEN sl.round ELSE sl.round + 1
            /\ new.last_prompt = sl.last_prompt /\ new.last_receipt = sl.round
  <1>0. /\ sl.round \in Nat /\ sl.last_prompt \in Nat /\ sl.last_receipt \in Nat
        /\ MaxRound \in Nat
    BY BoundAssumption DEF SliceState
  <1>. DEFINE seen == [sl EXCEPT !.last_receipt = sl.round]
  <1>1. /\ seen \in SliceState /\ seen.round = sl.round /\ seen.last_receipt = sl.round
        /\ seen.last_prompt = sl.last_prompt
    BY <1>0 DEF SliceState
  <1>2. VerifiedAs(sl, b) = IF b THEN [seen EXCEPT !.step = "reviewing"] ELSE SentBack(seen)
    BY DEF VerifiedAs
  <1>3. sl.last_prompt = sl.round
    BY DEF Paced
  <1>. HIDE DEF seen
  <1>4. LET new == [seen EXCEPT !.step = "reviewing"] IN
          /\ new.step = "reviewing" /\ new.round = sl.round
          /\ new.last_prompt = sl.last_prompt /\ new.last_receipt = sl.round
    BY <1>1 DEF SliceState
  <1>5. CASE b
    BY <1>0, <1>2, <1>3, <1>4, <1>5 DEF Paced
  <1>6. CASE ~b
    <2>1. sl.round \in 1..(MaxRound - 1)
      BY <1>0, <1>6 DEF Paced
    <2>. QED BY <1>0, <1>1, <1>2, <1>3, <1>6, <2>1, SentBackIsPaced
  <1>. QED BY <1>5, <1>6

LEMMA ReviewedIsPaced ==
  ASSUME NEW sl \in SliceState, Paced(sl), NEW v \in Opinions, sl.step = "reviewing",
         v = "needs_work" => sl.round < MaxRound
  PROVE  LET new == ReviewedAs(sl, v) IN
            /\ Paced(new)
            /\ new.step = CASE v = "needs_work" -> "fix" [] v = "blocked" -> "blocked"
                            [] OTHER -> "accept_pending"
            /\ new.round = IF v = "needs_work" THEN sl.round + 1 ELSE sl.round
            /\ new.last_prompt = sl.last_prompt /\ new.last_receipt = sl.last_receipt
  <1>0. /\ sl.round \in Nat /\ sl.last_prompt \in Nat /\ sl.last_receipt \in Nat
        /\ MaxRound \in Nat
    BY BoundAssumption DEF SliceState
  <1>. DEFINE seen == [sl EXCEPT !.last_report = sl.round]
  <1>1. /\ seen \in SliceState /\ seen.round = sl.round
        /\ seen.last_prompt = sl.last_prompt /\ seen.last_receipt = sl.last_receipt
    BY <1>0 DEF SliceState
  <1>2. /\ v = "needs_work" => ReviewedAs(sl, v) = SentBack(seen)
        /\ v = "blocked" => ReviewedAs(sl, v) = [seen EXCEPT !.step = "blocked"]
        /\ v = "pass" => ReviewedAs(sl, v) = [seen EXCEPT !.step = "accept_pending"]
    BY DEF ReviewedAs
  <1>3. sl.last_prompt = sl.round /\ sl.last_receipt = sl.round
    BY DEF Paced
  <1>. HIDE DEF seen
  <1>4. ASSUME NEW next \in {"blocked", "accept_pending"}
        PROVE  LET new == [seen EXCEPT !.step = next] IN
                 /\ Paced(new) /\ new.step = next /\ new.round = sl.round
                 /\ new.last_prompt = sl.last_prompt /\ new.last_receipt = sl.last_receipt
    <2>1. LET new == [seen EXCEPT !.step = next] IN
            /\ new.step = next /\ new.round = sl.round
            /\ new.last_prompt = sl.last_prompt /\ new.last_receipt = sl.last_receipt
      BY <1>1 DEF SliceState
    <2>. QED BY <1>0, <1>3, <2>1 DEF Paced
  <1>5. CASE v = "needs_work"
    <2>1. sl.round \in 1..(MaxRound - 1)
      BY <1>0, <1>5 DEF Paced
    <2>. QED BY <1>0, <1>1, <1>2, <1>3, <1>5, <2>1, SentBackIsPaced
  <1>6. CASE v = "blocked"
    BY <1>2, <1>4, <1>6
  <1>7. CASE v = "pass"
    BY <1>2, <1>4, <1>7
  <1>. QED BY <1>5, <1>6, <1>7 DEF Opinions

LEMMA AcceptedIsPaced ==
  ASSUME NEW sl \in SliceState, Paced(sl), sl.step = "accept_pending"
  PROVE  LET new == AcceptedAs(sl) IN
            /\ Paced(new) /\ new.step = "accepted" /\ new.round = sl.round
            /\ new.last_prompt = sl.last_prompt /\ new.last_receipt = sl.last_receipt
  <1>0. /\ sl.round \in Nat /\ sl.last_prompt \in Nat /\ sl.last_receipt \in Nat
        /\ MaxRound \in Nat
    BY BoundAssumption DEF SliceState
  <1>1. LET new == AcceptedAs(sl) IN
          /\ new.step = "accepted" /\ new.round = sl.round
          /\ new.last_prompt = sl.last_prompt /\ new.last_receipt = sl.last_receipt
    BY DEF AcceptedAs, SliceState
  <1>. QED BY <1>0, <1>1 DEF Paced

(* What a move does to the slice it is about.                               *)
Advance(old, new, from, to, round) ==
  /\ old.step \in from /\ new.step \in to
  /\ new.round = round
  /\ new.last_prompt = old.last_prompt /\ new.last_receipt = old.last_receipt

Move(s, old, new) ==
  \/ /\ at = "issuing" /\ NextSlice(s)
     /\ old.step \in {"unstarted", "fix"} /\ new.step = "coding" /\ new.round = old.round
     /\ new.last_prompt = old.round /\ new.last_receipt = old.last_receipt
  \/ /\ at = "recording" /\ NextSlice(s)
     /\ Advance(old, new, {"coding"}, {"verifying", "blocked"}, old.round)
  \/ /\ at = "settled" /\ NextSlice(s)
     /\ old.step = "verifying"
     /\ new.step = IF evidence[call] = "ok" THEN "reviewing" ELSE "fix"
     /\ new.round = IF evidence[call] = "ok" THEN old.round ELSE old.round + 1
     /\ new.last_prompt = old.last_prompt /\ new.last_receipt = old.round
  \/ /\ at = "asking" /\ NextSlice(s) /\ Pending(s) = {} /\ Merged(s) = "pass"
     /\ Advance(old, new, {"reviewing"}, {"accept_pending"}, old.round)
  \/ /\ at = "asking" /\ NextSlice(s) /\ Merged(s) = "needs_work"
     /\ Advance(old, new, {"reviewing"}, {"fix"}, old.round + 1)
  \/ /\ at = "asking" /\ NextSlice(s) /\ Merged(s) = "blocked"
     /\ Advance(old, new, {"reviewing"}, {"blocked"}, old.round)
  \/ Advance(old, new, {"accept_pending"}, {"accepted"}, old.round)
  \/ at = "off" /\ Advance(old, new, {"blocked"}, {"fix"}, old.round + 1)

Moved ==
  \E s \in Slices : /\ \A t \in Slices \ {s} : slices'[t] = slices[t]
                    /\ Paced(slices'[s])
                    /\ Move(s, slices[s], slices'[s])

LEMMA MoveEffect ==
  ASSUME Shape, MoveStep
  PROVE  /\ Moved /\ Next
         /\ UNCHANGED <<status, calls, evidence, recorded, marked, head, bounds>>
         /\ at' \in {"idle", "off"}
  <1>0. \A s \in Slices : slices[s] \in SliceState /\ Paced(slices[s])
    BY DEF Shape, RunnerTypeOK, TypeOK, RoundInv
  <1>. USE DEF Advance, Round, Go, calls, grants
  <1>1. ASSUME NEW s \in Slices, AppendPrompt(s)
        PROVE  /\ Moved /\ Next
               /\ UNCHANGED <<status, calls, evidence, recorded, marked, head, bounds>>
               /\ at' \in {"idle", "off"}
    <2>1. slices' = [slices EXCEPT ![s] = Prompted(slices[s])]
      BY <1>1 DEF AppendPrompt, Prompt
    <2>2. slices'[s] = Prompted(slices[s]) /\ \A t \in Slices \ {s} : slices'[t] = slices[t]
      BY <2>1 DEF Shape, RunnerTypeOK, TypeOK
    <2>3. Moved
      <3>1. slices[s].step \in {"unstarted", "fix"} /\ at = "issuing" /\ NextSlice(s)
        BY <1>1 DEF AppendPrompt, Prompt
      <3>3. LET new == slices'[s] old == slices[s] IN
              /\ Paced(new) /\ new.step = "coding" /\ new.round = old.round
              /\ new.last_prompt = old.round /\ new.last_receipt = old.last_receipt
        BY <1>0, <2>2, <3>1, PromptedIsPaced
      <3>. QED BY <2>2, <3>1, <3>3 DEF Moved, Move
    <2>. QED BY <1>1, <2>3 DEF AppendPrompt, Prompt, Next
  <1>2. ASSUME NEW s \in Slices, AppendCoded(s)
        PROVE  /\ Moved /\ Next
               /\ UNCHANGED <<status, calls, evidence, recorded, marked, head, bounds>>
               /\ at' \in {"idle", "off"}
    <2>. DEFINE b == heard = "implemented"
    <2>0. b \in BOOLEAN /\ Coded(s, b)
      BY <1>2 DEF AppendCoded
    <2>. HIDE DEF b
    <2>1. slices' = [slices EXCEPT ![s] = CodedAs(slices[s], b)] /\ slices[s].step = "coding"
      BY <2>0 DEF Coded
    <2>2. /\ slices'[s] = CodedAs(slices[s], b)
          /\ \A t \in Slices \ {s} : slices'[t] = slices[t]
      BY <2>1 DEF Shape, RunnerTypeOK, TypeOK
    <2>3. LET new == slices'[s] old == slices[s] IN
            /\ Paced(new) /\ new.step = IF b THEN "verifying" ELSE "blocked"
            /\ new.round = old.round
            /\ new.last_prompt = old.last_prompt /\ new.last_receipt = old.last_receipt
      BY <1>0, <2>0, <2>1, <2>2, CodedIsPaced
    <2>4. Moved
      BY <1>2, <2>1, <2>2, <2>3 DEF AppendCoded, Moved, Move
    <2>5. UNCHANGED <<status, calls, evidence, recorded, marked, head, bounds>> /\ at' = "idle"
      BY <1>2, <2>0 DEF AppendCoded, Coded
    <2>. QED BY <2>0, <2>4, <2>5 DEF Next
  <1>3. ASSUME NEW s \in Slices, AppendVerified(s)
        PROVE  /\ Moved /\ Next
               /\ UNCHANGED <<status, calls, evidence, recorded, marked, head, bounds>>
               /\ at' \in {"idle", "off"}
    <2>. DEFINE b == evidence[call] = "ok"
    <2>0. b \in BOOLEAN /\ Verified(s, b)
      BY <1>3 DEF AppendVerified
    <2>6. b <=> evidence[call] = "ok"
      OBVIOUS
    <2>. HIDE DEF b
    <2>1. /\ slices' = [slices EXCEPT ![s] = VerifiedAs(slices[s], b)]
          /\ slices[s].step = "verifying"
          /\ b \/ slices[s].round < MaxRound
      BY <2>0 DEF Verified
    <2>2. /\ slices'[s] = VerifiedAs(slices[s], b)
          /\ \A t \in Slices \ {s} : slices'[t] = slices[t]
      BY <2>1 DEF Shape, RunnerTypeOK, TypeOK
    <2>3. LET new == slices'[s] old == slices[s] IN
            /\ Paced(new) /\ new.step = IF b THEN "reviewing" ELSE "fix"
            /\ new.round = IF b THEN old.round ELSE old.round + 1
            /\ new.last_prompt = old.last_prompt /\ new.last_receipt = old.round
      BY <1>0, <2>0, <2>1, <2>2, VerifiedIsPaced
    <2>4. Moved
      BY <1>3, <2>1, <2>2, <2>3, <2>6 DEF AppendVerified, Moved, Move
    <2>5. UNCHANGED <<status, calls, evidence, recorded, marked, head, bounds>> /\ at' = "idle"
      BY <1>3, <2>0 DEF AppendVerified, Verified
    <2>. QED BY <2>0, <2>4, <2>5 DEF Next
  <1>4. ASSUME NEW s \in Slices, AppendReviewed(s)
        PROVE  /\ Moved /\ Next
               /\ UNCHANGED <<status, calls, evidence, recorded, marked, head, bounds>>
               /\ at' \in {"idle", "off"}
    <2>0. Merged(s) \in Opinions /\ Merged(s) \in Verdicts
      BY DEF Merged, Opinions, Verdicts
    <2>. DEFINE v == Merged(s)
    <2>1. /\ slices' = [slices EXCEPT ![s] = ReviewedAs(slices[s], v)]
          /\ slices[s].step = "reviewing"
          /\ v = "needs_work" => slices[s].round < MaxRound
      BY <1>4 DEF AppendReviewed, Reviewed
    <2>2. /\ slices'[s] = ReviewedAs(slices[s], v)
          /\ \A t \in Slices \ {s} : slices'[t] = slices[t]
      BY <2>1 DEF Shape, RunnerTypeOK, TypeOK
    <2>3. LET new == slices'[s] old == slices[s] IN
            /\ Paced(new)
            /\ new.step = CASE v = "needs_work" -> "fix" [] v = "blocked" -> "blocked"
                            [] OTHER -> "accept_pending"
            /\ new.round = IF v = "needs_work" THEN old.round + 1 ELSE old.round
            /\ new.last_prompt = old.last_prompt /\ new.last_receipt = old.last_receipt
      <3>. HIDE DEF v
      <3>1. v \in Opinions
        BY <2>0 DEF v
      <3>. QED BY <1>0, <2>1, <2>2, <3>1, ReviewedIsPaced
    <2>6. at = "asking" /\ NextSlice(s) /\ Pending(s) = {} /\ v = Merged(s) /\ v \in Opinions
      BY <1>4, <2>0 DEF AppendReviewed
    <2>7. Reviewed(s, v) /\ v \in Verdicts
      BY <1>4, <2>0 DEF AppendReviewed
    <2>8. UNCHANGED <<evidence, recorded, marked, bounds>> /\ at' = "idle"
      BY <1>4 DEF AppendReviewed
    <2>. HIDE DEF v
    <2>4. Moved
      BY <2>1, <2>2, <2>3, <2>6 DEF Opinions, Moved, Move
    <2>5. UNCHANGED <<status, calls, head>>
      BY <2>7 DEF Reviewed
    <2>. QED BY <2>4, <2>5, <2>7, <2>8 DEF Next
  <1>5. ASSUME NEW s \in Slices, Accept(s)
        PROVE  /\ Moved /\ Next
               /\ UNCHANGED <<status, calls, evidence, recorded, marked, head, bounds>>
               /\ at' \in {"idle", "off"}
    <2>1. slices' = [slices EXCEPT ![s] = AcceptedAs(slices[s])]
          /\ slices[s].step = "accept_pending"
      BY <1>5 DEF Accept, MayAccept, Accepted
    <2>2. /\ slices'[s] = AcceptedAs(slices[s])
          /\ \A t \in Slices \ {s} : slices'[t] = slices[t]
      BY <2>1 DEF Shape, RunnerTypeOK, TypeOK
    <2>3. Moved
      <3>2. LET new == slices'[s] old == slices[s] IN
              /\ Paced(new) /\ new.step = "accepted" /\ new.round = old.round
              /\ new.last_prompt = old.last_prompt /\ new.last_receipt = old.last_receipt
        BY <1>0, <2>1, <2>2, AcceptedIsPaced
      <3>. QED BY <2>1, <2>2, <3>2 DEF Moved, Move
    <2>4. Next
      BY <1>5 DEF Accept, Next
    <2>. QED BY <1>5, <2>3, <2>4 DEF Accept, Accepted
  <1>6. ASSUME NEW s \in Slices, Unblock(s)
        PROVE  /\ Moved /\ Next
               /\ UNCHANGED <<status, calls, evidence, recorded, marked, head, bounds>>
               /\ at' \in {"idle", "off"}
    <2>1. /\ slices' = [slices EXCEPT ![s] = SentBack(slices[s])]
          /\ slices[s].step = "blocked" /\ slices[s].round < MaxRound
      BY <1>6 DEF Unblock, Resolved
    <2>2. /\ slices'[s] = SentBack(slices[s])
          /\ \A t \in Slices \ {s} : slices'[t] = slices[t]
      BY <2>1 DEF Shape, RunnerTypeOK, TypeOK
    <2>3. /\ slices[s].round \in 1..(MaxRound - 1)
          /\ slices[s].last_prompt = slices[s].round
          /\ slices[s].last_receipt \in 0..slices[s].round
      BY <1>0, <2>1, BoundAssumption DEF Paced
    <2>4. Moved
      BY <1>0, <1>6, <2>1, <2>2, <2>3, SentBackIsPaced
      DEF Moved, Move, Unblock, Appended
    <2>. QED BY <1>6, <2>4 DEF Unblock, Appended, Resolved, Next, volatile
  <1>. QED BY <1>1, <1>2, <1>3, <1>4, <1>5, <1>6 DEF MoveStep

LEMMA MinOfTwo ==
  ASSUME NEW m \in Int, NEW n \in Int
  PROVE  Min({m, n}) \in {m, n} /\ Min({m, n}) <= m /\ Min({m, n}) <= n
  <1>. DEFINE S == {m, n}
  <1>1. \E x \in S : \A y \in S : x <= y
    BY DEF S
  <1>2. \A x, y \in S : x =< y <=> x <= y
    OBVIOUS
  <1>3. Min(S) \in S /\ \A y \in S : Min(S) <= y
    BY <1>1 DEF Min
  <1>. QED BY <1>3

LEMMA TurnIsOnRoute ==
  ASSUME NEW s \in Slices, Pending(s) # {}
  PROVE  /\ Min(Pending(s)) \in Pending(s)
         /\ Turn(s) \in Reviewers
  <1>1. Route \in Seq(Reviewers)
    BY RunnerAssumption
  <1>. DEFINE S == Pending(s)
  <1>2. S \subseteq Nat /\ S \subseteq DOMAIN Route
    BY <1>1 DEF Pending
  <1>3. S # {}
    OBVIOUS
  <1>. HIDE DEF S
  <1>5. \E x \in S : \A y \in S : x =< y
    BY <1>2, <1>3, LeastNumber
  <1>6. Min(S) \in S
    BY <1>5 DEF Min
  <1>7. Min(Pending(s)) \in Pending(s) /\ Min(Pending(s)) \in DOMAIN Route
    BY <1>2, <1>6 DEF S
  <1>. QED BY <1>7 DEF Turn, Reviewers

LEMMA ReservationType ==
  ASSUME Shape, head \in Runs, runs[head] \in RunState,
         NEW role \in Roles \ {"holistic"}, NEW scope \in Scopes, NEW round \in 0..MaxRound,
         NEW seat \in Seats \cup {Suite}, NEW retry \in Retries,
         NEW parent \in Invocations \cup {None},
         (retry = "initial") <=> (parent = None),
         role # "probe" => scope \in Slices /\ round # Holistic,
         Reservation(role, scope, round, seat, retry, parent).seconds > 0
  PROVE  Reservation(role, scope, round, seat, retry, parent) \in Starts
  <1>. DEFINE left == Remaining(runs[head])["seconds"]
              a    == Reservation(role, scope, round, seat, retry, parent)
  <1>1. left \in Int
    BY DEF Remaining, RunState, Units
  <1>2. a.seconds = Min({MaxSeconds, left})
    BY DEF Reservation
  <1>3. a.seconds \in 1..MaxSeconds
    <2>. HIDE DEF left
    <2>1. /\ Min({MaxSeconds, left}) \in {MaxSeconds, left}
          /\ Min({MaxSeconds, left}) <= MaxSeconds
      BY <1>1, MinOfTwo, BoundAssumption
    <2>. QED BY <1>1, <1>2, <2>1, BoundAssumption
  <1>4. Bound(seat, scope) \in Contracts
    <2>1. \A s \in Slices : slices[s].last_prompt \in 0..MaxRound
      BY BoundAssumption DEF Shape, RoundInv, Paced
    <2>2. Issued(scope) \in [Slices -> 0..MaxRound]
      BY <2>1, BoundAssumption DEF Issued
    <2>3. Bound(seat, scope) \in Digests
      BY <2>2 DEF Bound, Digests, Shape, RunnerTypeOK
    <2>. QED BY <2>3, RunnerAssumption
  <1>5. /\ a.role = role /\ a.scope = scope /\ a.round = round
        /\ a.contract = Bound(seat, scope) /\ a.retry = retry /\ a.parent = parent
    BY DEF Reservation
  <1>6. a \in [role: Roles, scope: Scopes, round: 0..MaxRound, contract: Contracts,
               retry: Retries, parent: Invocations \cup {None}, seconds: 1..MaxSeconds]
    <2>1. a = [role |-> role, scope |-> scope, round |-> round, contract |-> Bound(seat, scope),
               retry |-> retry, parent |-> parent, seconds |-> a.seconds]
      BY DEF Reservation
    <2>. HIDE DEF a
    <2>. QED BY <1>3, <1>4, <2>1
  <1>. HIDE DEF a
  <1>7. a \in Starts
    BY <1>5, <1>6, RoadmapAssumption DEF Starts, Holistic
  <1>. QED BY <1>7 DEF a

(* What a reservation appends.                                              *)
Sent(i, a) ==
  /\ i \in Invocations \ Started
  /\ AttemptStarted(i, a) /\ call' = i
  /\ Started' = Started \cup {i}
  /\ \A j \in Started : attempts'[j] = attempts[j]
  /\ attempts'[i].phase = "started" /\ attempts'[i].start = a
  /\ attempts'[i].run = head /\ attempts'[i].root = RootOf(i, a)
  /\ UNCHANGED <<status, lifecycle, checkpoints, head>>

LEMMA ReserveEffect ==
  ASSUME Shape, NEW a, Reserve(a)
  PROVE  /\ \E i \in Invocations : Sent(i, a)
         /\ head \in Runs /\ Open(head) /\ runs[head] \in RunState
         /\ a.seconds > 0 /\ last' = Other /\ Unfinished = {}
  <1>1. \E j \in Invocations : j \notin Started
    BY DEF Reserve, Started
  <1>2. (CHOOSE j \in Invocations : j \notin Started) \in Invocations \ Started
    BY <1>1
  <1>3. PICK i \in Invocations \ Started : AttemptStarted(i, a) /\ call' = i
    BY <1>2 DEF Reserve
  <1>4. Sent(i, a)
    BY <1>3 DEF Sent, AttemptStarted, Shape, RunnerTypeOK, TypeOK, Started
  <1>5. GrantAdmits(a) /\ Unfinished = {}
    BY <1>3, RunnerAssumption DEF AttemptStarted
  <1>6. head \in Runs /\ Open(head) /\ runs[head] \in RunState
    BY <1>5, AdmittedType DEF GrantAdmits, Shape, RunnerTypeOK, TypeOK
  <1>. QED BY <1>4, <1>5, <1>6 DEF Reserve

LEMMA CoderCallType ==
  ASSUME Shape, NEW s \in Slices, CallCoder(s)
  PROVE  Dispatch(s) \in Starts
  <1>1. Reserve(Dispatch(s))
    BY DEF CallCoder
  <1>2. head \in Runs /\ runs[head] \in RunState /\ Dispatch(s).seconds > 0
    BY <1>1, ReserveEffect
  <1>3. Round(s) \in 0..MaxRound /\ Round(s) # Holistic
    BY HereType, BoundAssumption DEF Shape, Holistic
  <1>4. /\ "coder" \in Roles \ {"holistic"} /\ s \in Scopes /\ Coder \in Seats \cup {Suite}
        /\ "transport" \in Retries /\ "initial" \in Retries
    BY DEF Roles, Scopes, Seats, Retries
  <1>5. CASE heard = "transport"
    <2>1. call \in Invocations /\ call # None
      BY <1>5 DEF Shape, RunnerTypeOK, HeardInv
    <2>2. Dispatch(s) = Reservation("coder", s, Round(s), Coder, "transport", call)
      BY <1>5 DEF Dispatch
    <2>. QED BY <1>2, <1>3, <1>4, <2>1, <2>2, ReservationType
  <1>6. CASE heard # "transport"
    <2>1. Dispatch(s) = Reservation("coder", s, Round(s), Coder, "initial", None)
      BY <1>6 DEF Dispatch
    <2>. QED BY <1>2, <1>3, <1>4, <2>1, ReservationType
  <1>. QED BY <1>5, <1>6

LEMMA TestCallType ==
  ASSUME Shape, NEW s \in Slices, CallTests(s)
  PROVE  TestRun(s) \in Starts
  <1>1. Reserve(TestRun(s))
    BY DEF CallTests
  <1>2. head \in Runs /\ runs[head] \in RunState /\ TestRun(s).seconds > 0
    BY <1>1, ReserveEffect
  <1>3. Round(s) \in 0..MaxRound /\ Round(s) # Holistic
    BY HereType, BoundAssumption DEF Shape, Holistic
  <1>4. /\ "verification" \in Roles \ {"holistic"} /\ s \in Scopes
        /\ Suite \in Seats \cup {Suite} /\ "initial" \in Retries
    BY DEF Roles, Scopes, Retries
  <1>. QED BY <1>2, <1>3, <1>4, ReservationType DEF TestRun

LEMMA NextCallType ==
  ASSUME NEW seat, NEW s, NEW c \in NextCalls(seat, s)
  PROVE  /\ c.retry \in Retries /\ c.parent \in Invocations \cup {None}
         /\ (c.retry = "initial") <=> (c.parent = None)
         /\ c.retry = "initial" => Asked(seat, s) = {}
  <1>1. CASE Asked(seat, s) = {}
    BY <1>1 DEF NextCalls, Retries
  <1>2. CASE Asked(seat, s) # {}
    <2>1. c.retry \in {"format", "transport"} /\ c.parent \in Latest(seat, s)
      BY <1>2 DEF NextCalls
    <2>2. c.parent \in Invocations
      BY <2>1 DEF Latest, Asked, Asks, Started
    <2>. QED BY <2>1, <2>2, IdentityAssumption DEF Retries
  <1>. QED BY <1>1, <1>2

LEMMA ReviewCallType ==
  ASSUME Shape, NEW s \in Slices, Pending(s) # {}, NEW c \in NextCalls(Turn(s), s),
         Reserve(ReviewCall(Turn(s), s, c))
  PROVE  ReviewCall(Turn(s), s, c) \in Starts
  <1>2. head \in Runs /\ runs[head] \in RunState /\ ReviewCall(Turn(s), s, c).seconds > 0
    BY ReserveEffect
  <1>3. Round(s) \in 0..MaxRound /\ Round(s) # Holistic
    BY HereType, BoundAssumption DEF Shape, Holistic
  <1>4. /\ "reviewer" \in Roles \ {"holistic"} /\ s \in Scopes
        /\ Turn(s) \in Seats \cup {Suite}
    BY TurnIsOnRoute DEF Roles, Scopes, Seats
  <1>5. /\ c.retry \in Retries /\ c.parent \in Invocations \cup {None}
        /\ (c.retry = "initial") <=> (c.parent = None)
    BY NextCallType
  <1>. QED BY <1>2, <1>3, <1>4, <1>5, ReservationType DEF ReviewCall

LEMMA ProbeCallType ==
  ASSUME Shape, NEW seat \in ProbePlan, CallProbe(seat)
  PROVE  ProbeCall(seat) \in Starts
  <1>1. Reserve(ProbeCall(seat))
    BY DEF CallProbe
  <1>2. head \in Runs /\ runs[head] \in RunState /\ ProbeCall(seat).seconds > 0
    BY <1>1, ReserveEffect
  <1>3. Holistic \in 0..MaxRound
    BY BoundAssumption DEF Holistic
  <1>4. /\ "probe" \in Roles \ {"holistic"} /\ runs[head].milestone \in Scopes
        /\ seat \in Seats \cup {Suite} /\ "initial" \in Retries
    BY <1>2, RunnerAssumption DEF Roles, Scopes, Retries, RunState
  <1>. QED BY <1>2, <1>3, <1>4, ReservationType DEF ProbeCall

(* What a call leaves alone until it is answered.                           *)
effects == <<evidence, loose, recorded, marked, product, accounted, bounds>>

(* Which call was sent, and from where.                                     *)
SentFor(a) ==
  \/ \E s \in Slices : CallCoder(s) /\ a = Dispatch(s)
  \/ \E s \in Slices : CallTests(s) /\ a = TestRun(s)
  \/ \E s \in Slices : CallReviewer(s) /\ \E c \in NextCalls(Turn(s), s) :
                                            a = ReviewCall(Turn(s), s, c)
  \/ \E seat \in ProbePlan : CallProbe(seat) /\ a = ProbeCall(seat)

LEMMA SendEffect ==
  ASSUME Shape, SendStep
  PROVE  /\ \E i \in Invocations, a \in Starts : Sent(i, a) /\ SentFor(a)
         /\ Next /\ Unfinished = {} /\ last' = Other
         /\ UNCHANGED effects
  <1>0. SUFFICES \E a \in Starts : /\ Reserve(a) /\ SentFor(a)
                 /\ UNCHANGED effects
    <2>1. PICK a \in Starts :
            /\ Reserve(a) /\ SentFor(a)
            /\ UNCHANGED effects
      BY <1>0
    <2>2. PICK i \in Invocations : Sent(i, a)
      BY <2>1, ReserveEffect
    <2>3. Next
      BY <2>2 DEF Next, Sent
    <2>. QED BY <2>1, <2>2, <2>3, ReserveEffect
  <1>1. ASSUME NEW s \in Slices, CallCoder(s)
        PROVE  Reserve(Dispatch(s)) /\ SentFor(Dispatch(s)) /\ UNCHANGED effects
    BY <1>1 DEF CallCoder, SentFor, effects
  <1>2. ASSUME NEW s \in Slices, CallTests(s)
        PROVE  Reserve(TestRun(s)) /\ SentFor(TestRun(s)) /\ UNCHANGED effects
    BY <1>2 DEF CallTests, SentFor, effects
  <1>3. ASSUME NEW s \in Slices, CallReviewer(s)
        PROVE  \E a \in Starts : Reserve(a) /\ SentFor(a) /\ UNCHANGED effects
    <2>1. PICK c \in NextCalls(Turn(s), s) : Reserve(ReviewCall(Turn(s), s, c))
      BY <1>3 DEF CallReviewer
    <2>2. Pending(s) # {} /\ UNCHANGED effects
      BY <1>3 DEF CallReviewer, effects
    <2>3. ReviewCall(Turn(s), s, c) \in Starts
      BY <2>1, <2>2, ReviewCallType
    <2>4. SentFor(ReviewCall(Turn(s), s, c))
      BY <1>3 DEF SentFor
    <2>. QED BY <2>1, <2>2, <2>3, <2>4
  <1>4. ASSUME NEW seat \in ProbePlan, CallProbe(seat)
        PROVE  Reserve(ProbeCall(seat)) /\ SentFor(ProbeCall(seat)) /\ UNCHANGED effects
    BY <1>4 DEF CallProbe, SentFor, effects
  <1>. QED BY <1>1, <1>2, <1>3, <1>4, CoderCallType, TestCallType, ProbeCallType DEF SendStep

LEMMA SendPlace ==
  ASSUME Shape, SendStep
  PROVE  PlaceOK' /\ FieldsOK'
  <1>1. FieldsOK'
    <2>1. Other \in Lines
      BY DEF Other, Line, Lines
    <2>. QED BY <2>1, SendEffect DEF Shape, RunnerTypeOK, FieldsOK, effects, bounds
  <1>2. call' \in Invocations /\ call' # None
    BY SendEffect, IdentityAssumption DEF Sent
  <1>3. /\ at' \in {"coding", "testing", "reviewing"} \/ UNCHANGED at
        /\ heard' = "none" \/ UNCHANGED <<at, heard>>
             \/ (UNCHANGED heard /\ at \in {"idle", "asking"})
        /\ UNCHANGED probed
    BY DEF SendStep, CallCoder, CallTests, CallReviewer, CallProbe
  <1>. QED BY <1>1, <1>2, <1>3 DEF Shape, RunnerTypeOK, PlaceOK, HeardInv, Places

(* Which call was settled, as what, and from where.                         *)
SettledFor(i, o) ==
  \/ /\ at = "coding" /\ i = call
     /\ \E result \in Coding, content \in Contents, n \in 0..MaxMeasured :
          /\ CoderReturns(result, content, n)
          /\ o = IF result \in {"transport", "refused"} THEN "failed" ELSE "completed"
  \/ /\ at = "tested" /\ at' = "settled" /\ i = call /\ UNCHANGED <<call, heard, probed>>
     /\ o = IF evidence[call] = "ok" THEN "completed" ELSE "failed"
  \/ /\ at = "answered" /\ at' = "asking" /\ i = call /\ call' = None
     /\ UNCHANGED <<product, heard, probed>>
     /\ o = IF evidence[call] \in {"transport", "refused"} THEN "failed" ELSE "completed"
  \/ /\ ReadinessDue /\ i = call /\ call' = None
     /\ UNCHANGED <<at, product, heard, probed>>
     /\ o \in {"completed", "failed"}
  \/ at = "off" /\ UNCHANGED volatile /\ o = "resolved"

LEMMA SettleEffect ==
  ASSUME Shape, SettleStep
  PROVE  /\ \E i \in Unfinished, o \in Outcomes, n \in Measures :
              AttemptFinished(i, o, n) /\ SettledFor(i, o)
         /\ Next
         /\ UNCHANGED <<evidence, recorded, marked, accounted, bounds>>
         /\ PlaceOK' /\ FieldsOK'
  <1>. USE DEF Outcomes
  <1>0. /\ \A i \in Invocations : Line("finish", i) \in Lines
        /\ 0..MaxMeasured \subseteq Measures
        /\ \A i : \A o \in Outcomes : \A n : AttemptFinished(i, o, n) => i \in Unfinished
    BY DEF Line, Lines, Measures, AttemptFinished
  <1>1. SUFFICES /\ \E i \in Unfinished, o \in Outcomes, n \in Measures :
                      AttemptFinished(i, o, n) /\ SettledFor(i, o)
                 /\ UNCHANGED <<evidence, recorded, marked, accounted, bounds>>
                 /\ PlaceOK' /\ FieldsOK'
    BY DEF Next, Unfinished
  <1>. USE DEF Shape, RunnerTypeOK, PlaceOK, FieldsOK, HeardInv, Settle, Places, bounds
  <1>2. ASSUME NEW n \in 0..MaxMeasured, SettleTests(n)
        PROVE  /\ \E i \in Unfinished, o \in Outcomes, k \in Measures :
                    AttemptFinished(i, o, k) /\ SettledFor(i, o)
               /\ UNCHANGED <<evidence, recorded, marked, accounted, bounds>>
               /\ PlaceOK' /\ FieldsOK'
    <2>. DEFINE o == IF evidence[call] = "ok" THEN "completed" ELSE "failed"
    <2>1. AttemptFinished(call, o, n) /\ o \in Outcomes /\ SettledFor(call, o)
      BY <1>2 DEF SettleTests, SettledFor, Go
    <2>2. call \in Invocations
      BY <1>0, <2>1 DEF Unfinished
    <2>3. PlaceOK' /\ FieldsOK'
      BY <1>0, <1>2, <2>2 DEF SettleTests, Go
    <2>. QED BY <1>0, <1>2, <2>1, <2>3 DEF SettleTests
  <1>3. ASSUME NEW n \in 0..MaxMeasured, SettleReview(n)
        PROVE  /\ \E i \in Unfinished, o \in Outcomes, k \in Measures :
                    AttemptFinished(i, o, k) /\ SettledFor(i, o)
               /\ UNCHANGED <<evidence, recorded, marked, accounted, bounds>>
               /\ PlaceOK' /\ FieldsOK'
    <2>. DEFINE o == IF evidence[call] \in {"transport", "refused"} THEN "failed" ELSE "completed"
    <2>1. AttemptFinished(call, o, n) /\ o \in Outcomes /\ SettledFor(call, o)
      BY <1>3 DEF SettleReview, SettledFor
    <2>2. call \in Invocations
      BY <1>0, <2>1 DEF Unfinished
    <2>3. PlaceOK' /\ FieldsOK'
      BY <1>0, <1>3, <2>2 DEF SettleReview
    <2>. QED BY <1>0, <1>3, <2>1, <2>3 DEF SettleReview
  <1>4. ASSUME NEW n \in 0..MaxMeasured, NEW o \in {"completed", "failed"}, ProbeReturns(o, n)
        PROVE  /\ \E i \in Unfinished, p \in Outcomes, k \in Measures :
                    AttemptFinished(i, p, k) /\ SettledFor(i, p)
               /\ UNCHANGED <<evidence, recorded, marked, accounted, bounds>>
               /\ PlaceOK' /\ FieldsOK'
    <2>1. AttemptFinished(call, o, n) /\ SettledFor(call, o) /\ call \in Unfinished
      BY <1>4 DEF ProbeReturns, SettledFor
    <2>2. call \in Invocations
      BY <2>1 DEF Unfinished
    <2>3. PlaceOK' /\ FieldsOK'
      BY <1>0, <1>4, <2>2 DEF ProbeReturns, ReadinessDue
    <2>. QED BY <1>0, <1>4, <2>1, <2>3 DEF ProbeReturns
  <1>5. ASSUME NEW n \in 0..MaxMeasured, NEW result \in Coding, NEW content \in Contents,
               CoderReturns(result, content, n)
        PROVE  /\ \E i \in Unfinished, p \in Outcomes, k \in Measures :
                    AttemptFinished(i, p, k) /\ SettledFor(i, p)
               /\ UNCHANGED <<evidence, recorded, marked, accounted, bounds>>
               /\ PlaceOK' /\ FieldsOK'
    <2>. DEFINE o == IF result \in {"transport", "refused"} THEN "failed" ELSE "completed"
    <2>1. AttemptFinished(call, o, n) /\ o \in Outcomes /\ SettledFor(call, o)
      BY <1>5 DEF CoderReturns, SettledFor
    <2>2. call \in Invocations
      BY <1>0, <2>1 DEF Unfinished
    <2>4. PlaceOK'
      BY <1>5, <2>2, IdentityAssumption DEF CoderReturns, End
    <2>5. FieldsOK'
      BY <1>0, <1>5, <2>2 DEF CoderReturns
    <2>. QED BY <1>0, <1>5, <2>1, <2>4, <2>5 DEF CoderReturns
  <1>6. ASSUME NEW i \in Unfinished, Attribute(i)
        PROVE  /\ \E j \in Unfinished, p \in Outcomes, k \in Measures :
                    AttemptFinished(j, p, k) /\ SettledFor(j, p)
               /\ UNCHANGED <<evidence, recorded, marked, accounted, bounds>>
               /\ PlaceOK' /\ FieldsOK'
    <2>1. i \in Invocations /\ attempts[i].start.seconds \in Measures
      BY DEF Unfinished, TypeOK, AttemptState, NoAttempt, Starts, Measures
    <2>2. AttemptFinished(i, "resolved", attempts[i].start.seconds) /\ SettledFor(i, "resolved")
      BY <1>6 DEF Attribute, Appended, SettledFor, volatile
    <2>3. PlaceOK' /\ FieldsOK'
      BY <1>0, <1>6, <2>1 DEF Attribute, Appended, volatile
    <2>. QED BY <1>6, <2>1, <2>2, <2>3 DEF Attribute, Appended
  <1>. QED BY <1>2, <1>3, <1>4, <1>5, <1>6 DEF SettleStep

LEMMA AnswerEffect ==
  ASSUME Shape, AnswerStep
  PROVE  /\ UNCHANGED <<vars, recorded, marked, call, heard, probed, bounds>>
         /\ \E answer \in Tested \cup Answers : evidence' = [evidence EXCEPT ![call] = answer]
         /\ \/ at = "testing" /\ at' = "tested"
            \/ at = "reviewing" /\ at' = "answered" /\ UNCHANGED <<product, accounted>>
         /\ PlaceOK' /\ FieldsOK'
  <1>. USE DEF Shape, RunnerTypeOK, PlaceOK, FieldsOK, HeardInv, Go, Places, Files, bounds
  <1>1. ASSUME NEW result \in Tested, NEW content \in Contents, TestsReturn(result, content)
        PROVE  /\ UNCHANGED <<vars, recorded, marked, call, heard, probed, bounds>>
               /\ \E answer \in Tested \cup Answers :
                    evidence' = [evidence EXCEPT ![call] = answer]
               /\ at = "testing" /\ at' = "tested"
               /\ PlaceOK' /\ FieldsOK'
    BY <1>1 DEF TestsReturn
  <1>2. ASSUME NEW answer \in Answers, ReviewerReturns(answer)
        PROVE  /\ UNCHANGED <<vars, recorded, marked, call, heard, probed, bounds>>
               /\ \E said \in Tested \cup Answers : evidence' = [evidence EXCEPT ![call] = said]
               /\ at = "reviewing" /\ at' = "answered" /\ UNCHANGED <<product, accounted>>
               /\ PlaceOK' /\ FieldsOK'
    BY <1>2 DEF ReviewerReturns
  <1>. QED BY <1>1, <1>2 DEF AnswerStep

LEMMA CheckEffect ==
  ASSUME Shape, CheckStep
  PROVE  /\ \E i \in Invocations :
              /\ ReviewCheckpoint(i) /\ evidence[i] \in Opinions
              /\ checkpoints' = checkpoints \cup {i}
         /\ at = "asking" /\ at' = "asking" /\ Next
         /\ UNCHANGED <<status, lifecycle, attempts, runs, head, call, heard, probed,
                        evidence, recorded, marked, product, accounted, bounds>>
         /\ PlaceOK' /\ FieldsOK'
  <1>1. PICK s \in Slices : AppendCheckpoint(s)
    BY DEF CheckStep
  <1>2. PICK i \in Reports(Turn(s), s) : ReviewCheckpoint(i)
    BY <1>1 DEF AppendCheckpoint
  <1>3. i \in Invocations /\ evidence[i] \in Opinions
    BY DEF Reports, Latest, Asked, Asks, Started
  <1>4. Next /\ checkpoints' = checkpoints \cup {i}
        /\ UNCHANGED <<status, lifecycle, attempts, runs, head>>
    BY <1>2, <1>3 DEF Next, ReviewCheckpoint, grants
  <1>5. Other \in Lines
    BY DEF Other, Line, Lines
  <1>. QED BY <1>1, <1>2, <1>3, <1>4, <1>5
           DEF AppendCheckpoint, Go, Shape, RunnerTypeOK, PlaceOK, FieldsOK, HeardInv, bounds

LEMMA GrantEffect ==
  ASSUME Shape, GrantStep
  PROVE  /\ at = "off" /\ Next
         /\ UNCHANGED <<status, lifecycle, calls, volatile, evidence, recorded, marked, bounds>>
         /\ PlaceOK' /\ FieldsOK'
  <1>1. Other \in Lines
    BY DEF Other, Line, Lines
  <1>2. at = "off" /\ Appended(Other) /\ Next /\ UNCHANGED <<status, lifecycle, calls>>
    BY DEF GrantStep, GrantRun, ExtendRun, Next, RunAdmitted, RunExtended, Appended
  <1>. QED BY <1>1, <1>2
           DEF Appended, volatile, Shape, RunnerTypeOK, PlaceOK, FieldsOK, HeardInv, bounds

LEMMA MovePlace ==
  ASSUME Shape, MoveStep
  PROVE  PlaceOK' /\ FieldsOK'
  <1>1. Other \in Lines
    BY DEF Other, Line, Lines
  <1>. USE <1>1 DEF Shape, RunnerTypeOK, PlaceOK, FieldsOK, HeardInv, Go, Places, bounds
  <1>2. ASSUME NEW s \in Slices,
               AppendPrompt(s) \/ AppendReviewed(s) \/ Accept(s)
        PROVE  PlaceOK' /\ FieldsOK'
    BY <1>2 DEF AppendPrompt, AppendReviewed, Accept
  <1>3. ASSUME NEW s \in Slices, AppendCoded(s) \/ AppendVerified(s)
        PROVE  PlaceOK' /\ FieldsOK'
    BY <1>3 DEF AppendCoded, AppendVerified
  <1>4. ASSUME NEW s \in Slices, Unblock(s)
        PROVE  PlaceOK' /\ FieldsOK'
    BY <1>4 DEF Unblock, Appended, volatile
  <1>. QED BY <1>2, <1>3, <1>4 DEF MoveStep

(* Every step of the runner is a step of the ledger, or none.               *)
LEMMA RunnerAppends ==
  ASSUME Shape, RunnerNext
  PROVE  [Next]_vars
  <1>1. QuietStep \/ AnswerStep \/ MoveStep \/ SendStep \/ SettleStep \/ CheckStep \/ GrantStep
    BY StepKinds
  <1>. QED BY <1>1, QuietEffect, AnswerEffect, MoveEffect, SendEffect, SettleEffect,
              CheckEffect, GrantEffect

LEMMA ShapeStep ==
  ASSUME Shape, [RunnerNext]_rvars
  PROVE  Shape'
  <1>1. CASE RunnerNext
    <2>1. [Next]_vars
      BY <1>1, RunnerAppends
    <2>2. TypeOK' /\ AttemptsAreOwned'
      <3>1. CASE Next
        BY <3>1, TypeStep, OwnershipStep DEF Shape, RunnerTypeOK
      <3>2. CASE UNCHANGED vars
        BY <3>2, LedgerUnchanged DEF Shape, RunnerTypeOK
      <3>. QED BY <2>1, <3>1, <3>2
    <2>3. PlaceOK' /\ FieldsOK'
      BY <1>1, StepKinds, QuietPlace, QuietFields, AnswerEffect, MovePlace, SendPlace,
         SettleEffect, CheckEffect, GrantEffect
    <2>4. RoundInv'
      <3>1. CASE MoveStep
        <4>1. PICK s \in Slices : /\ \A t \in Slices \ {s} : slices'[t] = slices[t]
                                  /\ Paced(slices'[s])
          BY <3>1, MoveEffect DEF Moved
        <4>2. \A t \in Slices : Paced(slices[t])
          BY DEF Shape, RoundInv
        <4>3. \A t \in Slices : Paced(slices'[t])
          BY <4>1, <4>2
        <4>. QED BY <4>3 DEF RoundInv
      <3>2. ASSUME ~MoveStep PROVE UNCHANGED slices
        <4>1. CASE SendStep
          BY <4>1, SendEffect DEF Sent, lifecycle
        <4>2. CASE SettleStep
          BY <4>2, SettleEffect DEF AttemptFinished, lifecycle
        <4>3. CASE QuietStep \/ AnswerStep \/ CheckStep \/ GrantStep
          BY <4>3, QuietEffect, AnswerEffect, CheckEffect, GrantEffect DEF vars, lifecycle
        <4>. QED BY <1>1, <3>2, <4>1, <4>2, <4>3, StepKinds
      <3>. QED BY <3>1, <3>2 DEF Shape, RoundInv
    <2>. QED BY <2>2, <2>3, <2>4 DEF Shape, PlaceOK, FieldsOK, RunnerTypeOK
  <1>2. CASE UNCHANGED rvars
    <2>1. TypeOK' /\ AttemptsAreOwned' /\ RoundInv'
      BY <1>2, LedgerUnchanged DEF rvars, Shape, RunnerTypeOK
    <2>. QED BY <1>2, <2>1 DEF rvars, durable, volatile, bounds, Shape, RunnerTypeOK, HeardInv
  <1>. QED BY <1>1, <1>2

LEMMA ShapeInit ==
  ASSUME RunnerInit
  PROVE  Shape
  <1>1. TypeOK
    BY InitType DEF RunnerInit
  <1>2. AttemptsAreOwned
    BY DEF RunnerInit, Init, AttemptsAreOwned, Started, NoAttempt
  <1>3. RoundInv
    BY BoundAssumption DEF RunnerInit, Init, RoundInv, Paced, NewSlice
  <1>4. HeardInv
    BY DEF RunnerInit, HeardInv
  <1>5. Other \in Lines
    BY DEF Other, Line, Lines
  <1>6. FieldsOK
    BY <1>5, RunnerAssumption DEF RunnerInit, FieldsOK
  <1>7. PlaceOK
    BY <1>4 DEF RunnerInit, PlaceOK, Places
  <1>. QED BY <1>1, <1>2, <1>3, <1>6, <1>7 DEF Shape, FieldsOK, PlaceOK, RunnerTypeOK

(* Whatever the runner, its crashes and the people around it do, the state  *)
(* keeps the shape the files and the fields of the runner give it           *)
(* (loop.py, _attempts.py).                                                 *)
THEOREM RunnerTypeCorrect == RunnerSpec => []RunnerTypeOK
  <1>1. RunnerInit => Shape
    BY ShapeInit
  <1>2. Shape /\ [RunnerNext]_rvars => Shape'
    BY ShapeStep
  <1>3. Shape => RunnerTypeOK
    BY DEF Shape
  <1>. QED BY <1>1, <1>2, <1>3, PTL DEF RunnerSpec

(* The runner implements the ledger: each of its steps appends one event    *)
(* the fold admits, or nothing that the fold tells apart.  What is proved   *)
(* of every history of the ledger holds of the runner's (loop.py,           *)
(* _attempts.py, ledger.py).                                                *)
THEOREM RunnerIsLedger == RunnerSpec => Spec
  <1>1. RunnerInit => Shape /\ Init
    BY ShapeInit DEF RunnerInit
  <1>2. Shape /\ [RunnerNext]_rvars => Shape' /\ [Next]_vars
    BY ShapeStep, RunnerAppends DEF rvars
  <1>. QED BY <1>1, <1>2, PTL DEF RunnerSpec, Spec

-----------------------------------------------------------------------------
(* What a step leaves as it is *)

LEMMA OneIsNext ==
  ASSUME NEW s \in Slices, NEW t \in Slices, NextSlice(s), NextSlice(t)
  PROVE  s = t
  <1>1. /\ Position[s] \in Nat /\ Position[t] \in Nat
        /\ Position[s] <= Position[t] /\ Position[t] <= Position[s]
    BY RoadmapAssumption DEF NextSlice
  <1>. QED BY <1>1, RoadmapAssumption

LEMMA NextSliceStays ==
  ASSUME UNCHANGED <<slices, status>>
  PROVE  \A s \in Slices : (NextSlice(s)' <=> NextSlice(s)) /\ Round(s)' = Round(s)
  BY DEF NextSlice, Candidates, ReopenedWork, Waiting, Round

LEMMA AsksStay ==
  ASSUME Started' = Started, \A j \in Started : attempts'[j].start = attempts[j].start
  PROVE  \A role, s, n : Asks(role, s, n)' = Asks(role, s, n)
  BY DEF Asks

LEMMA AsksGrow ==
  ASSUME NEW i, NEW a, Sent(i, a)
  PROVE  \A role, s, n :
           Asks(role, s, n)' = Asks(role, s, n) \cup
             (IF a.role = role /\ a.scope = s /\ a.round = n THEN {i} ELSE {})
  BY DEF Asks, Sent

LEMMA AskedIsStarted ==
  \A role, s, n : \A i \in Asks(role, s, n) :
    /\ i \in Started /\ i \in Invocations
    /\ attempts[i].start.role = role /\ attempts[i].start.scope = s
    /\ attempts[i].start.round = n
  BY DEF Asks, Started

(* An invocation keeps its binding, and a finished one its outcome.         *)
Keeps ==
  /\ Started \subseteq Started'
  /\ \A j \in Started : /\ attempts'[j].start = attempts[j].start
                        /\ attempts'[j].run = attempts[j].run
                        /\ attempts'[j].root = attempts[j].root
                        /\ attempts[j].phase # "started" => attempts'[j].phase = attempts[j].phase

LEMMA SettleFrame ==
  ASSUME Shape, NEW i, NEW o \in Outcomes, NEW n \in Measures, AttemptFinished(i, o, n)
  PROVE  /\ i \in Started /\ Started' = Started /\ Keeps
         /\ attempts'[i].phase = o
         /\ \A j \in Started \ {i} : attempts'[j] = attempts[j]
         /\ UNCHANGED <<status, slices, checkpoints, head>>
  <1>1. i \in Invocations /\ attempts[i].phase = "started" /\ attempts[i] \in AttemptState
    BY DEF AttemptFinished, Unfinished, Shape, RunnerTypeOK, TypeOK, NoAttempt
  <1>2. /\ attempts'[i].phase = o /\ attempts'[i].start = attempts[i].start
        /\ attempts'[i].run = attempts[i].run /\ attempts'[i].root = attempts[i].root
        /\ \A j \in Invocations \ {i} : attempts'[j] = attempts[j]
    BY <1>1 DEF AttemptFinished, AttemptState, Shape, RunnerTypeOK, TypeOK
  <1>3. Started' = Started /\ i \in Started
    BY <1>1, <1>2 DEF Started, Outcomes
  <1>. QED BY <1>1, <1>2, <1>3 DEF Keeps, Started, AttemptFinished, lifecycle

LEMMA CallsKept ==
  ASSUME Shape, [RunnerNext]_rvars
  PROVE  Keeps
  <1>1. CASE UNCHANGED attempts
    BY <1>1 DEF Keeps, Started
  <1>2. CASE SendStep
    BY <1>2, SendEffect DEF Sent, Keeps
  <1>3. CASE SettleStep
    BY <1>3, SettleEffect, SettleFrame
  <1>4. ASSUME ~SendStep, ~SettleStep
        PROVE  UNCHANGED attempts
    BY <1>4, StepKinds, QuietEffect, AnswerEffect, MoveEffect, CheckEffect, GrantEffect
    DEF vars, calls, rvars
  <1>. QED BY <1>1, <1>2, <1>3, <1>4

(* A seat that answered its probe in a run has answered it.                 *)
LEMMA AnswerStays ==
  ASSUME Keeps, NEW r, NEW seat, AnsweredIn(r, seat)
  PROVE  AnsweredIn(r, seat)'
  <1>1. PICK j \in InRun(r) : /\ attempts[j].start.role = "probe"
                              /\ attempts[j].phase = "completed" /\ Contract(j).seat = seat
    BY DEF AnsweredIn
  <1>2. j \in InRun(r)'
    BY DEF InRun, Keeps
  <1>3. /\ attempts'[j].start.role = "probe" /\ attempts'[j].phase = "completed"
        /\ Contract(j)'.seat = seat
    BY <1>1 DEF InRun, Keeps, Contract
  <1>. QED BY <1>2, <1>3 DEF AnsweredIn

(* How a step that appends nothing moves the process.                       *)
Goes(from, to) ==
  at \in from /\ at' \in to /\ UNCHANGED <<call, heard, probed, product, accounted>>

QuietMove ==
  \/ End
  \/ at = "off" /\ UNCHANGED volatile
  \/ /\ at \in {"ready", "asking"} /\ UNCHANGED <<at, call, heard, product, accounted, recorded>>
     /\ \A seat \in ProbePlan : Probed(seat)
  \/ Goes({"off"}, {"idle", "preflight"})
  \/ Goes({"idle"}, {"issuing"}) /\ \E s \in Slices : MayIssue(s)
  \/ Goes({"idle"}, {"ready"}) /\ UNCHANGED recorded /\ \E s \in Slices : MayCode(s)
  \/ Goes({"ready"}, {"marking"}) /\ probed /\ UNCHANGED recorded
  \/ Goes({"marking"}, {"started"}) /\ UNCHANGED recorded
  \/ /\ Goes({"started"}, {"dispatching"})
     /\ \E s \in Slices : NextSlice(s) /\ <<"started", s, Round(s)>> \in recorded'
  \/ Goes({"coded"}, {"outcome"}) \/ Goes({"outcome"}, {"recording"})
  \/ Goes({"idle"}, {"presenting", "asking"}) /\ \E s \in Slices : MayPresent(s)
  \/ Goes({"idle"}, {"idle"})
  \/ Goes({"presenting", "asking", "reporting", "proving"}, {"asking", "reporting", "proving"})
  \/ /\ at = "idle" /\ at' = "settled" /\ UNCHANGED <<heard, probed>>
     /\ \E s \in Slices : MayVerify(s) /\ \E i \in Tests(s) : Reusable(s, i) /\ call' = i

LEMMA QuietMoves ==
  ASSUME QuietStep
  PROVE  QuietMove
  <1>. USE DEF QuietMove, Goes, Go
  <1>1. ASSUME NEW s \in Slices, IssueFiles(s) \/ Ready(s) \/ Mark(s)
        PROVE  QuietMove
    BY <1>1 DEF IssueFiles, Ready, Mark, durable
  <1>2. ASSUME NEW s \in Slices, RecordStarted(s) \/ RecordDispatch(s)
        PROVE  QuietMove
    BY <1>2 DEF RecordStarted, RecordDispatch, Record
  <1>3. ASSUME NEW s \in Slices, Present(s) \/ RecordPackage(s) \/ WriteMerge(s)
        PROVE  QuietMove
    BY <1>3 DEF Present, RecordPackage, Record, WriteMerge
  <1>4. ASSUME NEW s \in Slices,
               (\E file \in Files : Adopt(s, file)) \/ RecordReport(s) \/ RecordProof(s)
        PROVE  QuietMove
    BY <1>4 DEF Adopt, Record, RecordReport, RecordProof
  <1>5. ASSUME NEW s \in Slices, ReuseTests(s) PROVE QuietMove
    BY <1>5 DEF ReuseTests
  <1>6. ASSUME NEW s \in Slices,
               RefuseMark(s) \/ RefuseCoder(s) \/ RefuseReview(s) \/ RefuseReviewed(s)
        PROVE  End
    BY <1>6 DEF RefuseMark, RefuseCoder, RefuseReview, RefuseReviewed, Stop
  <1>7. ASSUME RefuseLateTests \/ RefuseVerified \/ Return \/ ProbesFail
               \/ \E content \in Contents : Crash(content)
        PROVE  End
    BY <1>7 DEF RefuseLateTests, RefuseVerified, Return, ProbesFail, Stop, Crash
  <1>8. ASSUME WriteStarted \/ WriteOutcome \/ Preflight \/ \E entry \in Entries : Begin(entry)
        PROVE  QuietMove
    BY <1>8 DEF WriteStarted, WriteOutcome, Preflight, Begin, durable
  <1>9. ASSUME ProbesDone PROVE QuietMove
    BY <1>9 DEF ProbesDone, ReadinessDue, durable
  <1>10. ASSUME (\E content \in Contents : Edit(content)) \/ (\E ignored \in Sweeps : Tidy(ignored))
         PROVE  QuietMove
    BY <1>10 DEF Edit, Tidy
  <1>. QED BY <1>1, <1>2, <1>3, <1>4, <1>5, <1>6, <1>7, <1>8, <1>9, <1>10 DEF QuietStep

-----------------------------------------------------------------------------
(* Where the process is tells what it knows *)

Whereabouts == ReadyInv /\ CodingInv /\ TestingInv /\ ReviewingInv

LEMMA CallIsAsked ==
  ASSUME NEW role, NEW step, Serves(role, step), NEW s \in Slices, NextSlice(s)
  PROVE  slices[s].step = step /\ call \in Asks(role, s, Round(s))
  BY OneIsNext DEF Serves

LEMMA SameView ==
  ASSUME UNCHANGED vars
  PROVE  /\ \A s \in Slices : /\ (NextSlice(s)' <=> NextSlice(s)) /\ Round(s)' = Round(s)
                              /\ slices'[s] = slices[s]
         /\ \A role, s, n : Asks(role, s, n)' = Asks(role, s, n)
         /\ Started' = Started /\ Unfinished' = Unfinished /\ attempts' = attempts /\ head' = head
         /\ checkpoints' = checkpoints
         /\ \A seat : AnsweredIn(head, seat)' <=> AnsweredIn(head, seat)
  <1>1. UNCHANGED <<slices, status, attempts, head, checkpoints>>
    BY DEF vars, lifecycle, calls, grants
  <1>2. Started' = Started /\ Unfinished' = Unfinished
    BY <1>1 DEF Started, Unfinished
  <1>. QED BY <1>1, <1>2, NextSliceStays, AsksStay DEF AnsweredIn, InRun, Contract, Started

LEMMA ProgressView ==
  ASSUME UNCHANGED <<vars, evidence>>
  PROVE  \A s \in Slices : (NoProgress(s)' <=> NoProgress(s))
  BY SameView DEF NoProgress, FailedAlike, Contract

LEMMA ReviewableView ==
  ASSUME UNCHANGED <<vars, evidence, product, accounted>>
  PROVE  \A s \in Slices : (Reviewable(s)' <=> Reviewable(s))
  BY SameView DEF Reviewable, Tests, Contract

LEMMA QuietReady ==
  ASSUME Shape, Whereabouts, QuietStep
  PROVE  ReadyInv'
  <1>1. QuietMove /\ UNCHANGED vars
    BY QuietMoves, QuietEffect
  <1>2. NoCall /\ UNCHANGED call => NoCall'
    BY <1>1, SameView DEF NoCall
  <1>3. ASSUME \A seat \in ProbePlan : Probed(seat)
        PROVE  \A seat \in ProbePlan : AnsweredIn(head, seat)
    <2>. SUFFICES ASSUME NEW seat \in ProbePlan PROVE AnsweredIn(head, seat)
      OBVIOUS
    <2>1. PICK i \in Probes(seat) : attempts[i].phase = "completed"
      BY <1>3 DEF Probed
    <2>2. i \in InRun(head) /\ Context(attempts[i].start) = Context(ProbeCall(seat))
      BY DEF Probes
    <2>3. attempts[i].start.role = "probe" /\ attempts[i].start.contract = ProbeCall(seat).contract
      BY <2>2 DEF Context, ProbeCall, Reservation
    <2>4. ProbeCall(seat).contract.seat = seat
      BY DEF ProbeCall, Reservation, Bound
    <2>. QED BY <2>1, <2>2, <2>3, <2>4 DEF AnsweredIn, Contract
  <1>4. CASE End
    BY <1>4 DEF End, ReadyInv, NoCall
  <1>5. CASE UNCHANGED volatile
    BY <1>1, <1>2, <1>5, SameView DEF volatile, Whereabouts, ReadyInv
  <1>6. CASE /\ at \in {"ready", "asking"} /\ UNCHANGED <<at, call, heard, product, accounted>>
             /\ \A seat \in ProbePlan : Probed(seat)
    BY <1>1, <1>2, <1>3, <1>6, SameView DEF Whereabouts, ReadyInv
  <1>7. ASSUME NEW from, NEW to, Goes(from, to), at = "off" => at' \in {"idle", "preflight"},
               at' \in {"marking", "started", "dispatching", "coding"} => probed,
               at' \in {"preflight", "idle", "issuing", "ready", "presenting", "asking",
                        "reporting", "proving"} =>
                 at \in {"off", "preflight", "idle", "issuing", "ready", "presenting", "asking",
                        "reporting", "proving"},
               at' # "off"
        PROVE  ReadyInv'
    BY <1>1, <1>2, <1>7, SameView DEF Goes, Whereabouts, ReadyInv
  <1>8. CASE at' = "settled" /\ UNCHANGED <<heard, probed>>
    BY <1>1, <1>8, SameView DEF Whereabouts, ReadyInv
  <1>9. at \in {"marking", "started"} => probed
    BY DEF Whereabouts, ReadyInv
  <1>. QED BY <1>1, <1>4, <1>5, <1>6, <1>7, <1>8, <1>9 DEF QuietMove, Goes

LEMMA QuietCoding ==
  ASSUME Shape, Whereabouts, CoderInv, QuietStep
  PROVE  CodingInv'
  <1>1. QuietMove /\ UNCHANGED <<vars, evidence>> /\ recorded \subseteq recorded'
    BY QuietMoves, QuietEffect
  <1>. USE <1>1, SameView DEF CodingInv, Whereabouts
  <1>2. CASE at' \notin {"issuing", "ready", "marking", "started", "dispatching", "coding",
                         "coded", "outcome", "recording"}
    BY <1>2
  <1>3. CASE Goes({"idle"}, {"issuing"}) /\ \E s \in Slices : MayIssue(s)
    <2>1. PICK s \in Slices : MayIssue(s) /\ NextSlice(s)
      BY <1>3 DEF MayIssue, MayWork
    <2>2. slices[s].step = "fix" => ~NoProgress(s)
      BY <2>1 DEF MayIssue
    <2>3. \A t \in Slices : NextSlice(t)' => t = s
      BY <2>1, OneIsNext
    <2>4. \A t \in Slices : NextSlice(t)' /\ slices'[t].step = "fix" => ~NoProgress(t)'
      BY <2>2, <2>3, ProgressView
    <2>. QED BY <1>3, <2>4 DEF Goes
  <1>4. CASE Goes({"idle"}, {"ready"}) /\ UNCHANGED recorded /\ \E s \in Slices : MayCode(s)
    <2>1. PICK s \in Slices : MayCode(s) /\ NextSlice(s)
      BY <1>4 DEF MayCode, MayWork
    <2>2. slices[s].step = "coding" /\ ~Recorded("started", s)
      BY <2>1 DEF MayCode
    <2>3. \A t \in Slices : NextSlice(t)' => t = s
      BY <2>1, OneIsNext
    <2>. QED BY <1>4, <2>2, <2>3 DEF Goes, Recorded
  <1>5. CASE at \in {"ready", "marking", "started"} /\ at' \in {"ready", "marking", "started"}
             /\ UNCHANGED recorded
    BY <1>5 DEF Recorded
  <1>6. CASE /\ Goes({"started"}, {"dispatching"})
             /\ \E s \in Slices : NextSlice(s) /\ <<"started", s, Round(s)>> \in recorded'
    <2>1. PICK s \in Slices : NextSlice(s) /\ <<"started", s, Round(s)>> \in recorded'
      BY <1>6
    <2>2. \A t \in Slices : NextSlice(t)' => t = s
      BY <2>1, OneIsNext
    <2>3. slices[s].step = "coding" /\ ~Recorded("started", s)
      BY <1>6, <2>1 DEF Goes
    <2>4. Asks("coder", s, Round(s)) = {}
      BY <2>3, AskedIsStarted DEF CoderInv, Recorded
    <2>5. heard = "none"
      BY <1>6 DEF Goes, Shape, HeardInv
    <2>. QED BY <1>6, <2>1, <2>2, <2>3, <2>4, <2>5 DEF Goes, Recorded
  <1>7. CASE at \in {"coded", "outcome"} /\ at' \in {"outcome", "recording"} /\ UNCHANGED call
    BY <1>7 DEF Serves
  <1>. QED BY <1>2, <1>3, <1>4, <1>5, <1>6, <1>7 DEF QuietMove, End, Goes, volatile

LEMMA QuietTesting ==
  ASSUME Shape, Whereabouts, QuietStep
  PROVE  TestingInv' /\ ReviewingInv'
  <1>1. QuietMove /\ UNCHANGED <<vars, evidence>>
    BY QuietMoves, QuietEffect
  <1>. USE <1>1, SameView
  <1>2. CASE at' = "settled" /\ \E s \in Slices : MayVerify(s) /\ \E i \in Tests(s) :
                                                Reusable(s, i) /\ call' = i
    BY <1>2 DEF MayVerify, MayWork, Reusable, Tests, TestingInv, Serves, ReviewingInv
  <1>3. CASE Goes({"idle"}, {"presenting", "asking"}) /\ \E s \in Slices : MayPresent(s)
    <2>1. PICK s \in Slices : /\ NextSlice(s) /\ slices[s].step = "reviewing" /\ Reviewable(s)
      BY <1>3 DEF MayPresent, MayReview, MayWork
    <2>2. \A t \in Slices : NextSlice(t)' => t = s
      BY <2>1, OneIsNext
    <2>. QED BY <1>3, <2>1, <2>2, ReviewableView DEF Goes, TestingInv, ReviewingInv
  <1>4. CASE /\ UNCHANGED <<product, accounted>>
             /\ at \in {"presenting", "asking", "reporting", "proving"}
             /\ at' \in {"presenting", "asking", "reporting", "proving"}
    BY <1>4, ReviewableView DEF Whereabouts, TestingInv, ReviewingInv
  <1>5. CASE at' \notin {"testing", "tested", "settled", "presenting", "asking", "reviewing",
                         "answered", "reporting", "proving"}
    BY <1>5 DEF TestingInv, ReviewingInv
  <1>. QED BY <1>2, <1>3, <1>4, <1>5 DEF QuietMove, End, Goes, volatile

LEMMA AnswerWhere ==
  ASSUME Shape, Whereabouts, AnswerStep
  PROVE  Whereabouts'
  <1>1. /\ UNCHANGED <<vars, call, heard, probed>>
        /\ \/ at = "testing" /\ at' = "tested"
           \/ at = "reviewing" /\ at' = "answered" /\ UNCHANGED <<product, accounted>>
    BY AnswerEffect
  <1>2. \A i \in Invocations : i # call => evidence'[i] = evidence[i]
    BY AnswerEffect DEF Shape, RunnerTypeOK
  <1>3. ReadyInv' /\ CodingInv'
    BY <1>1, SameView DEF Whereabouts, ReadyInv, CodingInv
  <1>4. TestingInv'
    BY <1>1, SameView DEF Whereabouts, TestingInv, Serves, UnderWay
  <1>5. ASSUME at = "reviewing", NEW s \in Slices, Reviewable(s), UNCHANGED <<product, accounted>>
        PROVE  Reviewable(s)'
    <2>1. PICK i \in Tests(s) : evidence[i] = "ok" /\ Contract(i).product = product
      BY <1>5 DEF Reviewable
    <2>2. i # call /\ i \in Invocations
      BY <1>5, AskedIsStarted DEF Tests, Whereabouts, ReviewingInv, UnderWay
    <2>3. evidence'[i] = "ok" /\ i \in Tests(s)' /\ Contract(i)' = Contract(i)
      BY <1>1, <1>2, <2>1, <2>2, SameView DEF Tests, Contract
    <2>. QED BY <1>5, <2>1, <2>3 DEF Reviewable
  <1>6. ReviewingInv'
    BY <1>1, <1>5, SameView DEF Whereabouts, ReviewingInv, UnderWay
  <1>. QED BY <1>3, <1>4, <1>6 DEF Whereabouts

LEMMA MoveWhere ==
  ASSUME Shape, Whereabouts, MoveStep
  PROVE  Whereabouts'
  <1>1. UNCHANGED <<attempts, head>> /\ at' \in {"idle", "off"}
    BY MoveEffect DEF calls
  <1>2. /\ UNCHANGED probed /\ (at' = "off" => at = "off")
        /\ call' = None \/ (UNCHANGED call /\ at \in {"issuing", "asking", "idle", "off"})
    BY DEF MoveStep, AppendPrompt, AppendCoded, AppendVerified, AppendReviewed, Accept, Unblock,
           Appended, Go, volatile
  <1>3. \A seat : AnsweredIn(head, seat)' <=> AnsweredIn(head, seat)
    BY <1>1 DEF AnsweredIn, InRun, Started, Contract
  <1>4. NoCall'
    BY <1>1, <1>2 DEF Whereabouts, ReadyInv, NoCall, Started
  <1>5. ReadyInv'
    BY <1>1, <1>2, <1>3, <1>4 DEF Whereabouts, ReadyInv
  <1>. QED BY <1>1, <1>5 DEF Whereabouts, CodingInv, TestingInv, ReviewingInv

LEMMA SendWhere ==
  ASSUME Shape, Whereabouts, SendStep
  PROVE  Whereabouts'
  <1>1. PICK i \in Invocations, a \in Starts : Sent(i, a) /\ SentFor(a)
    BY SendEffect
  <1>2. /\ UNCHANGED <<evidence, recorded, product, accounted, slices, status, head>>
        /\ call' = i
    BY <1>1, SendEffect DEF Sent, effects, lifecycle
  <1>3. /\ \A s \in Slices : /\ (NextSlice(s)' <=> NextSlice(s)) /\ Round(s)' = Round(s)
                             /\ slices'[s] = slices[s]
        /\ Keeps /\ i \in Started' /\ i \in Unfinished'
        /\ attempts'[i].start = a
    BY <1>1, <1>2, NextSliceStays DEF Sent, Keeps, Unfinished, Started
  <1>4. \A seat : AnsweredIn(head, seat) => AnsweredIn(head, seat)'
    BY <1>2, <1>3, AnswerStays DEF AnsweredIn, InRun
  <1>5. ASSUME NEW s \in Slices, Reviewable(s)
        PROVE  Reviewable(s)'
    <2>1. PICK j \in Tests(s) : evidence[j] = "ok" /\ Contract(j).product = product
      BY <1>5 DEF Reviewable
    <2>2. j \in Tests(s)' /\ Contract(j)' = Contract(j)
      BY <1>1, <1>3, AsksGrow, AskedIsStarted DEF Tests, Contract, Keeps
    <2>. QED BY <1>2, <1>5, <2>1, <2>2 DEF Reviewable
  <1>6. ASSUME NEW s \in Slices, CallCoder(s), a = Dispatch(s)
        PROVE  Whereabouts'
    <2>1. /\ at = "dispatching" /\ at' = "coding" /\ NextSlice(s) /\ UNCHANGED probed
          /\ heard' = "none"
      BY <1>6 DEF CallCoder
    <2>2. a.role = "coder" /\ a.scope = s /\ a.round = Round(s)
      BY <1>6 DEF Dispatch, Reservation
    <2>3. slices[s].step = "coding"
      BY <2>1 DEF Whereabouts, CodingInv
    <2>4. i \in Asks("coder", s, Round(s))'
      BY <1>1, <1>3, <2>2, AsksGrow
    <2>5. CodingInv'
      BY <1>2, <1>3, <2>1, <2>2, <2>3, <2>4 DEF CodingInv, UnderWay, Serves
    <2>6. ReadyInv'
      BY <1>2, <1>4, <2>1 DEF Whereabouts, ReadyInv
    <2>. QED BY <2>1, <2>5, <2>6 DEF Whereabouts, TestingInv, ReviewingInv
  <1>7. ASSUME NEW s \in Slices, CallTests(s), a = TestRun(s)
        PROVE  Whereabouts'
    <2>1. /\ at = "idle" /\ at' = "testing" /\ NextSlice(s) /\ UNCHANGED <<heard, probed>>
          /\ slices[s].step = "verifying"
      BY <1>7 DEF CallTests, MayVerify, MayWork
    <2>2. a.role = "verification" /\ a.scope = s /\ a.round = Round(s)
      BY <1>7 DEF TestRun, Reservation
    <2>4. i \in Asks("verification", s, Round(s))'
      BY <1>1, <1>3, <2>2, AsksGrow
    <2>5. TestingInv'
      BY <1>2, <1>3, <2>1, <2>2, <2>4 DEF TestingInv, UnderWay, Serves
    <2>6. ReadyInv'
      BY <1>2, <1>4, <2>1 DEF Whereabouts, ReadyInv
    <2>. QED BY <2>1, <2>5, <2>6 DEF Whereabouts, CodingInv, ReviewingInv
  <1>8. ASSUME NEW s \in Slices, CallReviewer(s), NEW c, a = ReviewCall(Turn(s), s, c)
        PROVE  Whereabouts'
    <2>1. /\ at = "asking" /\ at' = "reviewing" /\ NextSlice(s) /\ UNCHANGED <<heard, probed>>
      BY <1>8 DEF CallReviewer
    <2>2. a.role = "reviewer"
      BY <1>8 DEF ReviewCall, Reservation
    <2>3. \A t \in Slices : NextSlice(t) => slices[t].step = "reviewing" /\ Reviewable(t)
      BY <2>1 DEF Whereabouts, ReviewingInv
    <2>5. ReviewingInv'
      BY <1>2, <1>3, <1>5, <2>1, <2>2, <2>3 DEF ReviewingInv, UnderWay
    <2>6. ReadyInv'
      BY <1>2, <1>4, <2>1 DEF Whereabouts, ReadyInv
    <2>. QED BY <2>1, <2>5, <2>6 DEF Whereabouts, CodingInv, TestingInv
  <1>9. ASSUME NEW seat \in ProbePlan, CallProbe(seat), a = ProbeCall(seat)
        PROVE  Whereabouts'
    <2>1. at \in {"ready", "preflight", "asking"} /\ UNCHANGED <<at, heard, probed>>
      BY <1>9 DEF CallProbe, ReadinessDue
    <2>2. a.role = "probe"
      BY <1>9 DEF ProbeCall, Reservation
    <2>3. NoCall'
      BY <1>2, <1>3, <2>2 DEF NoCall
    <2>4. ReadyInv'
      BY <1>2, <1>4, <2>1, <2>3 DEF Whereabouts, ReadyInv
    <2>5. CodingInv' /\ TestingInv'
      BY <1>2, <1>3, <2>1 DEF Whereabouts, CodingInv, TestingInv, Recorded
    <2>6. ReviewingInv'
      BY <1>2, <1>3, <1>5, <2>1 DEF Whereabouts, ReviewingInv
    <2>. QED BY <2>4, <2>5, <2>6 DEF Whereabouts
  <1>. QED BY <1>1, <1>6, <1>7, <1>8, <1>9 DEF SentFor

LEMMA SettleWhere ==
  ASSUME Shape, Whereabouts, CoderInv, SettleStep
  PROVE  Whereabouts'
  <1>1. PICK i \in Unfinished, o \in Outcomes, n \in Measures :
          AttemptFinished(i, o, n) /\ SettledFor(i, o)
    BY SettleEffect
  <1>2. /\ i \in Started /\ Started' = Started /\ Keeps /\ attempts'[i].phase = o
        /\ UNCHANGED <<evidence, recorded, accounted, slices, status, head>>
    BY <1>1, SettleFrame, SettleEffect
  <1>3. /\ \A s \in Slices : /\ (NextSlice(s)' <=> NextSlice(s)) /\ Round(s)' = Round(s)
                             /\ slices'[s] = slices[s]
        /\ \A role, s, m : Asks(role, s, m)' = Asks(role, s, m)
    BY <1>2, NextSliceStays, AsksStay DEF Keeps
  <1>4. \A seat : AnsweredIn(head, seat) => AnsweredIn(head, seat)'
    BY <1>2, AnswerStays DEF AnsweredIn, InRun
  <1>5. ASSUME NEW s \in Slices, Reviewable(s), UNCHANGED product
        PROVE  Reviewable(s)'
    <2>1. \A j \in Tests(s) : Contract(j)' = Contract(j)
      BY <1>2, AskedIsStarted DEF Tests, Contract, Keeps
    <2>. QED BY <1>2, <1>3, <1>5, <2>1 DEF Reviewable, Tests
  <1>6. CASE at = "coding"
    <2>1. /\ i = call /\ \E result \in Coding, content \in Contents, k \in 0..MaxMeasured :
               /\ CoderReturns(result, content, k)
               /\ o = IF result \in {"transport", "refused"} THEN "failed" ELSE "completed"
      BY <1>1, <1>6 DEF SettledFor, ReadinessDue
    <2>2. PICK result \in Coding, content \in Contents, k \in 0..MaxMeasured :
            /\ CoderReturns(result, content, k)
            /\ o = IF result \in {"transport", "refused"} THEN "failed" ELSE "completed"
      BY <2>1
    <2>3. PICK s \in Slices : /\ NextSlice(s) /\ slices[s].step = "coding"
                              /\ call \in Asks("coder", s, Round(s))
      BY <1>6 DEF Whereabouts, CodingInv, Serves
    <2>4. CASE at' = "coded" /\ result \in {"implemented", "blocked"} /\ UNCHANGED <<call, probed>>
      <3>1. CodingInv'
        BY <1>2, <1>3, <2>1, <2>2, <2>3, <2>4 DEF CodingInv, Serves
      <3>2. ReadyInv'
        BY <1>2, <1>4, <2>4 DEF Whereabouts, ReadyInv
      <3>. QED BY <2>4, <3>1, <3>2 DEF Whereabouts, TestingInv, ReviewingInv
    <2>5. CASE at' = "dispatching" /\ heard' = "transport" /\ UNCHANGED <<call, probed>>
      <3>1. Recorded("started", s)
        BY <2>3, AskedIsStarted DEF CoderInv, Recorded
      <3>2. \A t \in Slices : NextSlice(t)' => t = s
        BY <1>3, <2>3, OneIsNext
      <3>3. CodingInv'
        BY <1>2, <1>3, <2>3, <2>5, <3>1, <3>2 DEF CodingInv, Recorded
      <3>4. probed
        BY <1>6 DEF Whereabouts, ReadyInv
      <3>5. ReadyInv'
        BY <1>2, <1>4, <2>5, <3>4 DEF Whereabouts, ReadyInv
      <3>. QED BY <2>5, <3>3, <3>5 DEF Whereabouts, TestingInv, ReviewingInv
    <2>6. CASE End
      BY <2>6 DEF End, Whereabouts, ReadyInv, CodingInv, TestingInv, ReviewingInv, NoCall
    <2>. QED BY <2>2, <2>4, <2>5, <2>6 DEF CoderReturns
  <1>7. CASE at = "tested"
    <2>1. /\ at' = "settled" /\ i = call /\ UNCHANGED <<call, heard, probed>>
          /\ o \in {"completed", "failed"}
      BY <1>1, <1>7 DEF SettledFor, ReadinessDue
    <2>2. TestingInv'
      BY <1>2, <1>3, <1>7, <2>1 DEF Whereabouts, TestingInv, Serves
    <2>3. ReadyInv'
      BY <1>2, <1>4, <2>1 DEF Whereabouts, ReadyInv
    <2>. QED BY <2>1, <2>2, <2>3 DEF Whereabouts, CodingInv, ReviewingInv
  <1>8. CASE at = "answered"
    <2>1. at' = "asking" /\ call' = None /\ UNCHANGED <<product, heard, probed>>
      BY <1>1, <1>8 DEF SettledFor, ReadinessDue
    <2>2. \A s \in Slices : NextSlice(s) => slices[s].step = "reviewing" /\ Reviewable(s)
      BY <1>8 DEF Whereabouts, ReviewingInv
    <2>3. ReviewingInv'
      BY <1>3, <1>5, <2>1, <2>2 DEF ReviewingInv
    <2>4. ReadyInv'
      BY <1>2, <1>4, <2>1 DEF Whereabouts, ReadyInv, NoCall
    <2>. QED BY <2>1, <2>3, <2>4 DEF Whereabouts, CodingInv, TestingInv
  <1>9. CASE ReadinessDue
    <2>1. /\ at \in {"ready", "preflight", "asking"} /\ call' = None
          /\ UNCHANGED <<at, product, heard, probed>>
      BY <1>1, <1>9 DEF SettledFor, ReadinessDue
    <2>2. ReadyInv'
      BY <1>2, <1>4, <2>1 DEF Whereabouts, ReadyInv, NoCall
    <2>3. CodingInv' /\ TestingInv'
      BY <1>2, <1>3, <2>1 DEF Whereabouts, CodingInv, TestingInv, Recorded
    <2>4. ReviewingInv'
      BY <1>3, <1>5, <2>1 DEF Whereabouts, ReviewingInv
    <2>. QED BY <2>2, <2>3, <2>4 DEF Whereabouts
  <1>10. CASE at = "off" /\ UNCHANGED volatile
    <2>1. NoCall'
      BY <1>2, <1>10 DEF Whereabouts, ReadyInv, NoCall, Keeps, volatile
    <2>. QED BY <1>10, <2>1
             DEF Whereabouts, ReadyInv, CodingInv, TestingInv, ReviewingInv, volatile
  <1>. QED BY <1>1, <1>6, <1>7, <1>8, <1>9, <1>10 DEF SettledFor

LEMMA CheckWhere ==
  ASSUME Shape, Whereabouts, CheckStep
  PROVE  Whereabouts'
  <1>1. /\ at = "asking" /\ at' = "asking"
        /\ UNCHANGED <<status, slices, attempts, head, call, probed, evidence, product, accounted>>
    BY CheckEffect DEF lifecycle
  <1>2. /\ \A s \in Slices : /\ (NextSlice(s)' <=> NextSlice(s)) /\ Round(s)' = Round(s)
                             /\ slices'[s] = slices[s]
        /\ \A role, s, m : Asks(role, s, m)' = Asks(role, s, m)
        /\ Started' = Started
    BY <1>1, NextSliceStays, AsksStay DEF Started
  <1>3. \A seat : AnsweredIn(head, seat)' <=> AnsweredIn(head, seat)
    BY <1>1, <1>2 DEF AnsweredIn, InRun, Contract
  <1>4. ReadyInv'
    BY <1>1, <1>2, <1>3 DEF Whereabouts, ReadyInv, NoCall
  <1>5. \A s \in Slices : Reviewable(s) => Reviewable(s)'
    BY <1>1, <1>2 DEF Reviewable, Tests, Contract
  <1>6. ReviewingInv'
    BY <1>1, <1>2, <1>5 DEF Whereabouts, ReviewingInv
  <1>. QED BY <1>1, <1>4, <1>6 DEF Whereabouts, CodingInv, TestingInv

LEMMA GrantWhere ==
  ASSUME Shape, Whereabouts, GrantStep
  PROVE  Whereabouts'
  <1>1. at = "off" /\ UNCHANGED <<at, call, heard, probed, attempts>>
    BY GrantEffect DEF volatile, calls
  <1>. QED BY <1>1 DEF Whereabouts, ReadyInv, NoCall, Started, CodingInv, TestingInv, ReviewingInv

LEMMA WhereStep ==
  ASSUME Shape, Whereabouts, CoderInv, [RunnerNext]_rvars
  PROVE  Whereabouts'
  <1>1. CASE RunnerNext
    BY <1>1, StepKinds, QuietReady, QuietCoding, QuietTesting, AnswerWhere, MoveWhere,
       SendWhere, SettleWhere, CheckWhere, GrantWhere DEF Whereabouts
  <1>2. CASE UNCHANGED rvars
    <2>1. UNCHANGED <<vars, evidence, recorded, product, accounted, volatile>>
      BY <1>2 DEF rvars, durable
    <2>2. ReadyInv'
      BY <2>1, SameView DEF Whereabouts, ReadyInv, NoCall, volatile
    <2>3. CodingInv'
      BY <2>1, SameView, ProgressView
      DEF Whereabouts, CodingInv, Recorded, Serves, UnderWay, volatile
    <2>4. TestingInv' /\ ReviewingInv'
      BY <2>1, SameView, ReviewableView
      DEF Whereabouts, TestingInv, ReviewingInv, Serves, UnderWay, volatile
    <2>. QED BY <2>2, <2>3, <2>4 DEF Whereabouts
  <1>. QED BY <1>1, <1>2

-----------------------------------------------------------------------------
(* What is sent, and how often *)

LEMMA NothingSent ==
  ASSUME Shape, [RunnerNext]_rvars, ~SendStep
  PROVE  /\ Started' = Started
         /\ \A j \in Started : /\ attempts'[j].start = attempts[j].start
                               /\ attempts'[j].run = attempts[j].run
                               /\ attempts'[j].root = attempts[j].root
         /\ \A role, s, n : Asks(role, s, n)' = Asks(role, s, n)
  <1>1. CASE SettleStep
    BY <1>1, SettleEffect, SettleFrame, AsksStay DEF Keeps
  <1>2. CASE UNCHANGED attempts
    BY <1>2, AsksStay DEF Started
  <1>3. ASSUME ~SettleStep PROVE UNCHANGED attempts
    BY <1>3, StepKinds, QuietEffect, AnswerEffect, MoveEffect, CheckEffect, GrantEffect
    DEF vars, calls, rvars
  <1>. QED BY <1>1, <1>2, <1>3

LEMMA RecordsStay ==
  ASSUME Shape, [RunnerNext]_rvars
  PROVE  recorded \subseteq recorded'
  BY StepKinds, QuietEffect, AnswerEffect, MoveEffect, SendEffect, SettleEffect, CheckEffect,
     GrantEffect DEF rvars, durable, effects

(* A call of a slice is sent for the slice whose turn it is.                *)
LEMMA SentRoles ==
  ASSUME NEW a, SentFor(a)
  PROVE  /\ a.role = "coder" => \E s \in Slices : CallCoder(s) /\ a = Dispatch(s)
         /\ a.role = "verification" => \E s \in Slices : CallTests(s) /\ a = TestRun(s)
         /\ a.role = "reviewer" => \E s \in Slices : CallReviewer(s) /\
              \E c \in NextCalls(Turn(s), s) : a = ReviewCall(Turn(s), s, c)
  BY DEF SentFor, Dispatch, TestRun, ReviewCall, ProbeCall, Reservation

LEMMA CoderStep ==
  ASSUME Shape, Whereabouts, CoderInv, [RunnerNext]_rvars
  PROVE  CoderInv'
  <1>1. recorded \subseteq recorded'
    BY RecordsStay
  <1>2. CASE ~SendStep
    BY <1>1, <1>2, NothingSent DEF CoderInv
  <1>3. CASE SendStep
    <2>1. PICK i \in Invocations, a \in Starts : Sent(i, a) /\ SentFor(a)
      BY <1>3, SendEffect
    <2>2. ASSUME a.role = "coder"
          PROVE  <<"started", a.scope, a.round>> \in recorded
      <3>1. PICK s \in Slices : CallCoder(s) /\ a = Dispatch(s)
        BY <2>1, <2>2, SentRoles
      <3>2. Recorded("started", s)
        BY <3>1 DEF CallCoder, Whereabouts, CodingInv
      <3>. QED BY <3>1, <3>2 DEF Dispatch, Reservation, Recorded
    <2>. QED BY <1>1, <2>1, <2>2 DEF CoderInv, Sent
  <1>. QED BY <1>2, <1>3

LEMMA CoderOnceStep ==
  ASSUME Shape, Whereabouts, CoderDispatchedOnce, [RunnerNext]_rvars
  PROVE  CoderDispatchedOnce'
  <1>1. CASE ~SendStep
    BY <1>1, NothingSent, AskedIsStarted DEF CoderDispatchedOnce
  <1>2. CASE SendStep
    <2>1. PICK i \in Invocations, a \in Starts : Sent(i, a) /\ SentFor(a)
      BY <1>2, SendEffect
    <2>2. /\ attempts'[i].root = RootOf(i, a)
          /\ \A j \in Started : attempts'[j].root = attempts[j].root
      BY <2>1 DEF Sent
    <2>3. ASSUME a.role = "coder", NEW j \in Asks("coder", a.scope, a.round)
          PROVE  attempts[j].root = RootOf(i, a)
      <3>1. PICK s \in Slices : CallCoder(s) /\ a = Dispatch(s)
        BY <2>1, <2>3, SentRoles
      <3>2. /\ at = "dispatching" /\ NextSlice(s) /\ a.scope = s /\ a.round = Round(s)
        BY <3>1 DEF CallCoder, Dispatch, Reservation
      <3>3. IF heard = "transport" THEN call \in Asks("coder", s, Round(s))
            ELSE Asks("coder", s, Round(s)) = {}
        BY <3>2 DEF Whereabouts, CodingInv
      <3>4. heard = "transport" /\ call \in Asks("coder", s, Round(s))
        BY <2>3, <3>2, <3>3
      <3>5. a.parent = call /\ call # None
        BY <3>1, <3>4, AskedIsStarted, IdentityAssumption DEF Dispatch, Reservation
      <3>6. attempts[call].root = attempts[j].root
        BY <2>3, <3>2, <3>4, HereType DEF CoderDispatchedOnce, Shape
      <3>. QED BY <3>5, <3>6 DEF RootOf
    <2>4. ASSUME NEW s \in Slices, NEW n \in 1..MaxRound,
                 NEW j \in Asks("coder", s, n)', NEW k \in Asks("coder", s, n)'
          PROVE  attempts'[j].root = attempts'[k].root
      <3>1. CASE j \in Asks("coder", s, n) /\ k \in Asks("coder", s, n)
        BY <2>2, <3>1, AskedIsStarted DEF CoderDispatchedOnce
      <3>2. \A m \in Asks("coder", s, n)' :
              m \in Asks("coder", s, n)
                \/ (m = i /\ a.role = "coder" /\ a.scope = s /\ a.round = n)
        BY <2>1, AsksGrow
      <3>3. ASSUME a.role = "coder", a.scope = s, a.round = n, NEW m \in Asks("coder", s, n)
            PROVE  attempts'[m].root = attempts'[i].root
        BY <2>2, <2>3, <3>3, AskedIsStarted
      <3>. QED BY <3>1, <3>2, <3>3
    <2>. QED BY <2>4 DEF CoderDispatchedOnce
  <1>. QED BY <1>1, <1>2

LEMMA ProbedStep ==
  ASSUME Shape, Whereabouts, DispatchIsProbed, [RunnerNext]_rvars
  PROVE  DispatchIsProbed'
  <1>0. DispatchIsProbed <=>
          \A i \in Started : attempts[i].start.role \in {"coder", "reviewer"} =>
            \A seat \in ProbePlan : AnsweredIn(attempts[i].run, seat)
    BY DEF DispatchIsProbed, AnsweredIn
  <1>1. Keeps
    BY CallsKept
  <1>2. ASSUME NEW i \in Started, attempts[i].start.role \in {"coder", "reviewer"},
               NEW seat \in ProbePlan
        PROVE  AnsweredIn(attempts[i].run, seat)'
    <2>. DEFINE r == attempts[i].run
    <2>0. attempts'[i].run = r
      BY <1>1 DEF Keeps
    <2>1. AnsweredIn(r, seat)
      BY <1>0, <1>2
    <2>2. PICK j \in InRun(r) : /\ attempts[j].start.role = "probe"
                                /\ attempts[j].phase = "completed" /\ Contract(j).seat = seat
      BY <2>1 DEF AnsweredIn
    <2>3. j \in Started /\ attempts[j].run = r
      BY DEF InRun
    <2>. HIDE DEF r
    <2>4. j \in Started' /\ attempts'[j].run = attempts'[i].run
      BY <1>1, <2>0, <2>3 DEF Keeps
    <2>5. /\ attempts'[j].start.role = "probe" /\ attempts'[j].phase = "completed"
          /\ attempts'[j].start.contract.seat = seat
      BY <1>1, <2>2, <2>3 DEF Keeps, Contract
    <2>. QED BY <2>4, <2>5 DEF AnsweredIn, InRun, Contract
  <1>3. CASE ~SendStep
    <2>1. \A i \in Started' : attempts'[i].start.role \in {"coder", "reviewer"} =>
            \A seat \in ProbePlan : AnsweredIn(attempts[i].run, seat)'
      BY <1>2, <1>3, NothingSent
    <2>. QED BY <2>1 DEF DispatchIsProbed, AnsweredIn
  <1>4. CASE SendStep
    <2>1. PICK i \in Invocations, a \in Starts : Sent(i, a) /\ SentFor(a)
      BY <1>4, SendEffect
    <2>2. ASSUME a.role \in {"coder", "reviewer"}, NEW seat \in ProbePlan
          PROVE  AnsweredIn(attempts[i].run, seat)'
      <3>1. at = "dispatching" \/ probed
        BY <2>1, <2>2, SentRoles DEF CallCoder, CallReviewer
      <3>2. AnsweredIn(head, seat)
        BY <3>1 DEF Whereabouts, ReadyInv
      <3>3. PICK j \in InRun(head) : /\ attempts[j].start.role = "probe"
                                     /\ attempts[j].phase = "completed" /\ Contract(j).seat = seat
        BY <3>2 DEF AnsweredIn
      <3>4. attempts'[j] = attempts[j] /\ j \in Started' /\ attempts'[i].run = head
            /\ attempts[j].run = head
        BY <2>1 DEF Sent, InRun
      <3>. QED BY <3>3, <3>4 DEF AnsweredIn, InRun, Contract
    <2>3. \A k \in Started' : attempts'[k].start.role \in {"coder", "reviewer"} =>
            \A seat \in ProbePlan : AnsweredIn(attempts[k].run, seat)'
      <3>1. Started' = Started \cup {i} /\ attempts'[i].start = a
            /\ \A k \in Started : attempts'[k] = attempts[k]
        BY <2>1 DEF Sent
      <3>. QED BY <1>2, <2>2, <3>1
    <2>. QED BY <2>3 DEF DispatchIsProbed, AnsweredIn
  <1>. QED BY <1>3, <1>4

LEMMA RepeatStep ==
  ASSUME Shape, NothingIsRepeated, [RunnerNext]_rvars
  PROVE  NothingIsRepeated'
  <1>1. CASE ~SendStep
    BY <1>1, NothingSent, AskedIsStarted DEF NothingIsRepeated, Contract
  <1>2. CASE SendStep
    <2>1. PICK i \in Invocations, a \in Starts : Sent(i, a) /\ SentFor(a)
      BY <1>2, SendEffect
    <2>2. /\ \A j \in Started : attempts'[j] = attempts[j]
          /\ attempts'[i].start = a /\ i \notin Started
      BY <2>1 DEF Sent
    <2>3. a.role = "verification" => Asks("verification", a.scope, a.round) = {}
      <3>1. ASSUME NEW s \in Slices, CallTests(s), a = TestRun(s)
            PROVE  Asks("verification", a.scope, a.round) = {}
        BY <3>1 DEF CallTests, TestRun, Reservation, Tests
      <3>. QED BY <2>1, <3>1, SentRoles
    <2>4. ASSUME a.role = "reviewer", a.retry = "initial",
                 NEW j \in Asks("reviewer", a.scope, a.round)
          PROVE  Contract(j) # a.contract
      <3>1. PICK s \in Slices : CallReviewer(s) /\
              \E c \in NextCalls(Turn(s), s) : a = ReviewCall(Turn(s), s, c)
        BY <2>1, <2>4, SentRoles
      <3>2. PICK c \in NextCalls(Turn(s), s) : a = ReviewCall(Turn(s), s, c)
        BY <3>1
      <3>3. /\ a.scope = s /\ a.round = Round(s) /\ a.retry = c.retry
            /\ a.contract = Bound(Turn(s), s)
        BY <3>2 DEF ReviewCall, Reservation
      <3>4. Asked(Turn(s), s) = {}
        BY <2>4, <3>3, NextCallType
      <3>. QED BY <2>4, <3>3, <3>4 DEF Asked
    <2>5. ASSUME NEW s \in Slices, NEW n \in 1..MaxRound,
                 NEW j \in Asks("verification", s, n)', NEW k \in Asks("verification", s, n)'
          PROVE  j = k
      <3>1. CASE j \in Asks("verification", s, n) /\ k \in Asks("verification", s, n)
        BY <3>1 DEF NothingIsRepeated
      <3>. QED BY <2>1, <2>3, <3>1, AsksGrow
    <2>6. ASSUME NEW s \in Slices, NEW n \in 1..MaxRound,
                 NEW j \in Asks("reviewer", s, n)', NEW k \in Asks("reviewer", s, n)',
                 attempts'[j].start.contract = attempts'[k].start.contract,
                 attempts'[j].start.retry = "initial", attempts'[k].start.retry = "initial"
          PROVE  j = k
      <3>1. \A m \in Asks("reviewer", s, n)' :
              m \in Asks("reviewer", s, n)
                \/ (m = i /\ a.role = "reviewer" /\ a.scope = s /\ a.round = n)
        BY <2>1, AsksGrow
      <3>2. CASE j \in Asks("reviewer", s, n) /\ k \in Asks("reviewer", s, n)
        BY <2>2, <2>6, <3>2, AskedIsStarted DEF NothingIsRepeated, Contract
      <3>3. ASSUME a.role = "reviewer", a.scope = s, a.round = n, a.retry = "initial",
                   NEW m \in Asks("reviewer", s, n), attempts'[m].start.contract = a.contract
            PROVE  FALSE
        BY <2>2, <2>4, <3>3, AskedIsStarted DEF Contract
      <3>. QED BY <2>2, <2>6, <3>1, <3>2, <3>3
    <2>. QED BY <2>5, <2>6 DEF NothingIsRepeated, Contract
  <1>. QED BY <1>1, <1>2

(* At the start nobody has been called, and no process runs.                *)
LEMMA NothingAtFirst ==
  ASSUME RunnerInit
  PROVE  /\ Whereabouts /\ CoderInv
         /\ CoderDispatchedOnce /\ DispatchIsProbed /\ NothingIsRepeated
  <1>1. Started = {}
    BY DEF RunnerInit, Init, Started, NoAttempt
  <1>2. \A role, s, n : Asks(role, s, n) = {}
    BY <1>1 DEF Asks
  <1>3. Whereabouts
    BY DEF RunnerInit, Whereabouts, ReadyInv, NoCall, CodingInv, TestingInv, ReviewingInv
  <1>. QED BY <1>1, <1>2, <1>3
           DEF CoderInv, CoderDispatchedOnce, DispatchIsProbed, NothingIsRepeated

(* The coder of a round is dispatched as one chain, whatever crashed and    *)
(* whatever run is granted next: the started artifact comes before the      *)
(* dispatch, and a recorded start forbids another (_coding_slice).          *)
THEOREM CoderIsSentOnce == RunnerSpec => []CoderDispatchedOnce
  <1>. DEFINE Inv == Shape /\ Whereabouts /\ CoderInv /\ CoderDispatchedOnce
  <1>1. RunnerInit => Inv
    BY ShapeInit, NothingAtFirst
  <1>2. Inv /\ [RunnerNext]_rvars => Inv'
    BY ShapeStep, WhereStep, CoderStep, CoderOnceStep
  <1>. QED BY <1>1, <1>2, PTL DEF RunnerSpec

(* A seat is dispatched in a run only after every seat of the plan answered *)
(* a probe of that run: what another run found is never borrowed (_probed,  *)
(* _probe_before_dispatch).                                                 *)
THEOREM ReadinessComesFirst == RunnerSpec => []DispatchIsProbed
  <1>. DEFINE Inv == Shape /\ Whereabouts /\ CoderInv /\ DispatchIsProbed
  <1>1. RunnerInit => Inv
    BY ShapeInit, NothingAtFirst
  <1>2. Inv /\ [RunnerNext]_rvars => Inv'
    BY ShapeStep, WhereStep, CoderStep, ProbedStep
  <1>. QED BY <1>1, <1>2, PTL DEF RunnerSpec

(* A round is verified once, and a seat asked afresh once about one product *)
(* of a round, over every crash, restart and run (_verifying_slice,         *)
(* _checkpoint_review).                                                     *)
THEOREM WorkIsNotRepeated == RunnerSpec => []NothingIsRepeated
  <1>. DEFINE Inv == Shape /\ NothingIsRepeated
  <1>1. RunnerInit => Inv
    BY ShapeInit, NothingAtFirst
  <1>2. Inv /\ [RunnerNext]_rvars => Inv'
    BY ShapeStep, RepeatStep
  <1>. QED BY <1>1, <1>2, PTL DEF RunnerSpec

-----------------------------------------------------------------------------
(* What the calls in the ledger say stays said *)

LEMMA AsksKept ==
  ASSUME Keeps
  PROVE  \A role, s, n : \A i \in Asks(role, s, n) :
           /\ i \in Asks(role, s, n)' /\ Contract(i)' = Contract(i)
           /\ attempts[i].phase # "started" => attempts'[i].phase = attempts[i].phase
  BY DEF Keeps, Asks, Contract

(* Only the call under way is answered.                                     *)
LEMMA EvidenceStays ==
  ASSUME Shape, Whereabouts, [RunnerNext]_rvars
  PROVE  /\ \A i \in Started : attempts[i].phase # "started" => evidence'[i] = evidence[i]
         /\ ~AnswerStep => UNCHANGED evidence
  <1>1. CASE AnswerStep
    <2>1. at \in {"testing", "reviewing"} /\
            \E answer \in Tested \cup Answers : evidence' = [evidence EXCEPT ![call] = answer]
      BY <1>1, AnswerEffect
    <2>2. attempts[call].phase = "started"
      BY <2>1 DEF Whereabouts, TestingInv, ReviewingInv, UnderWay, Unfinished
    <2>. QED BY <1>1, <2>1, <2>2 DEF Shape, RunnerTypeOK, Started
  <1>2. CASE ~AnswerStep
    BY <1>2, StepKinds, QuietEffect, MoveEffect, SendEffect, SettleEffect, CheckEffect,
       GrantEffect DEF rvars, durable, effects
  <1>. QED BY <1>1, <1>2

LEMMA SlicesStay ==
  ASSUME Shape, [RunnerNext]_rvars, ~MoveStep
  PROVE  UNCHANGED slices
  <1>1. CASE SendStep
    BY <1>1, SendEffect DEF Sent, lifecycle
  <1>2. CASE SettleStep
    BY <1>2, SettleEffect DEF AttemptFinished, lifecycle
  <1>3. CASE QuietStep \/ AnswerStep \/ CheckStep \/ GrantStep
    BY <1>3, QuietEffect, AnswerEffect, CheckEffect, GrantEffect DEF vars, lifecycle
  <1>4. CASE UNCHANGED rvars
    BY <1>4 DEF rvars, vars, lifecycle
  <1>. QED BY <1>1, <1>2, <1>3, <1>4, StepKinds

(* A settled verification says what its receipt says.                       *)
LEMMA SettledTest ==
  ASSUME Shape, Whereabouts, SettleStep, NEW j \in Started,
         attempts[j].start.role = "verification", attempts[j].phase = "started",
         attempts'[j].phase \in {"completed", "failed"}
  PROVE  attempts'[j].phase = IF evidence[j] = "ok" THEN "completed" ELSE "failed"
  <1>1. PICK i \in Unfinished, o \in Outcomes, n \in Measures :
          AttemptFinished(i, o, n) /\ SettledFor(i, o)
    BY SettleEffect
  <1>2. attempts'[i].phase = o /\ \A k \in Started \ {i} : attempts'[k] = attempts[k]
    BY <1>1, SettleFrame
  <1>3. i = j /\ o \in {"completed", "failed"} /\ o # "resolved"
    BY <1>2
  <1>4. ~ (at = "coding" /\ i = call)
    BY <1>3 DEF Whereabouts, CodingInv, UnderWay
  <1>5. ~ (at = "answered" /\ i = call)
    BY <1>3 DEF Whereabouts, ReviewingInv, UnderWay
  <1>6. ~ (ReadinessDue /\ i = call)
    BY <1>3, IdentityAssumption DEF ReadinessDue, Whereabouts, ReadyInv, NoCall, Started
  <1>7. i = call /\ o = IF evidence[call] = "ok" THEN "completed" ELSE "failed"
    BY <1>1, <1>3, <1>4, <1>5, <1>6 DEF SettledFor
  <1>. QED BY <1>2, <1>3, <1>7

LEMMA TestStep ==
  ASSUME Shape, Whereabouts, TestInv, [RunnerNext]_rvars
  PROVE  TestInv'
  <1>1. Keeps
    BY CallsKept
  <1>2. ASSUME NEW s \in Slices, NEW n \in 1..MaxRound, NEW i \in Asks("verification", s, n)
        PROVE  /\ i \in Started
               /\ attempts'[i].phase = "completed" => evidence'[i] = "ok"
               /\ attempts'[i].phase = "failed" => evidence'[i] # "ok"
    <2>1. /\ i \in Started /\ attempts[i].start.role = "verification"
          /\ attempts[i].phase = "completed" => evidence[i] = "ok"
          /\ attempts[i].phase = "failed" => evidence[i] # "ok"
      BY <1>2, AskedIsStarted DEF TestInv
    <2>2. CASE attempts[i].phase # "started"
      BY <1>1, <2>1, <2>2, EvidenceStays DEF Keeps
    <2>3. CASE attempts[i].phase = "started" /\ SettleStep
      <3>1. UNCHANGED evidence
        BY <2>3, SettleEffect
      <3>. QED BY <2>1, <2>3, <3>1, SettledTest
    <2>4. CASE attempts[i].phase = "started" /\ ~SettleStep
      <3>1. attempts'[i] = attempts[i]
        <4>1. CASE SendStep
          BY <2>1, <4>1, SendEffect DEF Sent
        <4>2. CASE ~SendStep
          BY <2>4, <4>2, StepKinds, QuietEffect, AnswerEffect, MoveEffect, CheckEffect,
             GrantEffect DEF vars, calls, rvars
        <4>. QED BY <4>1, <4>2
      <3>. QED BY <2>1, <2>4, <3>1
    <2>. QED BY <2>2, <2>3, <2>4
  <1>3. ASSUME NEW s \in Slices, NEW n \in 1..MaxRound, NEW i \in Asks("verification", s, n)
        PROVE  /\ n <= slices'[s].round
               /\ n < slices'[s].round \/ slices'[s].step # "verifying"
                    => n <= slices'[s].last_receipt
    <2>1. LET old == slices[s] IN
            /\ n <= old.round
            /\ n < old.round \/ old.step # "verifying" => n <= old.last_receipt
      BY <1>3 DEF TestInv, Round
    <2>2. CASE slices'[s] = slices[s]
      BY <2>1, <2>2
    <2>3. CASE slices'[s] # slices[s]
      <3>1. MoveStep
        BY <2>3, SlicesStay
      <3>2. Move(s, slices[s], slices'[s])
        BY <2>3, <3>1, MoveEffect DEF Moved
      <3>3. Paced(slices[s]) /\ slices[s] \in SliceState
        BY DEF Shape, RoundInv, RunnerTypeOK, TypeOK
      <3>. DEFINE old == slices[s]
                  new == slices'[s]
      <3>4. /\ old.round <= new.round /\ old.last_receipt <= new.last_receipt
            /\ old.step = "verifying" => new.last_receipt = old.round
            /\ old.round \in Nat /\ old.last_receipt \in Nat
            /\ new.round \in Nat /\ new.last_receipt \in Nat
        <4>1. /\ old.round \in Nat /\ old.last_receipt \in Nat /\ old.last_receipt <= old.round
          BY <3>3 DEF SliceState, Paced
        <4>2. Move(s, old, new)
          BY <3>2
        <4>. HIDE DEF old, new
        <4>3. /\ new.round \in {old.round, old.round + 1}
              /\ \/ old.step = "verifying" /\ new.last_receipt = old.round
                 \/ old.step # "verifying" /\ new.last_receipt = old.last_receipt
          BY <4>2 DEF Move, Advance
        <4>. QED BY <4>1, <4>3
      <3>5. /\ n <= old.round
            /\ n < old.round \/ old.step # "verifying" => n <= old.last_receipt
        BY <2>1
      <3>. HIDE DEF old, new
      <3>6. n <= new.round /\ n <= new.last_receipt
        BY <3>4, <3>5
      <3>. QED BY <3>6 DEF new
    <2>. QED BY <2>2, <2>3
  <1>4. CASE ~SendStep
    <2>1. \A s, n : Asks("verification", s, n)' = Asks("verification", s, n)
      BY <1>4, NothingSent
    <2>. QED BY <1>2, <1>3, <2>1 DEF TestInv, Round
  <1>5. CASE SendStep
    <2>1. PICK i \in Invocations, a \in Starts : Sent(i, a) /\ SentFor(a)
      BY <1>5, SendEffect
    <2>2. UNCHANGED slices /\ attempts'[i].phase = "started"
      BY <2>1 DEF Sent, lifecycle
    <2>3. ASSUME NEW s \in Slices, NEW n \in 1..MaxRound, a.role = "verification",
                 a.scope = s, a.round = n
          PROVE  n = slices'[s].round /\ slices'[s].step = "verifying"
      <3>1. PICK t \in Slices : CallTests(t) /\ a = TestRun(t)
        BY <2>1, <2>3, SentRoles
      <3>2. a.scope = t /\ a.round = slices[t].round /\ slices[t].step = "verifying"
        BY <3>1 DEF CallTests, MayVerify, TestRun, Reservation, Round
      <3>. QED BY <2>2, <2>3, <3>2
    <2>4. ASSUME NEW s \in Slices, NEW n \in 1..MaxRound, NEW j \in Asks("verification", s, n)'
          PROVE  /\ attempts'[j].phase = "completed" => evidence'[j] = "ok"
                 /\ attempts'[j].phase = "failed" => evidence'[j] # "ok"
                 /\ n <= slices'[s].round
                 /\ n < slices'[s].round \/ slices'[s].step # "verifying"
                      => n <= slices'[s].last_receipt
      <3>1. CASE j \in Asks("verification", s, n)
        BY <1>2, <1>3, <3>1
      <3>2. CASE j = i /\ a.role = "verification" /\ a.scope = s /\ a.round = n
        <4>1. n = slices'[s].round /\ slices'[s].step = "verifying" /\ n \in Int
          BY <2>3, <3>2
        <4>2. attempts'[j].phase = "started"
          BY <2>2, <3>2
        <4>3. n <= slices'[s].round /\ ~(n < slices'[s].round)
          BY <4>1
        <4>. QED BY <4>1, <4>2, <4>3
      <3>. QED BY <2>1, <3>1, <3>2, AsksGrow
    <2>. QED BY <2>4 DEF TestInv, Round
  <1>. QED BY <1>4, <1>5

LEMMA CheckedStep ==
  ASSUME Shape, Whereabouts, CheckedInv, [RunnerNext]_rvars
  PROVE  CheckedInv'
  <1>1. Keeps
    BY CallsKept
  <1>2. ASSUME NEW i \in Started, attempts[i].phase = "completed", evidence[i] \in Opinions
        PROVE  i \in Started' /\ attempts'[i].phase = "completed" /\ evidence'[i] \in Opinions
    BY <1>1, <1>2, EvidenceStays DEF Keeps
  <1>3. ASSUME NEW i \in checkpoints', i \notin checkpoints
        PROVE  i \in Started /\ attempts[i].phase = "completed" /\ evidence[i] \in Opinions
    <2>1. CheckStep
      <3>1. CASE SendStep
        BY <1>3, <3>1, SendEffect DEF Sent
      <3>2. CASE SettleStep
        BY <1>3, <3>2, SettleEffect DEF AttemptFinished
      <3>. QED BY <1>3, <3>1, <3>2, StepKinds, QuietEffect, AnswerEffect, MoveEffect, GrantEffect
               DEF vars, calls, rvars
    <2>. QED BY <1>3, <2>1, CheckEffect DEF ReviewCheckpoint
  <1>. QED BY <1>2, <1>3 DEF CheckedInv

Past      == {"verifying", "reviewing", "accept_pending", "accepted"}
PastTests == {"reviewing", "accept_pending", "accepted"}

LEMMA StepsStep ==
  ASSUME Shape, Whereabouts, TestInv, StepInv, [RunnerNext]_rvars
  PROVE  StepInv'
  <1>1. Keeps
    BY CallsKept
  <1>2. \A s \in Slices :
          /\ slices[s].step \in Past =>
               \E i \in Asks("coder", s, Round(s)) : attempts[i].phase = "completed"
          /\ slices[s].step \in PastTests =>
               \E i \in Asks("verification", s, Round(s)) : attempts[i].phase = "completed"
    BY DEF StepInv, Tests, Past, PastTests
  <1>3. ASSUME NEW role, NEW s, NEW n,
               \E i \in Asks(role, s, n) : attempts[i].phase = "completed"
        PROVE  \E i \in Asks(role, s, n)' : attempts'[i].phase = "completed"
    BY <1>1, <1>3, AsksKept
  <1>4. SUFFICES ASSUME NEW s \in Slices, NEW n, n = slices'[s].round
                 PROVE  /\ slices'[s].step \in Past =>
                             \E i \in Asks("coder", s, n) : attempts[i].phase = "completed"
                        /\ slices'[s].step \in PastTests =>
                             \E i \in Asks("verification", s, n) :
                               attempts[i].phase = "completed"
    <2>1. ASSUME NEW s \in Slices, NEW n, n = slices'[s].round
          PROVE  /\ slices'[s].step \in Past =>
                      \E i \in Asks("coder", s, n)' : attempts'[i].phase = "completed"
                 /\ slices'[s].step \in PastTests =>
                      \E i \in Asks("verification", s, n)' : attempts'[i].phase = "completed"
      BY <1>3, <1>4, <2>1
    <2>. QED BY <2>1 DEF StepInv, Tests, Round, Asks, Past, PastTests
  <1>5. CASE slices'[s] = slices[s]
    BY <1>2, <1>4, <1>5 DEF Round
  <1>6. CASE slices'[s] # slices[s]
    <2>1. MoveStep
      BY <1>6, SlicesStay
    <2>2. Move(s, slices[s], slices'[s])
      BY <1>6, <2>1, MoveEffect DEF Moved
    <2>3. CASE /\ at = "recording" /\ NextSlice(s)
               /\ Advance(slices[s], slices'[s], {"coding"}, {"verifying", "blocked"},
                          slices[s].round)
      <3>1. attempts[call].phase = "completed" /\ call \in Asks("coder", s, Round(s))
        BY <2>3, CallIsAsked DEF Whereabouts, CodingInv
      <3>. QED BY <1>4, <2>3, <3>1 DEF Advance, Round, Past, PastTests
    <2>4. CASE /\ at = "settled" /\ NextSlice(s) /\ slices[s].step = "verifying"
               /\ slices'[s].step = IF evidence[call] = "ok" THEN "reviewing" ELSE "fix"
               /\ slices'[s].round = IF evidence[call] = "ok" THEN slices[s].round
                                     ELSE slices[s].round + 1
      <3>1. call \in Asks("verification", s, Round(s))
            /\ attempts[call].phase \in {"completed", "failed"}
        BY <2>4, CallIsAsked DEF Whereabouts, TestingInv
      <3>2. evidence[call] = "ok" => attempts[call].phase = "completed"
        BY <3>1, HereType DEF TestInv, Shape
      <3>. QED BY <1>2, <1>4, <2>4, <3>1, <3>2 DEF Round, Past, PastTests
    <2>5. CASE slices'[s].step \in {"coding", "fix", "blocked"}
      BY <2>5 DEF Past, PastTests
    <2>6. CASE \/ Advance(slices[s], slices'[s], {"reviewing"}, {"accept_pending"}, slices[s].round)
               \/ Advance(slices[s], slices'[s], {"accept_pending"}, {"accepted"}, slices[s].round)
      BY <1>2, <1>4, <2>6 DEF Advance, Round, Past, PastTests
    <2>. QED BY <2>2, <2>3, <2>4, <2>5, <2>6 DEF Move, Advance
  <1>. QED BY <1>5, <1>6

LEMMA NothingSaidAtFirst ==
  ASSUME RunnerInit
  PROVE  /\ TestInv /\ CheckedInv /\ StepInv
         /\ ReviewIsOfTested /\ AcceptedWasReviewed /\ StallEndsCoding
  <1>1. Started = {}
    BY DEF RunnerInit, Init, Started, NoAttempt
  <1>2. \A role, s, n : Asks(role, s, n) = {}
    BY <1>1 DEF Asks
  <1>3. checkpoints = {} /\ \A s \in Slices : slices[s].step = "unstarted"
    BY DEF RunnerInit, Init, NewSlice
  <1>. QED BY <1>2, <1>3
           DEF TestInv, CheckedInv, StepInv, ReviewIsOfTested, AcceptedWasReviewed,
               StallEndsCoding

-----------------------------------------------------------------------------
(* What is reviewed, and what is accepted *)

(* A verification of the round that passed on a product.                    *)
PassedOn(j, s, n, content) ==
  /\ j \in Asks("verification", s, n)
  /\ evidence[j] = "ok" /\ attempts[j].phase = "completed"
  /\ Contract(j).product = content

LEMMA PassedStays ==
  ASSUME Shape, Whereabouts, [RunnerNext]_rvars, NEW j, NEW s, NEW n, NEW content,
         PassedOn(j, s, n, content)
  PROVE  PassedOn(j, s, n, content)'
  <1>1. Keeps
    BY CallsKept
  <1>2. /\ j \in Asks("verification", s, n)' /\ Contract(j)' = Contract(j)
        /\ attempts'[j].phase = "completed"
    BY <1>1, AsksKept DEF PassedOn
  <1>3. evidence'[j] = "ok"
    BY EvidenceStays, AskedIsStarted DEF PassedOn
  <1>. QED BY <1>2, <1>3 DEF PassedOn

(* While seats are asked, the product is the one that passed.               *)
LEMMA ReviewableIsPassed ==
  ASSUME Shape, TestInv, StepInv, NothingIsRepeated, NEW s \in Slices,
         Reviewable(s), slices[s].step = "reviewing"
  PROVE  \E j : PassedOn(j, s, Round(s), product)
  <1>1. PICK k \in Asks("verification", s, Round(s)) :
          evidence[k] = "ok" /\ Contract(k).product = product
    BY DEF Reviewable, Tests
  <1>2. PICK m \in Asks("verification", s, Round(s)) : attempts[m].phase = "completed"
    BY DEF StepInv, Tests
  <1>3. k = m
    BY HereType DEF NothingIsRepeated, Shape
  <1>. QED BY <1>1, <1>2, <1>3 DEF PassedOn

LEMMA TestedStep ==
  ASSUME Shape, Whereabouts, TestInv, StepInv, NothingIsRepeated, ReviewIsOfTested,
         [RunnerNext]_rvars
  PROVE  ReviewIsOfTested'
  <1>1. ReviewIsOfTested <=>
          \A s \in Slices, n \in 1..MaxRound : \A i \in Asks("reviewer", s, n) :
            \E j : PassedOn(j, s, n, Contract(i).product)
    BY DEF ReviewIsOfTested, PassedOn
  <1>2. ASSUME NEW s \in Slices, NEW n \in 1..MaxRound, NEW i \in Asks("reviewer", s, n)
        PROVE  \E j : PassedOn(j, s, n, Contract(i).product)'
    <2>1. PICK content : content = Contract(i).product
      OBVIOUS
    <2>2. PICK j : PassedOn(j, s, n, content)
      BY <1>1, <1>2, <2>1
    <2>3. PassedOn(j, s, n, content)'
      BY <2>2, PassedStays
    <2>4. Contract(i)'.product = content
      BY <2>1, CallsKept, AsksKept
    <2>. QED BY <2>3, <2>4 DEF PassedOn
  <1>3. CASE ~SendStep
    <2>1. \A s, n : Asks("reviewer", s, n)' = Asks("reviewer", s, n)
      BY <1>3, NothingSent
    <2>. QED BY <1>2, <2>1 DEF ReviewIsOfTested, PassedOn
  <1>4. CASE SendStep
    <2>1. PICK i \in Invocations, a \in Starts : Sent(i, a) /\ SentFor(a)
      BY <1>4, SendEffect
    <2>2. ASSUME a.role = "reviewer"
          PROVE  \E j : PassedOn(j, a.scope, a.round, a.contract.product)'
      <3>1. PICK s \in Slices : CallReviewer(s) /\
              \E c \in NextCalls(Turn(s), s) : a = ReviewCall(Turn(s), s, c)
        BY <2>1, <2>2, SentRoles
      <3>2. a.scope = s /\ a.round = Round(s) /\ a.contract.product = product
        BY <3>1 DEF ReviewCall, Reservation, Bound
      <3>3. slices[s].step = "reviewing" /\ Reviewable(s)
        BY <3>1 DEF CallReviewer, Whereabouts, ReviewingInv
      <3>4. PICK j : PassedOn(j, a.scope, a.round, a.contract.product)
        BY <3>2, <3>3, ReviewableIsPassed
      <3>. QED BY <3>4, PassedStays
    <2>3. ASSUME NEW s \in Slices, NEW n \in 1..MaxRound, NEW k \in Asks("reviewer", s, n)'
          PROVE  \E j : PassedOn(j, s, n, Contract(k).product)'
      <3>1. CASE k \in Asks("reviewer", s, n)
        BY <1>2, <3>1
      <3>2. CASE k = i /\ a.role = "reviewer" /\ a.scope = s /\ a.round = n
        <4>1. Contract(k)' = a.contract
          BY <2>1, <3>2 DEF Sent, Contract
        <4>2. PICK j : PassedOn(j, s, n, a.contract.product)'
          BY <2>2, <3>2
        <4>. QED BY <4>1, <4>2 DEF PassedOn
      <3>. QED BY <2>1, <3>1, <3>2, AsksGrow
    <2>. QED BY <2>3 DEF ReviewIsOfTested, PassedOn
  <1>. QED BY <1>3, <1>4

(* A seat whose recorded report of the round passes a product.              *)
PassedBy(seat, s, n, content) ==
  \E j \in Asks("reviewer", s, n) \cap checkpoints :
    /\ Contract(j).seat = seat /\ Contract(j).product = content
    /\ evidence[j] = "pass"

(* What an accepted round leaves behind.                                    *)
Acceptable(s, n) ==
  /\ \E i \in Asks("coder", s, n) : attempts[i].phase = "completed"
  /\ \E content \in Contents : /\ \E j : PassedOn(j, s, n, content)
                               /\ \A seat \in Reviewers : PassedBy(seat, s, n, content)

LEMMA AcceptedSaid ==
  ASSUME Shape
  PROVE  AcceptedWasReviewed <=>
           \A s \in Slices : slices[s].step \in {"accept_pending", "accepted"} =>
             Acceptable(s, Round(s))
  <1>1. \A i \in Started : Contract(i).product \in Contents
    BY RunnerAssumption
    DEF Shape, RunnerTypeOK, TypeOK, AttemptState, Started, NoAttempt, Starts, Contract, Digests
  <1>2. \A s, n : \A i \in Asks("verification", s, n) : Contract(i).product \in Contents
    BY <1>1, AskedIsStarted
  <1>. QED BY <1>2 DEF AcceptedWasReviewed, Acceptable, PassedOn, PassedBy, Tests

LEMMA PassesStay ==
  ASSUME Shape, Whereabouts, CheckedInv, [RunnerNext]_rvars,
         NEW seat, NEW s, NEW n, NEW content, PassedBy(seat, s, n, content)
  PROVE  PassedBy(seat, s, n, content)'
  <1>1. PICK j \in Asks("reviewer", s, n) \cap checkpoints :
          /\ Contract(j).seat = seat /\ Contract(j).product = content
          /\ evidence[j] = "pass"
    BY DEF PassedBy
  <1>2. j \in Asks("reviewer", s, n)' /\ Contract(j)' = Contract(j)
    BY CallsKept, AsksKept
  <1>3. evidence'[j] = "pass"
    BY <1>1, EvidenceStays DEF CheckedInv
  <1>4. checkpoints \subseteq checkpoints'
    <2>1. CASE SendStep
      BY <2>1, SendEffect DEF Sent
    <2>2. CASE SettleStep
      BY <2>2, SettleEffect DEF AttemptFinished
    <2>. QED BY <2>1, <2>2, StepKinds, QuietEffect, AnswerEffect, MoveEffect, CheckEffect,
                GrantEffect DEF vars, calls, rvars
  <1>. QED BY <1>1, <1>2, <1>3, <1>4 DEF PassedBy

LEMMA AcceptableStays ==
  ASSUME Shape, Whereabouts, CheckedInv, [RunnerNext]_rvars, NEW s, NEW n, Acceptable(s, n)
  PROVE  Acceptable(s, n)'
  <1>1. \E i \in Asks("coder", s, n)' : attempts'[i].phase = "completed"
    BY CallsKept, AsksKept DEF Acceptable
  <1>2. PICK content \in Contents : /\ \E j : PassedOn(j, s, n, content)
                                    /\ \A seat \in Reviewers : PassedBy(seat, s, n, content)
    BY DEF Acceptable
  <1>3. \E j : PassedOn(j, s, n, content)'
    BY <1>2, PassedStays
  <1>4. \A seat \in Reviewers : PassedBy(seat, s, n, content)'
    BY <1>2, PassesStay
  <1>. QED BY <1>1, <1>3, <1>4 DEF Acceptable

(* The strictest of the seats has passed, so every seat of the route has.   *)
LEMMA MergedPass ==
  ASSUME Shape, Whereabouts, TestInv, CheckedInv, StepInv, NothingIsRepeated,
         NEW s \in Slices, at = "asking", NextSlice(s), Pending(s) = {}, Merged(s) = "pass"
  PROVE  Acceptable(s, Round(s))
  <1>1. slices[s].step = "reviewing" /\ Reviewable(s)
    BY DEF Whereabouts, ReviewingInv
  <1>2. \E i \in Asks("coder", s, Round(s)) : attempts[i].phase = "completed"
    BY <1>1 DEF StepInv
  <1>3. \E j : PassedOn(j, s, Round(s), product)
    BY <1>1, ReviewableIsPassed
  <1>4. ASSUME NEW seat \in Reviewers
        PROVE  PassedBy(seat, s, Round(s), product)
    <2>1. PICK n \in DOMAIN Route : seat = Route[n]
      BY DEF Reviewers
    <2>2. Checked(seat, s)
      BY <2>1 DEF Pending
    <2>3. PICK i \in Asked(seat, s) \cap checkpoints : TRUE
      BY <2>2 DEF Checked
    <2>. DEFINE said == {evidence[k] : k \in checkpoints \cap
                                             UNION {Asked(other, s) : other \in Reviewers}}
    <2>4. evidence[i] \in said
      BY <2>3
    <2>5. Merged(s) = CASE "blocked" \in said -> "blocked"
                        [] "needs_work" \in said -> "needs_work"
                        [] OTHER -> "pass"
      BY DEF Merged
    <2>. HIDE DEF said
    <2>6. evidence[i] \notin {"blocked", "needs_work"}
      BY <2>4, <2>5
    <2>7. evidence[i] = "pass"
      BY <2>3, <2>6 DEF CheckedInv, Opinions
    <2>8. /\ i \in Asks("reviewer", s, Round(s)) /\ Contract(i).seat = seat
          /\ Contract(i).product = product
      BY <2>3 DEF Asked, Bound
    <2>. QED BY <2>3, <2>7, <2>8 DEF PassedBy
  <1>5. product \in Contents
    BY DEF Shape, RunnerTypeOK
  <1>. QED BY <1>2, <1>3, <1>4, <1>5 DEF Acceptable

LEMMA AcceptedStep ==
  ASSUME Shape, Whereabouts, TestInv, CheckedInv, StepInv, NothingIsRepeated,
         AcceptedWasReviewed, [RunnerNext]_rvars
  PROVE  AcceptedWasReviewed'
  <1>1. \A s \in Slices : slices[s].step \in {"accept_pending", "accepted"} =>
          Acceptable(s, Round(s))
    BY AcceptedSaid
  <1>2. ASSUME NEW s \in Slices, slices'[s].step \in {"accept_pending", "accepted"}
        PROVE  slices'[s].round = Round(s) /\ Acceptable(s, Round(s))
    <2>1. CASE slices'[s] = slices[s]
      BY <1>1, <1>2, <2>1 DEF Round
    <2>2. CASE slices'[s] # slices[s]
      <3>1. Move(s, slices[s], slices'[s])
        BY <2>2, SlicesStay, MoveEffect DEF Moved
      <3>2. \/ /\ at = "asking" /\ NextSlice(s) /\ Pending(s) = {} /\ Merged(s) = "pass"
               /\ slices'[s].round = Round(s)
            \/ slices[s].step = "accept_pending" /\ slices'[s].round = Round(s)
        BY <1>2, <3>1 DEF Move, Advance, Round
      <3>. QED BY <1>1, <3>2, MergedPass
    <2>. QED BY <2>1, <2>2
  <1>3. ASSUME NEW s \in Slices, NEW n, n = slices'[s].round,
               slices'[s].step \in {"accept_pending", "accepted"}
        PROVE  Acceptable(s, n)'
    BY <1>2, <1>3, AcceptableStays
  <1>4. \A s \in Slices : slices'[s].step \in {"accept_pending", "accepted"} =>
          Acceptable(s, Round(s))'
    BY <1>3 DEF Acceptable, PassedOn, PassedBy, Round, Asks
  <1>. QED BY <1>4 DEF AcceptedWasReviewed, Acceptable, PassedOn, PassedBy, Tests

-----------------------------------------------------------------------------
(* Rounds that fail alike *)

(* Rounds n and n + 1 failed their verification alike on one product.       *)
Stalled(s, n) ==
  \E i \in Asks("verification", s, n), j \in Asks("verification", s, n + 1) :
    FailedAlike(i, j) /\ Contract(i).product = Contract(j).product

LEMMA StallSaid ==
  StallEndsCoding <=>
    \A s \in Slices, n \in 1..(MaxRound - 2) : Stalled(s, n) => slices[s].last_prompt < n + 2
  BY DEF StallEndsCoding, Stalled

(* A verification is sent and answered while its round is verified.         *)
LEMMA FreshTest ==
  ASSUME Shape, Whereabouts, [RunnerNext]_rvars, NEW s \in Slices, NEW n,
         NEW i \in Asks("verification", s, n)'
  PROVE  \/ /\ i \in Asks("verification", s, n)
            /\ evidence'[i] = evidence[i] /\ Contract(i)' = Contract(i)
         \/ slices[s].step = "verifying" /\ Round(s) = n
  <1>1. CASE AnswerStep
    <2>1. /\ UNCHANGED vars
          /\ \E answer \in Tested \cup Answers : evidence' = [evidence EXCEPT ![call] = answer]
          /\ at \in {"testing", "reviewing"}
      BY <1>1, AnswerEffect
    <2>2. i \in Asks("verification", s, n) /\ Contract(i)' = Contract(i)
      BY <2>1, SameView DEF Contract
    <2>3. CASE i # call
      BY <2>1, <2>2, <2>3, AskedIsStarted DEF Shape, RunnerTypeOK
    <2>4. CASE i = call
      <3>1. at = "testing"
        BY <2>1, <2>2, <2>4, AskedIsStarted DEF Whereabouts, ReviewingInv, UnderWay
      <3>2. PICK t \in Slices : slices[t].step = "verifying" /\
                                call \in Asks("verification", t, Round(t))
        BY <3>1 DEF Whereabouts, TestingInv, Serves
      <3>3. t = s /\ Round(t) = n
        BY <2>2, <2>4, <3>2, AskedIsStarted
      <3>. QED BY <3>2, <3>3
    <2>. QED BY <2>3, <2>4
  <1>2. CASE SendStep
    <2>1. PICK j \in Invocations, a \in Starts : Sent(j, a) /\ SentFor(a)
      BY <1>2, SendEffect
    <2>2. UNCHANGED evidence
      BY <1>2, SendEffect DEF effects
    <2>3. CASE i \in Asks("verification", s, n)
      BY <2>2, <2>3, CallsKept, AsksKept
    <2>4. CASE a.role = "verification" /\ a.scope = s /\ a.round = n
      <3>1. PICK t \in Slices : CallTests(t) /\ a = TestRun(t)
        BY <2>1, <2>4, SentRoles
      <3>. QED BY <2>4, <3>1 DEF CallTests, MayVerify, TestRun, Reservation
    <2>. QED BY <2>1, <2>3, <2>4, AsksGrow
  <1>3. CASE ~SendStep /\ ~AnswerStep
    <2>1. i \in Asks("verification", s, n) /\ UNCHANGED evidence
      BY <1>3, NothingSent, EvidenceStays
    <2>. QED BY <2>1, CallsKept, AsksKept
  <1>. QED BY <1>1, <1>2, <1>3

(* The prompt of a round after two that failed alike is refused.            *)
LEMMA StallIsSeen ==
  ASSUME Shape, Whereabouts, TestInv, NEW s \in Slices, NEW n \in 1..(MaxRound - 2),
         Stalled(s, n), at = "issuing", NextSlice(s), slices[s].step \in {"unstarted", "fix"},
         slices[s].last_prompt < n + 2
  PROVE  Round(s) < n + 2
  <1>1. PICK i \in Asks("verification", s, n), j \in Asks("verification", s, n + 1) :
          FailedAlike(i, j) /\ Contract(i).product = Contract(j).product
    BY DEF Stalled
  <1>. DEFINE sl == slices[s]
  <1>2. Paced(sl) /\ sl.round \in Nat /\ sl.last_receipt \in Nat /\ sl.last_prompt \in Nat
    BY DEF Shape, RoundInv, RunnerTypeOK, TypeOK, SliceState
  <1>3. n \in Nat /\ n + 1 \in 1..MaxRound /\ n >= 1
    BY BoundAssumption
  <1>4. /\ n + 1 <= sl.round
        /\ sl.step # "verifying" => n + 1 <= sl.last_receipt
    BY <1>1, <1>3 DEF TestInv, Round
  <1>5. sl.step = "fix" => ~NoProgress(s)
    BY DEF Whereabouts, CodingInv
  <1>6. /\ sl.step = "unstarted" => sl.round = 1
        /\ sl.last_prompt = sl.round - 1 /\ sl.last_receipt < sl.round
        /\ sl.step # "verifying" /\ sl.step \in {"unstarted", "fix"} /\ sl.last_prompt < n + 2
    BY <1>2 DEF Paced
  <1>7. SUFFICES ASSUME ~(sl.round < n + 2) PROVE FALSE
    BY DEF Round
  <1>. HIDE DEF sl
  <1>8. sl.last_receipt = n + 1 /\ sl.step = "fix"
    BY <1>2, <1>3, <1>4, <1>6, <1>7
  <1>9. slices[s].last_receipt = n + 1 /\ (n + 1) - 1 = n
    BY <1>3, <1>8 DEF sl
  <1>10. FailedAlike(j, i) /\ Contract(j).product = Contract(i).product
    BY <1>1 DEF FailedAlike
  <1>11. NoProgress(s)
    BY <1>1, <1>9, <1>10 DEF NoProgress
  <1>. QED BY <1>5, <1>8, <1>11

LEMMA StallStep ==
  ASSUME Shape, Whereabouts, TestInv, StallEndsCoding, [RunnerNext]_rvars
  PROVE  StallEndsCoding'
  <1>1. \A s \in Slices, n \in 1..(MaxRound - 2) :
          Stalled(s, n) => slices[s].last_prompt < n + 2
    BY StallSaid
  <1>2. ASSUME NEW s \in Slices, NEW n \in 1..(MaxRound - 2), Stalled(s, n)'
        PROVE  slices'[s].last_prompt < n + 2
    <2>1. /\ Paced(slices[s]) /\ slices[s].round \in Nat /\ slices[s].last_prompt \in Nat
          /\ n \in Nat
      BY DEF Shape, RoundInv, RunnerTypeOK, TypeOK, SliceState
    <2>2. CASE MoveStep
      <3>1. UNCHANGED <<attempts, evidence>>
        BY <2>2, MoveEffect DEF calls
      <3>2. Stalled(s, n)
        BY <1>2, <3>1 DEF Stalled, FailedAlike, Asks, Started, Contract
      <3>3. slices[s].last_prompt < n + 2
        BY <1>1, <3>2
      <3>4. CASE slices'[s].last_prompt = slices[s].last_prompt
        BY <3>3, <3>4
      <3>5. CASE slices'[s].last_prompt # slices[s].last_prompt
        <4>1. /\ at = "issuing" /\ NextSlice(s) /\ slices[s].step \in {"unstarted", "fix"}
              /\ slices'[s].last_prompt = Round(s)
          BY <2>2, <3>5, MoveEffect DEF Moved, Move, Advance, Round
        <4>. QED BY <3>2, <3>3, <4>1, StallIsSeen
      <3>. QED BY <3>4, <3>5
    <2>3. CASE ~MoveStep
      <3>1. UNCHANGED slices
        BY <2>3, SlicesStay
      <3>2. PICK i \in Asks("verification", s, n)', j \in Asks("verification", s, n + 1)' :
              FailedAlike(i, j)' /\ Contract(i)'.product = Contract(j)'.product
        BY <1>2 DEF Stalled
      <3>3. CASE /\ i \in Asks("verification", s, n) /\ j \in Asks("verification", s, n + 1)
                 /\ evidence'[i] = evidence[i] /\ Contract(i)' = Contract(i)
                 /\ evidence'[j] = evidence[j] /\ Contract(j)' = Contract(j)
        <4>1. Stalled(s, n)
          BY <3>2, <3>3 DEF Stalled, FailedAlike
        <4>. QED BY <1>1, <3>1, <4>1
      <3>4. CASE slices[s].step = "verifying" /\ Round(s) \in {n, n + 1}
        BY <2>1, <3>1, <3>4 DEF Paced, Round
      <3>. QED BY <3>3, <3>4, FreshTest
    <2>. QED BY <2>2, <2>3
  <1>. QED BY <1>2 DEF StallEndsCoding, Stalled

-----------------------------------------------------------------------------
(* The invariant of the runner *)

RunnerInv ==
  /\ Shape /\ Whereabouts
  /\ CoderInv /\ TestInv /\ CheckedInv /\ StepInv /\ NothingIsRepeated

LEMMA RunnerInvInit == RunnerInit => RunnerInv
  BY ShapeInit, NothingAtFirst, NothingSaidAtFirst DEF RunnerInv

LEMMA RunnerInvStep == RunnerInv /\ [RunnerNext]_rvars => RunnerInv'
  BY ShapeStep, WhereStep, CoderStep, TestStep, CheckedStep, StepsStep, RepeatStep
  DEF RunnerInv

(* A seat is asked about nothing but the product that passed the tests of   *)
(* the round, whatever crashed and whatever was edited or restored          *)
(* meanwhile (_reviewing_slice, _binding).                                  *)
THEOREM TestedIsReviewed == RunnerSpec => []ReviewIsOfTested
  <1>. DEFINE Inv == RunnerInv /\ ReviewIsOfTested
  <1>1. RunnerInit => Inv
    BY RunnerInvInit, NothingSaidAtFirst
  <1>2. Inv /\ [RunnerNext]_rvars => Inv'
    BY RunnerInvStep, TestedStep DEF RunnerInv
  <1>. QED BY <1>1, <1>2, PTL DEF RunnerSpec

(* What is accepted was coded in its round, passed its verification, and    *)
(* was passed by every seat of the route on that same product, over every   *)
(* crash, edit and restart (_reviewing_slice).                              *)
THEOREM ReviewedIsAccepted == RunnerSpec => []AcceptedWasReviewed
  <1>. DEFINE Inv == RunnerInv /\ AcceptedWasReviewed
  <1>1. RunnerInit => Inv
    BY RunnerInvInit, NothingSaidAtFirst
  <1>2. Inv /\ [RunnerNext]_rvars => Inv'
    BY RunnerInvStep, AcceptedStep DEF RunnerInv
  <1>. QED BY <1>1, <1>2, PTL DEF RunnerSpec

(* After two rounds in succession that failed on the same product, with     *)
(* receipts that show the whole of one and the same failure, no third is    *)
(* sent to the coder, over every edit, crash and restart (no_progress).     *)
THEOREM StallIsFinal == RunnerSpec => []StallEndsCoding
  <1>. DEFINE Inv == RunnerInv /\ StallEndsCoding
  <1>1. RunnerInit => Inv
    BY RunnerInvInit, NothingSaidAtFirst
  <1>2. Inv /\ [RunnerNext]_rvars => Inv'
    BY RunnerInvStep, StallStep DEF RunnerInv
  <1>. QED BY <1>1, <1>2, PTL DEF RunnerSpec

(* What is proved of the ledger holds of the runner. Whatever is lost,      *)
(* retried or granted next, a run consumes no more than it was granted, but *)
(* for the seconds of a call that closed it by overrunning, ...             *)
THEOREM RunnerStaysWithinGrants == RunnerSpec => []AllowanceRespected
  BY RunnerIsLedger, AllowanceIsRespected, PTL

(* ... and it consumes what its calls cost, those included that a crash     *)
(* interrupted and that somebody settled later (_attempts.py).              *)
THEOREM RunnerPaysForItsCalls == RunnerSpec => []ConsumptionAttributed
  BY RunnerIsLedger, ConsumptionIsAccounted, PTL
=============================================================================
