------------------------------ MODULE Findings ------------------------------
(***************************************************************************)
(* The findings of reviews (findings.py, verdict.py, combined_review): the *)
(* reports of the seats are retained, merged, and recorded by one line of  *)
(* the ledger; the projection of all recorded reports says which findings  *)
(* are open and which scope cannot pass; its table is written into a       *)
(* marked region of 05_governance/backlog.md after the line.  The process  *)
(* may die between any two writes.  The runner writes the backlog, and     *)
(* only people commit it: the payload of an approval does not name it.     *)
(*                                                                         *)
(* One milestone with a holistic gate.  A report is known by its place in  *)
(* the history (its path and digest), a finding by its report and name.    *)
(* P2 stands for P0 to P2.  Summaries and related names are left out, and  *)
(* what people write outside the region, which every reader keeps.  Calls, *)
(* coding, verification and commits are in Runner and CommitIntent.        *)
(***************************************************************************)
EXTENDS Integers, Sequences, FiniteSets

CONSTANTS
  Slices, Milestone,
  Position,      \* the order of the slices
  Route,         \* seats that review each slice, in order
  Base,          \* names a seat may give to a finding
  Prefix,        \* the scope the name begins with, or None
  Said,          \* what a seat may write: a verdict and findings
  Seen,          \* dispositions it may give to an earlier finding
  Entries,       \* how a process may start: "run" (public), "loop" (Loop)
  None

CONSTANTS
  MaxReports,    \* bound: reports recorded
  MaxFaults,     \* bound: processes that die, replacements that fail
  MaxEdits       \* bound: edits and commits of the backlog by people

Scopes == Slices \cup {Milestone}
Seats  == UNION {{Route[s][n] : n \in DOMAIN Route[s]} : s \in Slices}

\* A name, and a name with the suffix of the seat that gave it.
Names == {<<b>> : b \in Base} \cup {<<b, seat>> : b \in Base, seat \in Seats}
Keys  == [source : 1..MaxReports, id : Names]

Severities   == {"P2", "P3"}
Dispositions == {"open", "carried", "closed_by_review", "waived_by_human"}
Verdicts     == {"pass", "needs_work", "blocked", "override"}
Rows         == [severity : Severities, disposition : Dispositions]

ASSUME FindingsAssumption ==
  /\ Milestone \notin Slices /\ None \notin Scopes
  /\ Position \in [Slices -> Nat]
  /\ \A s, t \in Slices : Position[s] = Position[t] => s = t
  /\ Prefix \in [Base -> Slices \cup {None}]
  /\ Entries \subseteq {"run", "loop"}
  /\ MaxReports \in Nat /\ MaxFaults \in Nat /\ MaxEdits \in Nat

(* A seat reviews a slice once (two alike would be given the same suffix,   *)
(* which combined_review refuses), and reports are finite.                  *)
ASSUME ReportAssumption ==
  /\ \A s \in Slices :
       /\ IsFiniteSet(DOMAIN Route[s])
       /\ \A m, n \in DOMAIN Route[s] : Route[s][m] = Route[s][n] => m = n
  /\ \A said \in Said : /\ DOMAIN said.findings \subseteq {<<b>> : b \in Base}
                         /\ IsFiniteSet(DOMAIN said.findings)

VARIABLES
  reports,        \* how many reports are recorded
  findings,       \* the findings of the projection
  open,           \* its index: the blocking findings that are open,
  open_by_scope,  \*   by scope,
  ids,            \*   and the keys of a name
  current_open    \* names open in the last decision about a scope

VARIABLES
  step,           \* of a slice, or of the gate
  last_report,    \* the report a slice goes by
  retained,       \* reports retained for the decision at hand
  filed           \* the report of the gate is recorded, not its decision

VARIABLES
  decided,        \* a decision is recorded
  backlog,        \* the marked region of the backlog
  committed,      \* what HEAD holds of it
  baselined,      \* what the last prompt that found it changed recorded
  temporary,      \* a temporary file is beside it
  at,             \* where the process is, "off" when there is none
  faults, edits

projection == <<reports, findings, open, open_by_scope, ids, current_open, decided>>
lifecycle  == <<step, last_report, retained, filed>>
files      == <<backlog, committed, baselined, temporary>>
bounds     == <<faults, edits>>
vars       == <<projection, lifecycle, files, at, bounds>>

Region(marked, rows) == [marked |-> marked, rows |-> rows]
NoRegion             == Region("none", <<>>)

Steps  == {"issue", "review", "blocked", "passed", "done"}
Places == {"off", "iterate", "replace", "work"}

ShapeOfReport(r) ==
  /\ r.verdict \in Verdicts
  /\ DOMAIN r.findings \subseteq Names
  /\ \A i \in DOMAIN r.findings : r.findings[i] \in Rows

ShapeOfRegion(region) ==
  /\ region.marked \in {"none", "pair", "malformed"}
  /\ DOMAIN region.rows \subseteq Keys
  /\ \A k \in DOMAIN region.rows : region.rows[k] \in Rows

(* Shapes of the state; only a set of reports waits for a decision that the *)
(* roadmap asks for, and only a process replaces the backlog.               *)
TypeOK ==
  /\ reports \in 0..MaxReports
  /\ DOMAIN findings \subseteq Keys
  /\ \A k \in DOMAIN findings : /\ k.source <= reports
                                /\ findings[k].row \in Rows
                                /\ findings[k].owner \in Scopes
  /\ open \subseteq Keys
  /\ open_by_scope \in [Scopes -> SUBSET Keys]
  /\ ids \in [Names -> SUBSET Keys]
  /\ current_open \in [Scopes -> SUBSET Names]
  /\ step \in [Scopes -> Steps]
  /\ last_report \in [Slices -> 0..MaxReports]
  /\ \A n \in DOMAIN retained : ShapeOfReport(retained[n])
  /\ filed => retained # <<>>
  /\ decided \in BOOLEAN /\ (decided => reports > 0)
  /\ ShapeOfRegion(backlog) /\ ShapeOfRegion(committed) /\ ShapeOfRegion(baselined)
  /\ temporary \in BOOLEAN /\ (at = "replace" => temporary)
  /\ at \in Places
  /\ faults \in 0..MaxFaults /\ edits \in 0..MaxEdits

-----------------------------------------------------------------------------
(* The projection *)

Blocking(row) == row.severity # "P3" /\ row.disposition = "open"
OpenIn(rows)  == {i \in DOMAIN rows : Blocking(rows[i])}

(* The scopes that a finding keeps open: the one reviewed, its milestone,   *)
(* and the one its name begins with.                                        *)
ScopesOf(owner, id) == {owner, Milestone} \cup ({Prefix[id[1]]} \ {None})

Rendered == [k \in DOMAIN findings |-> findings[k].row]

(* `touched` findings leave the index and enter it again if they block.     *)
IndexedOnce(index, touched, blocking) == index \cup blocking
Indexed(index, touched, blocking) == (index \ touched) \cup blocking

Reindex(touched) ==
  LET blocks(k)   == Blocking(findings'[k].row)
      of(scope)   == {k \in touched : scope \in ScopesOf(findings'[k].owner, k.id)}
      blocking(K) == {k \in K : blocks(k)}
  IN /\ open' = Indexed(open, touched, blocking(touched))
     /\ open_by_scope' = [scope \in Scopes |->
          Indexed(open_by_scope[scope], of(scope), blocking(of(scope)))]

Unknown(names) == \A i \in names : ids[i] = {}

(* Projection.add: the findings of a report are new, its updates name a     *)
(* recorded source, and only P3 findings are carried.                       *)
Add(scope, report) ==
  LET n   == reports + 1
      new == {[source |-> n, id |-> i] : i \in DOMAIN report.findings}
  IN /\ n <= MaxReports
     /\ Unknown(DOMAIN report.findings)
     /\ DOMAIN report.updates \subseteq DOMAIN findings
     /\ \A k \in DOMAIN report.updates :
          report.updates[k] = "carried" => findings[k].row.severity = "P3"
     /\ reports' = n
     /\ findings' = [k \in DOMAIN findings \cup new |->
          IF k \in new THEN [row |-> report.findings[k.id], owner |-> scope]
          ELSE IF k \in DOMAIN report.updates
          THEN [findings[k] EXCEPT !.row.disposition = report.updates[k]]
          ELSE findings[k]]
     /\ ids' = [i \in Names |-> ids[i] \cup {k \in new : k.id = i}]
     /\ Reindex(new \cup DOMAIN report.updates)

(* require_closure, of the projection with the report.                      *)
ClosedAgain(scope) == {k \in open' : k.id \in current_open[scope]} = {}
Closed(scope) ==
  /\ open_by_scope'[scope] = {}
  /\ {k \in open' : k.id \in current_open[scope]} = {}

NamesOf(names, s) == {i \in names : Prefix[i[1]] = s}

(* The line of a decision: the report agrees with the projection it is in.  *)
Decide(scope, report) ==
  /\ report.verdict \in {"pass", "override"} => Closed(scope)
  /\ decided' = TRUE
  /\ LET names == OpenIn(report.findings)
     IN current_open' = [c \in Scopes |->
          IF c = scope THEN names
          ELSE IF scope = Milestone THEN NamesOf(names, c) ELSE current_open[c]]

-----------------------------------------------------------------------------
(* The merge of the reports of several seats *)

Listing(i) == {n \in DOMAIN retained : i \in DOMAIN retained[n].findings}
Prior(s)   == {k.id : k \in {k \in DOMAIN findings : k.source = last_report[s]}}

(* New names that several seats gave get the suffix of the seat.            *)
NeverShared(s) == {}
Shared(s) == {i \in Names : Cardinality(Listing(i)) > 1} \ Prior(s)

NameOf(s, n, i) == IF i \in Shared(s) THEN Append(i, Route[s][n]) ELSE i

Strictness(row) ==
  (CASE row.disposition = "open" -> 0 [] row.disposition = "carried" -> 2
     [] row.disposition = "closed_by_review" -> 4 [] OTHER -> 6)
  + (IF row.severity = "P3" THEN 1 ELSE 0)

Strictest(rows) == CHOOSE row \in rows : \A other \in rows : Strictness(row) <= Strictness(other)

MergedFindings(s) ==
  LET given == UNION {{<<n, i>> : i \in DOMAIN retained[n].findings} : n \in DOMAIN retained}
  IN [name \in {NameOf(s, g[1], g[2]) : g \in given} |->
        Strictest({retained[g[1]].findings[g[2]] :
                     g \in {h \in given : NameOf(s, h[1], h[2]) = name}})]

(* The seats may not contradict each other about an earlier finding.        *)
Agreed ==
  \A m, n \in DOMAIN retained :
    \A k \in DOMAIN retained[m].updates \cap DOMAIN retained[n].updates :
      retained[m].updates[k] = retained[n].updates[k]

MergedUpdates ==
  [k \in UNION {DOMAIN retained[n].updates : n \in DOMAIN retained} |->
     retained[CHOOSE n \in DOMAIN retained : k \in DOMAIN retained[n].updates].updates[k]]

MergedVerdict ==
  LET said == {retained[n].verdict : n \in DOMAIN retained}
  IN IF "blocked" \in said THEN "blocked"
     ELSE IF "needs_work" \in said THEN "needs_work" ELSE "pass"

Combined(s) ==
  [verdict |-> MergedVerdict, findings |-> MergedFindings(s), updates |-> MergedUpdates]

-----------------------------------------------------------------------------
(* The backlog *)

Behind == decided /\ backlog.marked # "malformed" /\ backlog # Region("pair", Rendered)

(* Every change of the working tree is recorded: the backlog is the one in  *)
(* HEAD, the one a prompt found, or the projection.                         *)
Clean ==
  /\ ~temporary
  /\ backlog \in {committed, baselined, Region("pair", Rendered)}

(* Only `run` looks at the working tree before its first iteration.         *)
AdmitsClean(entry) == Clean
Admits(entry)      == entry = "run" => Clean

Begin(entry) ==
  /\ at = "off"
  /\ Admits(entry)
  /\ at' = "iterate"
  /\ UNCHANGED <<projection, lifecycle, files, bounds>>

End == at' = "off"

(* Every iteration begins with the backlog, and every decision ends with    *)
(* it; an interrupted write is repeated, a malformed region is refused.     *)
Due == Behind

Reconcile ==
  /\ at = "iterate"
  /\ IF Due THEN temporary' = TRUE /\ at' = "replace"
     ELSE /\ at' = IF decided /\ backlog.marked = "malformed" THEN "off" ELSE "work"
          /\ UNCHANGED temporary
  /\ UNCHANGED <<projection, lifecycle, backlog, committed, baselined, bounds>>

Replace ==
  /\ at = "replace"
  /\ backlog' = Region("pair", Rendered)
  /\ temporary' = FALSE
  /\ at' = "work"
  /\ UNCHANGED <<projection, lifecycle, committed, baselined, bounds>>

(* A replacement that fails removes its file; a process that dies does not. *)
ReplaceFails ==
  /\ at = "replace"
  /\ faults < MaxFaults
  /\ faults' = faults + 1
  /\ temporary' = FALSE
  /\ End
  /\ UNCHANGED <<projection, lifecycle, backlog, committed, baselined, edits>>

(* A death elsewhere leaves what a stop leaves.                             *)
Crash ==
  /\ at \in {"iterate", "replace"}
  /\ faults < MaxFaults
  /\ faults' = faults + 1
  /\ End
  /\ UNCHANGED <<projection, lifecycle, files, edits>>

Stop == at = "work" /\ End /\ UNCHANGED <<projection, lifecycle, files, bounds>>

-----------------------------------------------------------------------------
(* Slices and the gate *)

Waiting    == {s \in Slices : step[s] # "done"}
Turn(scope) ==
  /\ step[scope] # "done"
  /\ IF scope = Milestone THEN Waiting = {}
     ELSE \A s \in Waiting : Position[scope] <= Position[s]

(* The prompt of a round records what it finds changed.                     *)
Issue(s) ==
  /\ at = "work" /\ Turn(s) /\ step[s] = "issue"
  /\ Clean
  /\ step' = [step EXCEPT ![s] = "review"]
  /\ baselined' = IF backlog # committed THEN backlog ELSE baselined
  /\ UNCHANGED <<projection, last_report, retained, filed, backlog, committed, temporary, at, bounds>>

(* A report a seat may give: its verdict agrees with its own findings, and  *)
(* the findings of the gate name the slices they are about.                 *)
Grammatical(scope, report) ==
  /\ report.verdict \in {"pass", "override"} => OpenIn(report.findings) = {}
  /\ \A i \in DOMAIN report.findings :
       LET row == report.findings[i]
       IN /\ row.disposition = "carried" => row.severity = "P3"
          /\ scope = Milestone /\ row.severity # "P3" => Prefix[i[1]] # None
  /\ scope = Milestone /\ report.verdict = "needs_work" => OpenIn(report.findings) # {}

Says(scope, by, dispositions) ==
  {report \in
     {[verdict |-> said.verdict, findings |-> said.findings, updates |-> [k \in K |-> d]] :
        said \in by, K \in {{}} \cup {{k} : k \in DOMAIN findings}, d \in dispositions} :
   Grammatical(scope, report)}

Asked(scope) == IF scope = Milestone THEN {1} ELSE DOMAIN Route[scope]

Retain(scope) ==
  /\ at = "work" /\ Turn(scope) /\ step[scope] = "review" /\ retained = <<>>
  /\ reports < MaxReports
  /\ Clean
  /\ retained' \in [Asked(scope) -> Says(scope, Said, Seen)]
  /\ UNCHANGED <<projection, step, last_report, filed, files, at, bounds>>

(* What a decision does to the slice, or to the slices the gate names.      *)
Decided(verdict) ==
  CASE verdict \in {"pass", "override"} -> "passed"
    [] verdict = "needs_work" -> "issue"
    [] OTHER -> "blocked"

MoveSlice(s, verdict) ==
  /\ step' = [step EXCEPT ![s] = Decided(verdict)]
  /\ last_report' = [last_report EXCEPT ![s] = reports']

MoveGate(report) ==
  LET back == {s \in Slices : NamesOf(OpenIn(report.findings), s) # {}}
      sent == report.verdict = "needs_work"
  IN /\ step' = [c \in Scopes |->
          IF sent /\ c \in back THEN "issue"
          ELSE IF c # Milestone THEN step[c]
          ELSE IF sent THEN "review" ELSE Decided(report.verdict)]
     /\ last_report' = [s \in Slices |-> IF sent /\ s \in back THEN reports' ELSE last_report[s]]

(* The reports are used up by their decision.                               *)
Concluded == retained' = <<>> /\ filed' = FALSE

(* The merged report of a slice and its line.                               *)
DecideSlice(s) ==
  /\ at = "work" /\ Turn(s) /\ step[s] = "review" /\ retained # <<>>
  /\ Clean /\ Agreed
  /\ Add(s, Combined(s))
  /\ Decide(s, Combined(s))
  /\ MoveSlice(s, MergedVerdict)
  /\ Concluded
  /\ at' = "iterate"
  /\ UNCHANGED <<files, bounds>>

(* The report of the gate is recorded first, and counts from then on.       *)
FileGate ==
  /\ at = "work" /\ Turn(Milestone) /\ step[Milestone] = "review" /\ retained # <<>>
  /\ ~filed
  /\ Add(Milestone, retained[1])
  /\ filed' = TRUE
  /\ UNCHANGED <<current_open, decided, step, last_report, retained, files, at, bounds>>

DecideGate ==
  /\ at = "work" /\ Turn(Milestone) /\ filed
  /\ UNCHANGED <<reports, findings, open, open_by_scope, ids>>
  /\ Decide(Milestone, retained[1])
  /\ MoveGate(retained[1])
  /\ Concluded
  /\ at' = "iterate"
  /\ UNCHANGED <<files, bounds>>

(* An approval; its commit leaves the backlog as it is.                     *)
Approve(scope) ==
  /\ at = "work" /\ Turn(scope) /\ step[scope] = "passed"
  /\ step' = [step EXCEPT ![scope] = "done"]
  /\ UNCHANGED <<projection, last_report, retained, filed, files, at, bounds>>

-----------------------------------------------------------------------------
(* People, while no process runs *)

Resolve(scope) ==
  /\ at = "off" /\ step[scope] = "blocked"
  /\ step' = [step EXCEPT ![scope] = IF scope = Milestone THEN "review" ELSE "issue"]
  /\ UNCHANGED <<projection, last_report, retained, filed, files, at, bounds>>

CommitBacklog ==
  /\ at = "off" /\ edits < MaxEdits /\ backlog # committed
  /\ edits' = edits + 1
  /\ committed' = backlog
  /\ UNCHANGED <<projection, lifecycle, backlog, baselined, temporary, at, faults>>

Damage ==
  /\ at = "off" /\ edits < MaxEdits
  /\ edits' = edits + 1
  /\ backlog' = Region("malformed", <<>>)
  /\ UNCHANGED <<projection, lifecycle, committed, baselined, temporary, at, faults>>

Repair ==
  /\ at = "off" /\ backlog.marked = "malformed"
  /\ backlog' = NoRegion
  /\ UNCHANGED <<projection, lifecycle, committed, baselined, temporary, at, bounds>>

Tidy ==
  /\ at = "off" /\ temporary
  /\ temporary' = FALSE
  /\ UNCHANGED <<projection, lifecycle, backlog, committed, baselined, at, bounds>>

-----------------------------------------------------------------------------
Init ==
  /\ reports = 0 /\ findings = <<>> /\ open = {} /\ decided = FALSE
  /\ open_by_scope = [c \in Scopes |-> {}]
  /\ ids = [i \in Names |-> {}]
  /\ current_open = [c \in Scopes |-> {}]
  /\ step = [c \in Scopes |-> IF c = Milestone THEN "review" ELSE "issue"]
  /\ last_report = [s \in Slices |-> 0]
  /\ retained = <<>> /\ filed = FALSE
  /\ backlog = NoRegion /\ committed = NoRegion /\ baselined = NoRegion
  /\ temporary = FALSE
  /\ at = "off"
  /\ faults = 0 /\ edits = 0

Projecting == Reconcile \/ Replace

Working ==
  \/ \E s \in Slices : Issue(s) \/ DecideSlice(s)
  \/ \E c \in Scopes : Retain(c) \/ Approve(c)
  \/ FileGate \/ DecideGate \/ Stop

People ==
  \/ \E c \in Scopes : Resolve(c)
  \/ CommitBacklog \/ Damage \/ Repair \/ Tidy

Next ==
  \/ \E entry \in Entries : Begin(entry)
  \/ Projecting \/ ReplaceFails \/ Crash
  \/ Working \/ People

Spec == Init /\ [][Next]_vars

(* A process goes on until it ends, and the runner is started again.        *)
FairSpec ==
  /\ Spec
  /\ WF_vars(Projecting \/ Working)
  /\ SF_vars(\E entry \in Entries : Begin(entry))

-----------------------------------------------------------------------------
(* Properties *)

(* The index that each report updates is what the findings say, whatever    *)
(* was closed, reopened or carried in between (Projection._index).          *)
IndexIsExact ==
  LET blocking == {k \in DOMAIN findings : Blocking(findings[k].row)}
  IN /\ open = blocking
     /\ open_by_scope = [c \in Scopes |->
          {k \in blocking : c \in ScopesOf(findings[k].owner, k.id)}]
     /\ ids = [i \in Names |-> {k \in DOMAIN findings : k.id = i}]

(* A slice passes only when nothing of its own and nothing named for it is  *)
(* open, as the reports stand at that moment, and a milestone is done only  *)
(* when nothing at all is: its slices pass one by one, and their findings   *)
(* are reopened and carried by later reports (require_closure).             *)
PassLeavesNothingOpen ==
  [][\A k \in DOMAIN findings' : Blocking(findings'[k].row) =>
       /\ \A s \in Slices : step[s] # "passed" /\ step'[s] = "passed" =>
            findings'[k].owner # s /\ Prefix[k.id[1]] # s
       /\ ~(step[Milestone] # "done" /\ step'[Milestone] = "done")]_vars

(* Every blocking finding of every seat is recorded as a finding of its     *)
(* own: the merge loses none and joins none (combined_review).              *)
EveryFindingCounts ==
  [][\A s \in Slices : DecideSlice(s) =>
       Cardinality({k \in open' : k.source = reports'})
         = Cardinality(UNION {{<<n, i>> : i \in OpenIn(retained[n].findings)} :
                                n \in DOMAIN retained})]_vars

(* A backlog that a crash or a failed replacement left behind is written    *)
(* when the loop runs again (reconcile, _reconcile_findings).               *)
BacklogCatchesUp == Behind ~> ~Behind

(* `run` is admitted again after a stop, when nobody else touched the       *)
(* backlog (docs/release.md, Resume).                                       *)
RunAgainIsAdmitted == at = "off" /\ edits = 0 => Clean
=============================================================================
