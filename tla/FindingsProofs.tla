--------------------------- MODULE FindingsProofs ---------------------------
(* Proofs about the findings of reviews: the index of the projection is     *)
(* exact, and what passes leaves nothing open.                              *)
EXTENDS Findings, FiniteSetTheorems, TLAPS

(* The findings as the reports left them.                                   *)
KnownFindings ==
  /\ reports \in Nat
  /\ findings = [k \in DOMAIN findings |-> findings[k]]
  /\ \A k \in DOMAIN findings :
       /\ k.source \in Nat /\ k.source <= reports
       /\ findings[k] = [row |-> findings[k].row, owner |-> findings[k].owner]

NothingBlocks == \A k \in DOMAIN findings : ~Blocking(findings[k].row)

(* A gate that passed leaves nothing open, and no slice goes on below it.   *)
GateInv ==
  /\ step \in [Scopes -> Steps]
  /\ step[Milestone] \in {"passed", "done"} => Waiting = {} /\ NothingBlocks

FindingsInv == KnownFindings /\ IndexIsExact /\ GateInv

-----------------------------------------------------------------------------
(* One report *)

LEMMA Updated ==
  ASSUME NEW x, x = [row |-> x.row, owner |-> x.owner], NEW d
  PROVE  LET y == [x EXCEPT !.row.disposition = d]
         IN y = [row |-> y.row, owner |-> y.owner] /\ y.owner = x.owner
<1>1. PICK r, o : r = x.row /\ o = x.owner
  OBVIOUS
<1>2. x = [row |-> r, owner |-> o]
  BY <1>1
<1>3. [x EXCEPT !.row.disposition = d] = [row |-> [r EXCEPT !.disposition = d], owner |-> o]
  BY <1>2
<1> QED BY <1>1, <1>3

NewKeys(report) == {[source |-> reports + 1, id |-> i] : i \in DOMAIN report.findings}

(* What a report adds is new, and only what it touches changes.             *)
LEMMA AddFacts ==
  ASSUME KnownFindings, NEW scope, NEW report, Add(scope, report)
  PROVE  /\ KnownFindings'
         /\ DOMAIN findings' = DOMAIN findings \cup NewKeys(report)
         /\ NewKeys(report) \cap DOMAIN findings = {}
         /\ DOMAIN report.updates \subseteq DOMAIN findings
         /\ \A k \in DOMAIN findings :
              /\ findings'[k].owner = findings[k].owner
              /\ k \notin DOMAIN report.updates => findings'[k] = findings[k]
         /\ \A k \in NewKeys(report) :
              k.source = reports + 1
              /\ findings'[k] = [row |-> report.findings[k.id], owner |-> scope]
<1> DEFINE new == NewKeys(report)
<1>1. /\ reports' = reports + 1
      /\ DOMAIN report.updates \subseteq DOMAIN findings
      /\ findings' = [k \in DOMAIN findings \cup new |->
           IF k \in new THEN [row |-> report.findings[k.id], owner |-> scope]
           ELSE IF k \in DOMAIN report.updates
           THEN [findings[k] EXCEPT !.row.disposition = report.updates[k]]
           ELSE findings[k]]
  BY DEF Add, NewKeys
<1>2. \A k \in new : k.source = reports + 1
  BY DEF NewKeys
<1> HIDE DEF new
<1>3. new \cap DOMAIN findings = {}
  BY <1>2 DEF KnownFindings
<1>4. DOMAIN findings' = DOMAIN findings \cup new
  BY <1>1
<1>5. \A k \in new : findings'[k] = [row |-> report.findings[k.id], owner |-> scope]
  BY <1>1
<1>6. \A k \in DOMAIN findings \ DOMAIN report.updates : findings'[k] = findings[k]
  BY <1>1, <1>3
<1>7. \A k \in DOMAIN report.updates :
         findings'[k] = [findings[k] EXCEPT !.row.disposition = report.updates[k]]
  BY <1>1, <1>3
<1>8. ASSUME NEW k \in DOMAIN report.updates
      PROVE  findings'[k] = [row |-> findings'[k].row, owner |-> findings'[k].owner]
             /\ findings'[k].owner = findings[k].owner
  <2>1. k \in DOMAIN findings
    BY <1>1
  <2>2. findings[k] = [row |-> findings[k].row, owner |-> findings[k].owner]
    BY <2>1 DEF KnownFindings
  <2> QED BY <1>7, <2>2, Updated
<1>9. \A k \in DOMAIN findings' :
        findings'[k] = [row |-> findings'[k].row, owner |-> findings'[k].owner]
  <2> SUFFICES ASSUME NEW k \in DOMAIN findings'
               PROVE  findings'[k] = [row |-> findings'[k].row, owner |-> findings'[k].owner]
    OBVIOUS
  <2>1. CASE k \in new
    <3>1. findings'[k] = [row |-> report.findings[k.id], owner |-> scope]
      BY <1>5, <2>1
    <3>2. findings'[k].row = report.findings[k.id] /\ findings'[k].owner = scope
      BY <3>1
    <3> QED BY <3>1, <3>2
  <2>2. CASE k \in DOMAIN report.updates
    BY <1>8, <2>2
  <2>3. CASE k \in DOMAIN findings \ DOMAIN report.updates
    BY <1>6, <2>3 DEF KnownFindings
  <2> QED BY <1>4, <2>1, <2>2, <2>3
<1>10. findings' = [k \in DOMAIN findings' |-> findings'[k]]
  BY <1>1
<1>11. \A k \in DOMAIN findings' : k.source \in Nat /\ k.source <= reports'
  BY <1>1, <1>2, <1>4 DEF KnownFindings
<1>12. reports' \in Nat
  BY <1>1 DEF KnownFindings
<1>13. KnownFindings'
  BY <1>9, <1>10, <1>11, <1>12 DEF KnownFindings
<1> QED BY <1>1, <1>2, <1>3, <1>4, <1>5, <1>6, <1>8, <1>13 DEF new

LEMMA AddKeepsIndex ==
  ASSUME KnownFindings, IndexIsExact, NEW scope, NEW report, Add(scope, report)
  PROVE  KnownFindings' /\ IndexIsExact'
<1> DEFINE new == NewKeys(report)
           T == new \cup DOMAIN report.updates
           B == {k \in DOMAIN findings : Blocking(findings[k].row)}
           C == {k \in DOMAIN findings' : Blocking(findings'[k].row)}
<1>2. /\ KnownFindings'
      /\ DOMAIN findings' = DOMAIN findings \cup new
      /\ new \cap DOMAIN findings = {}
      /\ DOMAIN report.updates \subseteq DOMAIN findings
      /\ \A k \in DOMAIN findings :
           /\ findings'[k].owner = findings[k].owner
           /\ k \notin DOMAIN report.updates => findings'[k] = findings[k]
  BY AddFacts
<1>3. Reindex(T) /\ ids' = [i \in Names |-> ids[i] \cup {k \in new : k.id = i}]
  BY DEF Add, NewKeys
<1> HIDE DEF new
<1>4. /\ open = B
      /\ open_by_scope = [c \in Scopes |->
           {k \in B : c \in ScopesOf(findings[k].owner, k.id)}]
      /\ ids = [i \in Names |-> {k \in DOMAIN findings : k.id = i}]
  BY DEF IndexIsExact
<1>5. \A k \in DOMAIN findings \ T : k \in DOMAIN findings' /\ findings'[k] = findings[k]
  BY <1>2
<1>6. T \subseteq DOMAIN findings' /\ DOMAIN findings' = (DOMAIN findings \ T) \cup T
  BY <1>2
<1>7. open' = C
  <2>1. open' = (open \ T) \cup {k \in T : Blocking(findings'[k].row)}
    BY <1>3 DEF Reindex, Indexed
  <2> QED BY <1>4, <1>5, <1>6, <2>1
<1>8. open_by_scope' = [c \in Scopes |->
         {k \in C : c \in ScopesOf(findings'[k].owner, k.id)}]
  <2> DEFINE Of(c) == {k \in T : c \in ScopesOf(findings'[k].owner, k.id)}
  <2>1. open_by_scope' = [c \in Scopes |->
          (open_by_scope[c] \ Of(c)) \cup {k \in Of(c) : Blocking(findings'[k].row)}]
    BY <1>3 DEF Reindex, Indexed
  <2>2. ASSUME NEW c \in Scopes
        PROVE  (open_by_scope[c] \ Of(c)) \cup {k \in Of(c) : Blocking(findings'[k].row)}
                 = {k \in C : c \in ScopesOf(findings'[k].owner, k.id)}
    <3>1. open_by_scope[c] = {k \in B : c \in ScopesOf(findings[k].owner, k.id)}
      BY <1>4
    <3>2. ASSUME NEW k
          PROVE  k \in (open_by_scope[c] \ Of(c)) \cup {j \in Of(c) : Blocking(findings'[j].row)}
                   <=> k \in {j \in C : c \in ScopesOf(findings'[j].owner, j.id)}
      <4>1. CASE k \in T
        <5>1. k \in open_by_scope[c] => k \in Of(c)
          BY <1>2, <3>1, <4>1
        <5> QED BY <1>6, <4>1, <5>1
      <4>2. CASE k \notin T
        BY <1>5, <1>6, <3>1, <4>2
      <4> QED BY <4>1, <4>2
    <3> QED BY <3>2
  <2> QED BY <2>1, <2>2
<1>9. ids' = [i \in Names |-> {k \in DOMAIN findings' : k.id = i}]
  <2>1. \A i \in Names : ids[i] \cup {k \in new : k.id = i} = {k \in DOMAIN findings' : k.id = i}
    BY <1>2, <1>4
  <2> QED BY <1>3, <2>1
<1> QED BY <1>2, <1>7, <1>8, <1>9 DEF IndexIsExact

LEMMA IndexKept ==
  ASSUME KnownFindings, IndexIsExact, UNCHANGED <<reports, findings, open, open_by_scope, ids>>
  PROVE  KnownFindings' /\ IndexIsExact'
BY DEF KnownFindings, IndexIsExact

(* What the closure of a scope says of the findings.                        *)
LEMMA ClosureFacts ==
  ASSUME IndexIsExact', NEW scope \in Scopes, Closed(scope)
  PROVE  \A k \in DOMAIN findings' : Blocking(findings'[k].row) =>
           /\ scope # Milestone
           /\ findings'[k].owner # scope
           /\ Prefix[k.id[1]] # scope
<1>1. {k \in DOMAIN findings' :
         Blocking(findings'[k].row) /\ scope \in ScopesOf(findings'[k].owner, k.id)} = {}
  <2>1. open_by_scope'[scope] =
          {k \in {j \in DOMAIN findings' : Blocking(findings'[j].row)} :
             scope \in ScopesOf(findings'[k].owner, k.id)}
    BY DEF IndexIsExact
  <2> QED BY <2>1 DEF Closed
<1>2. None # scope
  BY FindingsAssumption
<1> QED BY <1>1, <1>2 DEF ScopesOf

-----------------------------------------------------------------------------
(* Every step *)

LEMMA FindingsInit == Init => FindingsInv
<1> SUFFICES ASSUME Init PROVE FindingsInv
  OBVIOUS
<1>1. findings = <<>> /\ DOMAIN findings = {} /\ reports = 0
  BY DEF Init
<1>2. KnownFindings
  BY <1>1 DEF KnownFindings
<1>3. IndexIsExact
  BY <1>1 DEF Init, IndexIsExact
<1>4. GateInv
  BY <1>1 DEF Init, GateInv, Steps, Scopes
<1> QED BY <1>2, <1>3, <1>4 DEF FindingsInv

LEMMA DecidedFacts ==
  ASSUME NEW verdict
  PROVE  /\ Decided(verdict) \in Steps \ {"done"}
         /\ Decided(verdict) = "passed" <=> verdict \in {"pass", "override"}
<1>1. CASE verdict \in {"pass", "override"}
  BY <1>1, Zenon DEF Decided, Steps
<1>2. CASE verdict = "needs_work"
  <2>1. verdict \notin {"pass", "override"}
    BY <1>2
  <2>2. Decided(verdict) = "issue"
    BY <1>2, <2>1, Zenon DEF Decided
  <2> QED BY <2>1, <2>2 DEF Steps
<1>3. CASE verdict \notin {"pass", "override"} /\ verdict # "needs_work"
  <2>1. Decided(verdict) = "blocked"
    BY <1>3, Zenon DEF Decided
  <2> QED BY <1>3, <2>1 DEF Steps
<1> QED BY <1>1, <1>2, <1>3

(* How the gate moves, with what passes below it.                           *)
LEMMA GateMoves ==
  ASSUME step \in [Scopes -> Steps], NEW report, MoveGate(report)
  PROVE  /\ step' \in [Scopes -> Steps]
         /\ step'[Milestone] = "passed" =>
              report.verdict \in {"pass", "override"} /\ \A s \in Slices : step'[s] = step[s]
         /\ step'[Milestone] # "done"
         /\ \A s \in Slices : step'[s] \in {"issue", step[s]}
<1>1. Milestone \in Scopes /\ Milestone \notin Slices /\ Slices \subseteq Scopes
  BY FindingsAssumption DEF Scopes
<1>2. PICK back \in SUBSET Slices, sent \in BOOLEAN :
        /\ sent <=> report.verdict = "needs_work"
        /\ step' = [c \in Scopes |->
             IF sent /\ c \in back THEN "issue"
             ELSE IF c # Milestone THEN step[c]
             ELSE IF sent THEN "review" ELSE Decided(report.verdict)]
  <2>1. {s \in Slices : NamesOf(OpenIn(report.findings), s) # {}} \in SUBSET Slices
    OBVIOUS
  <2> QED BY <2>1 DEF MoveGate
<1>3. Decided(report.verdict) \in Steps \ {"done"}
      /\ (Decided(report.verdict) = "passed" <=> report.verdict \in {"pass", "override"})
  BY DecidedFacts
<1>4. step' \in [Scopes -> Steps]
  BY <1>2, <1>3 DEF Steps
<1>5. step'[Milestone] = IF sent THEN "review" ELSE Decided(report.verdict)
  BY <1>1, <1>2
<1>6. \A s \in Slices : step'[s] = IF sent /\ s \in back THEN "issue" ELSE step[s]
  BY <1>1, <1>2
<1> QED BY <1>2, <1>3, <1>4, <1>5, <1>6

LEMMA FindingsStep == FindingsInv /\ [Next]_vars => FindingsInv'
<1> SUFFICES ASSUME FindingsInv, [Next]_vars PROVE FindingsInv'
  OBVIOUS
<1>0. /\ KnownFindings /\ IndexIsExact /\ GateInv
      /\ Milestone \in Scopes /\ Milestone \notin Slices /\ Slices \subseteq Scopes
  BY FindingsAssumption DEF FindingsInv, Scopes
<1>1. ASSUME UNCHANGED <<reports, findings, open, open_by_scope, ids, step>>
      PROVE  FindingsInv'
  <2>1. GateInv'
    BY <1>0, <1>1 DEF GateInv, NothingBlocks, Waiting
  <2> QED BY <1>0, <1>1, <2>1, IndexKept DEF FindingsInv
<1>2. ASSUME UNCHANGED <<reports, findings, open, open_by_scope, ids>>,
             NEW s \in Slices, NEW v \in Steps, step' = [step EXCEPT ![s] = v],
             v = "done" \/ step[s] # "done"
      PROVE  FindingsInv'
  <2>1. /\ step' \in [Scopes -> Steps] /\ step'[Milestone] = step[Milestone]
        /\ Waiting' \subseteq Waiting \cup {s}
        /\ v = "done" => Waiting' \subseteq Waiting
        /\ step[s] # "done" => s \in Waiting
    BY <1>0, <1>2 DEF GateInv, Waiting
  <2>2. GateInv'
    BY <1>0, <1>2, <2>1 DEF GateInv, NothingBlocks
  <2> QED BY <1>0, <1>2, <2>2, IndexKept DEF FindingsInv
<1>3. ASSUME NEW s \in Slices, Issue(s) PROVE FindingsInv'
  BY <1>2, <1>3 DEF Issue, projection, Steps
<1>4. ASSUME NEW s \in Slices, DecideSlice(s) PROVE FindingsInv'
  <2>1. KnownFindings' /\ IndexIsExact'
    BY <1>0, <1>4, AddKeepsIndex DEF DecideSlice
  <2>2. step[s] = "review" /\ step' = [step EXCEPT ![s] = Decided(MergedVerdict)]
    BY <1>4 DEF DecideSlice, MoveSlice
  <2>3. step' \in [Scopes -> Steps] /\ step'[Milestone] = step[Milestone] /\ s \in Waiting
    BY <1>0, <2>2, DecidedFacts DEF GateInv, Waiting
  <2>4. GateInv'
    BY <1>0, <2>3 DEF GateInv
  <2> QED BY <2>1, <2>4 DEF FindingsInv
<1>5. ASSUME NEW c \in Scopes, Retain(c) PROVE FindingsInv'
  BY <1>1, <1>5 DEF Retain, projection
<1>6. ASSUME NEW c \in Scopes, Approve(c) PROVE FindingsInv'
  <2>1. CASE c \in Slices
    BY <1>2, <1>6, <2>1 DEF Approve, projection, Steps
  <2>2. CASE c = Milestone
    <3>1. /\ step[Milestone] = "passed" /\ step' = [step EXCEPT ![Milestone] = "done"]
          /\ UNCHANGED <<reports, findings, open, open_by_scope, ids>>
      BY <1>6, <2>2 DEF Approve, projection
    <3>2. step' \in [Scopes -> Steps] /\ Waiting' = Waiting
      BY <1>0, <3>1 DEF GateInv, Waiting, Steps
    <3>3. GateInv'
      BY <1>0, <3>1, <3>2 DEF GateInv, NothingBlocks
    <3> QED BY <1>0, <3>1, <3>3, IndexKept DEF FindingsInv
  <2> QED BY <2>1, <2>2 DEF Scopes
<1>7. CASE FileGate
  <2>1. KnownFindings' /\ IndexIsExact'
    BY <1>0, <1>7, AddKeepsIndex DEF FileGate
  <2>2. GateInv'
    BY <1>0, <1>7 DEF FileGate, GateInv
  <2> QED BY <2>1, <2>2 DEF FindingsInv
<1>8. CASE DecideGate
  <2>1. /\ UNCHANGED <<reports, findings, open, open_by_scope, ids>>
        /\ MoveGate(retained[1]) /\ Waiting = {}
        /\ retained[1].verdict \in {"pass", "override"} => Closed(Milestone)
    BY <1>8 DEF DecideGate, Decide, Turn
  <2>2. KnownFindings' /\ IndexIsExact'
    BY <1>0, <2>1, IndexKept
  <2>3. /\ step' \in [Scopes -> Steps]
        /\ step'[Milestone] = "passed" =>
             retained[1].verdict \in {"pass", "override"} /\ \A s \in Slices : step'[s] = step[s]
        /\ step'[Milestone] # "done"
    BY <1>0, <2>1, GateMoves DEF GateInv
  <2>4. step'[Milestone] = "passed" => Waiting' = {} /\ NothingBlocks'
    BY <1>0, <2>1, <2>2, <2>3, ClosureFacts DEF Waiting, NothingBlocks
  <2> QED BY <2>2, <2>3, <2>4 DEF FindingsInv, GateInv
<1>9. ASSUME NEW c \in Scopes, Resolve(c) PROVE FindingsInv'
  <2>1. CASE c \in Slices
    <3>1. step' = [step EXCEPT ![c] = "issue"] /\ step[c] = "blocked"
          /\ UNCHANGED <<reports, findings, open, open_by_scope, ids>>
      BY <1>0, <1>9, <2>1 DEF Resolve, projection
    <3> QED BY <1>2, <2>1, <3>1 DEF Steps
  <2>2. CASE c = Milestone
    <3>1. step' = [step EXCEPT ![Milestone] = "review"]
          /\ UNCHANGED <<reports, findings, open, open_by_scope, ids>>
      BY <1>9, <2>2 DEF Resolve, projection
    <3>2. GateInv'
      BY <1>0, <3>1 DEF GateInv, Steps
    <3> QED BY <1>0, <3>1, <3>2, IndexKept DEF FindingsInv
  <2> QED BY <2>1, <2>2 DEF Scopes
<1> QED BY <1>1, <1>3, <1>4, <1>5, <1>6, <1>7, <1>8, <1>9
        DEF Next, Begin, Projecting, Reconcile, Replace, ReplaceFails, Crash, Stop, End, Working,
            People, CommitBacklog, Damage, Repair, Tidy, vars, projection, lifecycle

LEMMA FindingsInvariant == Spec => []FindingsInv
<1>1. Init => FindingsInv
  BY FindingsInit
<1>2. FindingsInv /\ [Next]_vars => FindingsInv'
  BY FindingsStep
<1> QED BY <1>1, <1>2, PTL DEF Spec

-----------------------------------------------------------------------------
(* Theorems *)

(* The index, by scope and by name, that each report updates in place is    *)
(* what a projection of all findings would say (Projection._index).         *)
THEOREM ProjectionIsExact == Spec => []IndexIsExact
<1>1. FindingsInv => IndexIsExact
  BY DEF FindingsInv
<1> QED BY <1>1, FindingsInvariant, PTL

(* A slice passes with nothing of its own and nothing named for it open,    *)
(* and a milestone is done with nothing open at all.                        *)
THEOREM PassIsClosed == Spec => PassLeavesNothingOpen
<1> DEFINE Leaves ==
      \A k \in DOMAIN findings' : Blocking(findings'[k].row) =>
        /\ \A s \in Slices : step[s] # "passed" /\ step'[s] = "passed" =>
             findings'[k].owner # s /\ Prefix[k.id[1]] # s
        /\ ~(step[Milestone] # "done" /\ step'[Milestone] = "done")
<1>1. FindingsInv /\ FindingsInv' /\ [Next]_vars => Leaves
  <2> SUFFICES ASSUME FindingsInv, FindingsInv', [Next]_vars,
                      NEW k \in DOMAIN findings', Blocking(findings'[k].row)
               PROVE  /\ \A s \in Slices : step[s] # "passed" /\ step'[s] = "passed" =>
                           findings'[k].owner # s /\ Prefix[k.id[1]] # s
                      /\ ~(step[Milestone] # "done" /\ step'[Milestone] = "done")
    OBVIOUS
  <2>0. /\ IndexIsExact' /\ step \in [Scopes -> Steps]
        /\ Milestone \in Scopes /\ Milestone \notin Slices /\ Slices \subseteq Scopes
    BY FindingsAssumption DEF FindingsInv, GateInv, Scopes
  <2>1. step'[Milestone] # "done"
    BY DEF FindingsInv, GateInv, NothingBlocks
  <2>2. ASSUME NEW s \in Slices, step[s] # "passed", step'[s] = "passed"
        PROVE  findings'[k].owner # s /\ Prefix[k.id[1]] # s
    <3>1. ASSUME NEW c \in Scopes, NEW v, v # "passed", step' = [step EXCEPT ![c] = v]
          PROVE  FALSE
      BY <2>0, <2>2, <3>1
    <3>2. ASSUME NEW c \in Slices, DecideSlice(c)
          PROVE  findings'[k].owner # s /\ Prefix[k.id[1]] # s
      <4>1. step' = [step EXCEPT ![c] = Decided(MergedVerdict)]
        BY <3>2 DEF DecideSlice, MoveSlice
      <4>2. c = s /\ Decided(MergedVerdict) = "passed"
        BY <2>0, <2>2, <4>1
      <4>3. MergedVerdict \in {"pass", "override"}
        BY <4>2, DecidedFacts
      <4>4. Closed(s)
        BY <3>2, <4>2, <4>3 DEF DecideSlice, Decide, Combined
      <4> QED BY <2>0, <4>4, ClosureFacts
    <3>3. ~DecideGate
      BY <2>0, <2>2, GateMoves DEF DecideGate
    <3>4. \A c \in Slices : ~Issue(c)
      BY <2>0, <3>1 DEF Issue
    <3>5. \A c \in Scopes : ~Approve(c)
      BY <3>1 DEF Approve
    <3>6. \A c \in Scopes : ~Resolve(c)
      <4> SUFFICES ASSUME NEW c \in Scopes, Resolve(c) PROVE FALSE
        OBVIOUS
      <4>1. step' = [step EXCEPT ![c] = "review"] \/ step' = [step EXCEPT ![c] = "issue"]
        BY Zenon DEF Resolve
      <4> QED BY <3>1, <4>1
    <3>7. step' # step
      BY <2>2
    <3> QED BY <3>2, <3>3, <3>4, <3>5, <3>6, <3>7
            DEF Next, Begin, Projecting, Reconcile, Replace, ReplaceFails, Crash, Stop, End,
                Working, Retain, FileGate, People, CommitBacklog, Damage, Repair, Tidy, vars,
                lifecycle
  <2> QED BY <2>1, <2>2
<1> HIDE DEF Leaves
<1>2. FindingsInv /\ FindingsInv' /\ [Next]_vars => [Leaves]_vars
  BY <1>1
<1>3. Spec => [][Leaves]_vars
  BY <1>2, FindingsInvariant, PTL DEF Spec
<1> QED BY <1>3 DEF PassLeavesNothingOpen, Leaves

-----------------------------------------------------------------------------
(* The reports of several seats *)

(* What waits for a decision was asked of the scope whose turn it is, and   *)
(* names are those of seats.                                                *)
RetainedInv ==
  retained # <<>> =>
    \E c \in Scopes :
      /\ Turn(c) /\ step[c] = "review"
      /\ DOMAIN retained = Asked(c)
      /\ \A n \in DOMAIN retained : \E said \in Said : retained[n].findings = said.findings

(* What the seats of a slice gave, with who gave it.                        *)
Given == UNION {{<<n, i>> : i \in DOMAIN retained[n].findings} : n \in DOMAIN retained}

LEMMA OneTurn ==
  ASSUME NEW c \in Scopes, NEW d \in Scopes, Turn(c), Turn(d)
  PROVE  c = d
<1>1. \A s, t \in Slices : s \in Waiting /\ t \in Waiting /\ Position[s] <= Position[t]
        /\ Position[t] <= Position[s] => s = t
  BY FindingsAssumption
<1> QED BY <1>1, FindingsAssumption DEF Turn, Waiting, Scopes

LEMMA RetainedStep == RetainedInv /\ FindingsInv /\ [Next]_vars => RetainedInv'
<1> SUFFICES ASSUME RetainedInv, FindingsInv, [Next]_vars PROVE RetainedInv'
  OBVIOUS
<1>0. step \in [Scopes -> Steps] /\ Slices \subseteq Scopes /\ Milestone \in Scopes
      /\ Milestone \notin Slices
  BY FindingsAssumption DEF FindingsInv, GateInv, Scopes
<1>1. ASSUME UNCHANGED <<step, retained>>
      PROVE  RetainedInv'
  BY <1>1 DEF RetainedInv, Turn, Waiting, Asked
<1>2. ASSUME NEW d \in Scopes, NEW v \in Steps, step' = [step EXCEPT ![d] = v],
             UNCHANGED retained, step[d] # "review",
             v = "done" => Turn(d), v # "done" => step[d] # "done"
      PROVE  RetainedInv'
  <2> SUFFICES ASSUME retained # <<>> PROVE RetainedInv'
    BY <1>2 DEF RetainedInv
  <2>1. PICK c \in Scopes :
          /\ Turn(c) /\ step[c] = "review"
          /\ DOMAIN retained = Asked(c)
          /\ \A n \in DOMAIN retained : \E said \in Said : retained[n].findings = said.findings
    BY DEF RetainedInv
  <2>2. c # d /\ v # "done"
    BY <1>2, <2>1, OneTurn
  <2>3. step'[c] = "review" /\ Waiting' = Waiting
    BY <1>0, <1>2, <2>1, <2>2 DEF Waiting
  <2>4. Turn(c)'
    BY <2>1, <2>3 DEF Turn
  <2> QED BY <1>2, <2>1, <2>3, <2>4 DEF RetainedInv, Asked
<1>3. ASSUME retained' = <<>> PROVE RetainedInv'
  BY <1>3 DEF RetainedInv
<1>4. ASSUME NEW s \in Slices, Issue(s) PROVE RetainedInv'
  BY <1>0, <1>2, <1>4 DEF Issue, Steps
<1>5. ASSUME NEW c \in Scopes, Approve(c) PROVE RetainedInv'
  BY <1>0, <1>2, <1>5 DEF Approve, Steps
<1>6. ASSUME NEW c \in Scopes, Resolve(c) PROVE RetainedInv'
  <2>1. PICK v \in {"review", "issue"} : step' = [step EXCEPT ![c] = v]
    BY <1>6 DEF Resolve
  <2> QED BY <1>0, <1>2, <1>6, <2>1 DEF Resolve, Steps
<1>7. ASSUME NEW c \in Scopes, Retain(c) PROVE RetainedInv'
  <2>1. /\ retained' \in [Asked(c) -> Says(c, Said, Seen)]
        /\ Turn(c) /\ step[c] = "review" /\ step' = step
    BY <1>7 DEF Retain
  <2>2. ASSUME NEW report \in Says(c, Said, Seen)
        PROVE  \E said \in Said : report.findings = said.findings
    BY <2>2 DEF Says
  <2>3. Turn(c)' /\ step'[c] = "review" /\ Asked(c)' = Asked(c)
    BY <2>1 DEF Turn, Waiting, Asked
  <2> QED BY <2>1, <2>2, <2>3 DEF RetainedInv
<1> QED BY <1>1, <1>3, <1>4, <1>5, <1>6, <1>7
        DEF Next, Begin, Projecting, Reconcile, Replace, ReplaceFails, Crash, Stop, End, Working,
            DecideSlice, FileGate, DecideGate, Concluded,
            People, CommitBacklog, Damage, Repair, Tidy, vars, lifecycle

LEMMA RetainedHolds == Spec => [](FindingsInv /\ RetainedInv)
<1>1. Init => RetainedInv
  BY DEF Init, RetainedInv
<1>2. FindingsInv /\ RetainedInv /\ [Next]_vars => RetainedInv'
  BY RetainedStep
<1> QED BY <1>1, <1>2, FindingsInvariant, PTL DEF Spec

LEMMA MergedShape ==
  ASSUME NEW s
  PROVE  /\ DOMAIN MergedFindings(s) = {NameOf(s, g[1], g[2]) : g \in Given}
         /\ \A name \in {NameOf(s, g[1], g[2]) : g \in Given} :
              MergedFindings(s)[name] =
                Strictest({retained[g[1]].findings[g[2]] :
                             g \in {h \in Given : NameOf(s, h[1], h[2]) = name}})
BY Zenon DEF MergedFindings, Given

LEMMA Suffixed ==
  ASSUME NEW s, NEW n, NEW b
  PROVE  /\ NameOf(s, n, <<b>>)[1] = b
         /\ <<b>> \in Shared(s) =>
              Len(NameOf(s, n, <<b>>)) = 2 /\ NameOf(s, n, <<b>>)[2] = Route[s][n]
         /\ <<b>> \notin Shared(s) =>
              Len(NameOf(s, n, <<b>>)) = 1 /\ NameOf(s, n, <<b>>) = <<b>>
<1>1. PICK seat : seat = Route[s][n]
  OBVIOUS
<1>2. /\ Len(<<b>>) = 1 /\ <<b>>[1] = b
      /\ Len(Append(<<b>>, seat)) = 2
      /\ Append(<<b>>, seat)[1] = b /\ Append(<<b>>, seat)[2] = seat
  OBVIOUS
<1>3. NameOf(s, n, <<b>>) = IF <<b>> \in Shared(s) THEN Append(<<b>>, seat) ELSE <<b>>
  BY <1>1 DEF NameOf
<1>4. CASE <<b>> \in Shared(s)
  BY <1>1, <1>2, <1>3, <1>4, Zenon
<1>5. CASE <<b>> \notin Shared(s)
  BY <1>2, <1>3, <1>5, Zenon
<1> QED BY <1>4, <1>5

(* Findings keep apart what seats gave them as: no two are merged.          *)
LEMMA NamesApart ==
  ASSUME IndexIsExact, NEW s \in Slices, DOMAIN retained = DOMAIN Route[s],
         \A n \in DOMAIN retained : \E said \in Said : retained[n].findings = said.findings,
         Unknown(DOMAIN MergedFindings(s)),
         NEW n \in DOMAIN retained, NEW i \in DOMAIN retained[n].findings,
         NEW m \in DOMAIN retained, NEW j \in DOMAIN retained[m].findings,
         NameOf(s, n, i) = NameOf(s, m, j)
  PROVE  n = m /\ i = j
<1>1. PICK b \in Base : i = <<b>>
  BY ReportAssumption
<1>2. PICK d \in Base : j = <<d>>
  BY ReportAssumption
<1>3. i \in Names /\ j \in Names
  BY <1>1, <1>2 DEF Names
<1>6. /\ NameOf(s, n, i)[1] = b
      /\ i \in Shared(s) => Len(NameOf(s, n, i)) = 2 /\ NameOf(s, n, i)[2] = Route[s][n]
      /\ i \notin Shared(s) => Len(NameOf(s, n, i)) = 1 /\ NameOf(s, n, i) = i
  BY <1>1, Suffixed
<1>9. /\ NameOf(s, m, j)[1] = d
      /\ j \in Shared(s) => Len(NameOf(s, m, j)) = 2 /\ NameOf(s, m, j)[2] = Route[s][m]
      /\ j \notin Shared(s) => Len(NameOf(s, m, j)) = 1 /\ NameOf(s, m, j) = j
  BY <1>2, Suffixed
<1>7. CASE i \in Shared(s)
  <2>1. b = d /\ Route[s][n] = Route[s][m]
    BY <1>6, <1>7, <1>9
  <2> QED BY <1>1, <1>2, <2>1, ReportAssumption
<1>8. CASE i \notin Shared(s)
  <2>1. i = j
    BY <1>6, <1>8, <1>9
  <2> SUFFICES ASSUME n # m PROVE FALSE
    BY <2>1
  <2>2. IsFiniteSet(Listing(i)) /\ n \in Listing(i) /\ m \in Listing(i)
    <3>1. IsFiniteSet(DOMAIN retained)
      BY ReportAssumption
    <3> QED BY <2>1, <3>1, FS_Subset DEF Listing
  <2>3. Cardinality(Listing(i)) > 1
    <3>1. Cardinality(Listing(i)) \in Nat
      BY <2>2, FS_CardinalityType
    <3>2. Cardinality(Listing(i)) # 0
      BY <2>2, FS_EmptySet
    <3>3. Cardinality(Listing(i)) # 1
      <4>1. Cardinality(Listing(i)) = 1 => \E x : Listing(i) = {x}
        BY <2>2, FS_Singleton
      <4> QED BY <2>2, <4>1
    <3> QED BY <3>1, <3>2, <3>3
  <2>4. i \in Prior(s)
    BY <1>3, <1>8, <2>3 DEF Shared
  <2>5. PICK k \in DOMAIN findings : k.id = i
    BY <2>4 DEF Prior
  <2>6. ids[i] # {}
    <3>1. ids = [e \in Names |-> {l \in DOMAIN findings : l.id = e}]
      BY DEF IndexIsExact
    <3> QED BY <1>3, <2>5, <3>1
  <2>7. i \in DOMAIN MergedFindings(s)
    <3>1. NameOf(s, n, i) = i
      BY <1>8 DEF NameOf
    <3>2. i \in {NameOf(s, g[1], g[2]) : g \in Given}
      <4>1. <<n, i>> \in Given
        BY DEF Given
      <4>2. <<n, i>>[1] = n /\ <<n, i>>[2] = i
        OBVIOUS
      <4> QED BY <3>1, <4>1, <4>2, Zenon
    <3> QED BY <3>2, MergedShape
  <2> QED BY <2>6, <2>7 DEF Unknown
<1> QED BY <1>7, <1>8

(* So each of them is in the merged report as the seat gave it.             *)
LEMMA MergedAsGiven ==
  ASSUME IndexIsExact, NEW s \in Slices, DOMAIN retained = DOMAIN Route[s],
         \A n \in DOMAIN retained : \E said \in Said : retained[n].findings = said.findings,
         Unknown(DOMAIN MergedFindings(s))
  PROVE  /\ DOMAIN MergedFindings(s) = {NameOf(s, g[1], g[2]) : g \in Given}
         /\ \A g \in Given : MergedFindings(s)[NameOf(s, g[1], g[2])] = retained[g[1]].findings[g[2]]
         /\ \A g, h \in Given : NameOf(s, g[1], g[2]) = NameOf(s, h[1], h[2]) => g = h
<1>1. \A g \in Given : /\ g = <<g[1], g[2]>> /\ g[1] \in DOMAIN retained
                       /\ g[2] \in DOMAIN retained[g[1]].findings
  BY DEF Given
<1>2. \A g, h \in Given : NameOf(s, g[1], g[2]) = NameOf(s, h[1], h[2]) => g = h
  <2> SUFFICES ASSUME NEW g \in Given, NEW h \in Given,
                      NameOf(s, g[1], g[2]) = NameOf(s, h[1], h[2])
               PROVE  g = h
    OBVIOUS
  <2>1. g[1] = h[1] /\ g[2] = h[2]
    BY <1>1, NamesApart
  <2> QED BY <1>1, <2>1
<1>3. /\ DOMAIN MergedFindings(s) = {NameOf(s, g[1], g[2]) : g \in Given}
      /\ \A name \in {NameOf(s, g[1], g[2]) : g \in Given} :
           MergedFindings(s)[name] =
             Strictest({retained[g[1]].findings[g[2]] :
                          g \in {h \in Given : NameOf(s, h[1], h[2]) = name}})
  BY MergedShape
<1>4. ASSUME NEW g \in Given
      PROVE  MergedFindings(s)[NameOf(s, g[1], g[2])] = retained[g[1]].findings[g[2]]
  <2>1. {h \in Given : NameOf(s, h[1], h[2]) = NameOf(s, g[1], g[2])} = {g}
    BY <1>2
  <2>2. {retained[h[1]].findings[h[2]] : h \in {g}} = {retained[g[1]].findings[g[2]]}
    OBVIOUS
  <2>3. MergedFindings(s)[NameOf(s, g[1], g[2])] = Strictest({retained[g[1]].findings[g[2]]})
    <3>1. NameOf(s, g[1], g[2]) \in {NameOf(s, h[1], h[2]) : h \in Given}
      OBVIOUS
    <3>2. MergedFindings(s)[NameOf(s, g[1], g[2])] =
            Strictest({retained[f[1]].findings[f[2]] :
                         f \in {h \in Given : NameOf(s, h[1], h[2]) = NameOf(s, g[1], g[2])}})
      BY <1>3, <3>1, Zenon
    <3> QED BY <2>1, <2>2, <3>2, Zenon
  <2>4. ASSUME NEW row PROVE Strictest({row}) = row
    BY DEF Strictest
  <2> QED BY <2>3, <2>4
<1> QED BY <1>2, <1>3, <1>4

LEMMA GivenIsFinite ==
  ASSUME NEW s \in Slices, DOMAIN retained = DOMAIN Route[s],
         \A n \in DOMAIN retained : \E said \in Said : retained[n].findings = said.findings
  PROVE  IsFiniteSet(Given)
<1> DEFINE by(n) == {<<n, i>> : i \in DOMAIN retained[n].findings}
           all   == {by(n) : n \in DOMAIN retained}
<1>1. IsFiniteSet(DOMAIN retained)
  BY ReportAssumption
<1>2. ASSUME NEW n \in DOMAIN retained
      PROVE  IsFiniteSet(by(n))
  <2> DEFINE names == DOMAIN retained[n].findings
             f     == [i \in names |-> <<n, i>>]
  <2>1. IsFiniteSet(names)
    BY ReportAssumption
  <2>2. f \in Surjection(names, by(n))
    BY DEF Surjection
  <2> QED BY <2>1, <2>2, FS_Surjection
<1>3. IsFiniteSet(all)
  <2> DEFINE f == [n \in DOMAIN retained |-> by(n)]
  <2> HIDE DEF by
  <2>1. f \in Surjection(DOMAIN retained, all)
    BY DEF Surjection
  <2> QED BY <1>1, <2>1, FS_Surjection
<1>4. \A K \in all : IsFiniteSet(K)
  BY <1>2
<1>5. Given = UNION all
  BY DEF Given
<1> HIDE DEF all
<1> QED BY <1>3, <1>4, <1>5, FS_UNION

LEMMA Counted ==
  ASSUME FindingsInv, RetainedInv, NEW s \in Slices, DecideSlice(s)
  PROVE  Cardinality({k \in open' : k.source = reports'})
           = Cardinality(UNION {{<<n, i>> : i \in OpenIn(retained[n].findings)} :
                                  n \in DOMAIN retained})
<1> DEFINE told == {g \in Given : Blocking(retained[g[1]].findings[g[2]])}
           kept == {k \in open' : k.source = reports'}
           name(g) == NameOf(s, g[1], g[2])
           f    == [g \in told |-> [source |-> reports + 1, id |-> name(g)]]
<1>1. /\ DOMAIN retained = DOMAIN Route[s]
      /\ \A n \in DOMAIN retained : \E said \in Said : retained[n].findings = said.findings
  <2>1. PICK c \in Scopes :
          /\ Turn(c) /\ DOMAIN retained = Asked(c)
          /\ \A n \in DOMAIN retained : \E said \in Said : retained[n].findings = said.findings
    BY DEF RetainedInv, DecideSlice
  <2>2. s \in Scopes /\ Turn(s) /\ s # Milestone
    BY FindingsAssumption DEF DecideSlice, Scopes
  <2>3. c = s
    BY <2>1, <2>2, OneTurn
  <2> QED BY <2>1, <2>2, <2>3 DEF Asked
<1>2. KnownFindings /\ IndexIsExact /\ Add(s, Combined(s))
  BY DEF FindingsInv, DecideSlice
<1>3. Combined(s).findings = MergedFindings(s)
  BY DEF Combined
<1>4. Unknown(DOMAIN MergedFindings(s))
  BY <1>2, <1>3 DEF Add
<1>5. /\ DOMAIN MergedFindings(s) = {name(g) : g \in Given}
      /\ \A g \in Given : MergedFindings(s)[name(g)] = retained[g[1]].findings[g[2]]
      /\ \A g, h \in Given : name(g) = name(h) => g = h
  BY <1>1, <1>2, <1>4, MergedAsGiven
<1>6. /\ reports' = reports + 1 /\ reports \in Nat
      /\ DOMAIN findings' = DOMAIN findings \cup NewKeys(Combined(s))
      /\ \A k \in DOMAIN findings : k.source \in Nat /\ k.source <= reports
      /\ \A k \in NewKeys(Combined(s)) :
           /\ k.source = reports + 1
           /\ findings'[k] = [row |-> Combined(s).findings[k.id], owner |-> s]
  <2>1. reports' = reports + 1
    BY <1>2 DEF Add
  <2>2. reports \in Nat /\ \A k \in DOMAIN findings : k.source \in Nat /\ k.source <= reports
    BY <1>2 DEF KnownFindings
  <2> QED BY <1>2, <2>1, <2>2, AddFacts
<1>7. open' = {k \in DOMAIN findings' : Blocking(findings'[k].row)}
  BY <1>2, AddKeepsIndex DEF IndexIsExact
<1>8. kept = {k \in NewKeys(Combined(s)) : Blocking(MergedFindings(s)[k.id])}
  <2>1. \A k \in NewKeys(Combined(s)) : findings'[k].row = MergedFindings(s)[k.id]
    BY <1>3, <1>6
  <2> QED BY <1>6, <1>7, <2>1
<1>9. NewKeys(Combined(s)) = {[source |-> reports + 1, id |-> name(g)] : g \in Given}
  BY <1>3, <1>5 DEF NewKeys
<1> HIDE DEF name
<1>10. f \in Bijection(told, kept)
  <2>1. \A g \in told : f[g] = [source |-> reports + 1, id |-> name(g)]
                        /\ f[g].id = name(g)
    OBVIOUS
  <2>2. \A g \in told : f[g] \in kept
    BY <1>5, <1>8, <1>9, <2>1
  <2>3. \A g, h \in told : f[g] = f[h] => g = h
    BY <1>5, <2>1
  <2>4. ASSUME NEW k \in kept PROVE \E g \in told : f[g] = k
    <3>1. PICK g \in Given : k = [source |-> reports + 1, id |-> name(g)]
      BY <1>8, <1>9
    <3>2. Blocking(MergedFindings(s)[name(g)])
      BY <1>8, <3>1
    <3>3. g \in told
      BY <1>5, <3>2
    <3> QED BY <2>1, <3>1, <3>3
  <2> HIDE DEF f, told, kept
  <2>5. f \in [told -> kept]
    BY <2>2 DEF f
  <2> QED BY <2>3, <2>4, <2>5 DEF Bijection, Injection, Surjection, IsInjective
<1>11. IsFiniteSet(told)
  BY <1>1, GivenIsFinite, FS_Subset
<1>12. UNION {{<<n, i>> : i \in OpenIn(retained[n].findings)} : n \in DOMAIN retained} = told
  BY DEF Given, OpenIn
<1> HIDE DEF f, told, kept
<1>13. Cardinality(kept) = Cardinality(told)
  BY <1>10, <1>11, FS_Bijection DEF ExistsBijection
<1> QED BY <1>12, <1>13 DEF kept

(* Every blocking finding of every seat counts as one of its own in the     *)
(* merged report, whatever names the seats chose (combined_review).         *)
THEOREM MergeLosesNothing == Spec => EveryFindingCounts
<1> DEFINE Counts ==
      \A s \in Slices : DecideSlice(s) =>
        Cardinality({k \in open' : k.source = reports'})
          = Cardinality(UNION {{<<n, i>> : i \in OpenIn(retained[n].findings)} :
                                 n \in DOMAIN retained})
<1>1. FindingsInv /\ RetainedInv /\ [Next]_vars => [Counts]_vars
  BY Counted
<1> QED BY <1>1, RetainedHolds, PTL DEF Spec, EveryFindingCounts
=============================================================================
