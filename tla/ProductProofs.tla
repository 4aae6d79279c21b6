--------------------------- MODULE ProductProofs ---------------------------
(* Proofs about the product: an approval commits what was tested and        *)
(* reviewed but for what is written before it is read again, reviewers see  *)
(* every change, what others wrote is left alone but for what is written    *)
(* before a call is witnessed, and the runner's own work never bars its way.*)
EXTENDS Product, TLAPS

Rows     == [kind : {"added", "modified"}, sha : Contents]
              \cup [kind : {"deleted"}, sha : Contents \cup {Absent}]
RowMaps  == UNION {[P -> Rows] : P \in SUBSET Paths}
Payloads == UNION {[P -> Contents \cup {Absent}] : P \in SUBSET Paths}
Steps    == {"issue", "coding", "started", "verifying", "reviewing", "pending",
             "blocked", "accepted"}
Works    ==
  [at : {"none"}]
    \cup [at : {"starting", "checked"}, scope : Slices, retry : BOOLEAN]
    \cup [at : {"called"}, scope : Slices, retry : BOOLEAN, seen : Files \X Files]
    \cup [at : {"returned"}, scope : Slices, seen : Files \X Files]
    \cup [at : {"observed"}, scope : Slices, seen : Files \X Files, changed : RowMaps]
    \cup [at : {"testing"}, scope : Slices]
    \cup [at : {"compared"}, scope : Scopes]
    \cup [at : {"captured", "approved"}, scope : Scopes, parent : Files, payload : Payloads]

Typed ==
  /\ disk \in Files /\ head \in Files /\ tested \in Files \X Files
  /\ recorded \in RowMaps /\ latest \in RowMaps
  /\ claims \in [Slices -> RowMaps] /\ baseline \in [Slices -> RowMaps]
  /\ step \in [Scopes -> Steps]
  /\ work \in Works
  /\ theirs \subseteq Paths /\ found \subseteq Paths \X Rows
  /\ unchecked \subseteq Paths /\ uncompared \subseteq Paths
  /\ edits \in Nat /\ bare \in BOOLEAN

(* Only the scope whose turn it is can be past its prompt.  While the commit *)
(* of an approval is pending none is, and the next turn is not before it.   *)
AtWork(s) == step[s] \notin {"issue", "accepted"}

TurnInv ==
  /\ \A s \in Scopes : AtWork(s) => Turn(s)
  /\ work.at \in {"starting", "checked", "called", "returned", "observed"} =>
       step[work.scope] = "started"
  /\ work.at = "testing" => step[work.scope] = "verifying"
  /\ work.at \in {"compared", "captured"} => step[work.scope] = "pending"
  /\ work.at = "approved" =>
       /\ step[work.scope] = "accepted"
       /\ \A t \in Scopes : ~AtWork(t)
       /\ \A t \in Waiting : Position[work.scope] <= Position[t]

(* Each recorded row is a current claim, or a prompt was the first with it. *)
Claims(s, p, row) == p \in DOMAIN claims[s] /\ claims[s][p] = row

SourceInv ==
  \A p \in DOMAIN recorded :
    \/ \E t \in Slices : Claims(t, p, recorded[p])
    \/ <<p, recorded[p]>> \in found

(* What a slice claims is what was tested while it waits for its approval   *)
(* and for the commit of it.                                                *)
Awaits(s) == step[s] = "pending" \/ (work.at = "approved" /\ work.scope = s)

ReviewedInv ==
  \A s \in Slices : Awaits(s) =>
    \A p \in DOMAIN claims[s] : tested[1][p] = Says(claims[s][p])

(* Compared, the product is what its rows say; captured, the payload is.    *)
ComparedInv ==
  /\ work.at = "compared" =>
       \A p \in DOMAIN ProductOf(work.scope) \ uncompared :
         Describes(ProductOf(work.scope)[p], p)
  /\ work.at \in {"captured", "approved"} =>
       \A p \in DOMAIN work.payload :
         /\ p \in DOMAIN ProductOf(work.scope)
         /\ p \in uncompared \/ work.payload[p] = Says(ProductOf(work.scope)[p])

(* A path that is no fresh change of the slice.                             *)
Stood(s, p) ==
  \/ disk[p] = head[p]
  \/ p \in DOMAIN baseline[s] /\ baseline[s][p] = Row(p)

(* From the prompt of a slice until its coder has returned.                 *)
Prompted(s) ==
  \/ step[s] = "coding"
  \/ work.at \in {"starting", "checked", "called"} /\ work.scope = s

TheirsInv ==
  /\ theirs \cap Claimed \subseteq unchecked
  /\ \A s \in Slices : Prompted(s) =>
       \A p \in theirs \ Claimed : Recorded(p, Row(p)) => Stood(s, p)
  /\ work.at \in {"checked", "called"} =>
       \A p \in theirs \ unchecked : Stood(work.scope, p)
  /\ work.at = "returned" =>
       \A p \in theirs \ unchecked : disk[p] = work.seen[1][p] => Stood(work.scope, p)
  /\ work.at = "observed" =>
       \A p \in (theirs \ unchecked) \cap DOMAIN work.changed : disk[p] # work.seen[1][p]

(* Undisturbed, each change is the last recorded row and a claim of the     *)
(* slice at work, and the last row of each claimed path is what is there.   *)
Owner(s) == IF work.at = "approved" THEN work.scope = s ELSE Turn(s)

Accounted ==
  \A p \in Paths : disk[p] # head[p] =>
    Recorded(p, Row(p)) /\ \E s \in Slices : Owner(s) /\ Claims(s, p, Row(p))

IsCurrent(p) == p \in DOMAIN latest /\ Describes(latest[p], p)

AtRest ==
  \/ work.at \in {"starting", "checked", "called"}
  \/ \A s \in Slices : step[s] # "started"

BaselineInv ==
  \A s \in Slices : \A p \in DOMAIN baseline[s] :
    /\ step[s] \in {"coding", "started"} => Claims(s, p, baseline[s][p])
    /\ Prompted(s) => Describes(baseline[s][p], p)

(* Once the coder is back only a commit of others can come in between, and  *)
(* the round is then not recorded.                                          *)
HeadIsSeen == head = work.seen[2]

Touched(s, p) ==
  \/ disk[p] # head[p] /\ ~Stood(s, p)
  \/ p \in DOMAIN claims[s] /\ disk[p] # Says(claims[s][p])

RoundInv ==
  /\ work.at \in {"returned", "observed"} =>
       /\ disk = work.seen[1]
       /\ \A p \in Paths : head[p] = work.seen[2][p] \/ head[p] = disk[p]
       /\ HeadIsSeen =>
            \A p \in Claimed :
              p \in DOMAIN latest /\ (IsCurrent(p) \/ Touched(work.scope, p))
  /\ work.at = "observed" /\ HeadIsSeen =>
       \A p \in Paths :
         /\ p \in DOMAIN work.changed <=> Touched(work.scope, p)
         /\ p \in DOMAIN work.changed => Describes(work.changed[p], p)
         /\ disk[p] # head[p] /\ ~Stood(work.scope, p) => work.changed[p] = Row(p)

(* A path that is not in the payload is as the parent has it.               *)
PayloadInv ==
  work.at \in {"captured", "approved"} =>
    \A p \in DOMAIN ProductOf(work.scope) \ DOMAIN work.payload :
      disk[p] = work.parent[p]

AccountBody ==
  /\ found = {}
  /\ AtRest => Accounted /\ \A p \in Claimed : IsCurrent(p)
  /\ BaselineInv
  /\ RoundInv
  /\ PayloadInv

AccountInv == Undisturbed => AccountBody

USE DEF Idle, NoWork, Undisturbed

-----------------------------------------------------------------------------
(* Rows *)

(* A map of rows is a function from paths to rows.                          *)
LEMMA RowMapsAreMaps ==
  ASSUME NEW f, f = [p \in DOMAIN f |-> f[p]]
  PROVE  f \in RowMaps <=> DOMAIN f \subseteq Paths /\ \A p \in DOMAIN f : f[p] \in Rows
<1>1. ASSUME f \in RowMaps
      PROVE  DOMAIN f \subseteq Paths /\ \A p \in DOMAIN f : f[p] \in Rows
  <2>1. PICK P \in SUBSET Paths : f \in [P -> Rows]
    BY <1>1 DEF RowMaps
  <2> QED BY <2>1
<1>2. ASSUME DOMAIN f \subseteq Paths, \A p \in DOMAIN f : f[p] \in Rows
      PROVE  f \in RowMaps
  <2>1. f \in [DOMAIN f -> Rows]
    BY <1>2
  <2> QED BY <2>1, <1>2 DEF RowMaps
<1> QED BY <1>1, <1>2

LEMMA RowMapFacts ==
  ASSUME NEW f \in RowMaps
  PROVE  /\ DOMAIN f \subseteq Paths
         /\ f = [p \in DOMAIN f |-> f[p]]
         /\ \A p \in DOMAIN f : f[p] \in Rows
<1>1. PICK P \in SUBSET Paths : f \in [P -> Rows]
  BY DEF RowMaps
<1> QED BY <1>1

(* The rows of one map before those of another.                             *)
LEMMA OverFacts ==
  ASSUME NEW f \in RowMaps, NEW g \in RowMaps
  PROVE  /\ Over(f, g) \in RowMaps
         /\ DOMAIN Over(f, g) = DOMAIN f \cup DOMAIN g
         /\ \A p \in DOMAIN f : Over(f, g)[p] = f[p]
         /\ \A p \in DOMAIN g \ DOMAIN f : Over(f, g)[p] = g[p]
<1>1. Over(f, g) = [p \in DOMAIN f \cup DOMAIN g |-> IF p \in DOMAIN f THEN f[p] ELSE g[p]]
  BY DEF Over
<1>2. /\ DOMAIN f \subseteq Paths /\ \A p \in DOMAIN f : f[p] \in Rows
      /\ DOMAIN g \subseteq Paths /\ \A p \in DOMAIN g : g[p] \in Rows
  BY RowMapFacts
<1>3. /\ DOMAIN Over(f, g) = DOMAIN f \cup DOMAIN g
      /\ \A p \in DOMAIN f : Over(f, g)[p] = f[p]
      /\ \A p \in DOMAIN g \ DOMAIN f : Over(f, g)[p] = g[p]
  BY <1>1
<1>4. Over(f, g) \in [DOMAIN f \cup DOMAIN g -> Rows]
  BY <1>1, <1>2
<1> QED BY <1>2, <1>3, <1>4 DEF RowMaps

LEMMA NoRows == <<>> \in RowMaps /\ DOMAIN <<>> = {}
<1>1. <<>> \in [{} -> Rows] /\ DOMAIN <<>> = {}
  OBVIOUS
<1> QED BY <1>1 DEF RowMaps

(* A row says what its file holds.                                          *)
LEMMA RowSays ==
  ASSUME NEW was \in Contents \cup {Absent}, NEW is \in Contents \cup {Absent}
  PROVE  RowOf(was, is) \in Rows /\ Says(RowOf(was, is)) = is
<1>1. CASE is = Absent
  <2>1. RowOf(was, is) = [kind |-> "deleted", sha |-> was]
    BY <1>1, Zenon DEF RowOf
  <2> QED BY <2>1, <1>1 DEF Rows, Says
<1>2. CASE is # Absent /\ was = Absent
  <2>1. RowOf(was, is) = [kind |-> "added", sha |-> is]
    BY <1>2, Zenon DEF RowOf
  <2> QED BY <2>1, <1>2 DEF Rows, Says
<1>3. CASE is # Absent /\ was # Absent
  <2>1. RowOf(was, is) = [kind |-> "modified", sha |-> is]
    BY <1>3, Zenon DEF RowOf
  <2> QED BY <2>1, <1>3 DEF Rows, Says
<1> QED BY <1>1, <1>2, <1>3

LEMMA DescribesWhatItSays ==
  ASSUME NEW row, NEW p
  PROVE  Describes(row, p) <=> disk[p] = Says(row)
BY DEF Describes

LEMMA ChangesFacts ==
  ASSUME disk \in Files, head \in Files
  PROVE  /\ Changes \in RowMaps
         /\ DOMAIN Changes = {p \in Paths : disk[p] # head[p]}
         /\ \A p \in DOMAIN Changes : Changes[p] = Row(p)
         /\ \A p \in Paths : Row(p) \in Rows /\ Says(Row(p)) = disk[p]
<1>1. \A p \in Paths : Row(p) \in Rows /\ Says(Row(p)) = disk[p]
  BY RowSays DEF Row, Files
<1>2. /\ DOMAIN Changes = {p \in Paths : disk[p] # head[p]}
      /\ \A p \in DOMAIN Changes : Changes[p] = Row(p)
      /\ Changes = [p \in DOMAIN Changes |-> Changes[p]]
  BY DEF Changes
<1>3. Changes \in RowMaps
  BY <1>1, <1>2, RowMapsAreMaps
<1> QED BY <1>1, <1>2, <1>3

LEMMA CleanFacts ==
  ASSUME disk \in Files, head \in Files
  PROVE  Clean <=> \A p \in Paths : disk[p] # head[p] => Recorded(p, Row(p))
BY ChangesFacts DEF Clean, Unrecorded

(* What the comparison of Git, the baseline and the claims yields.          *)
LEMMA RoundFacts ==
  ASSUME Typed, NEW s \in Slices
  PROVE  /\ ChangedByRound(s) \in RowMaps
         /\ \A p \in Paths : disk[p] # head[p] /\ ~Stood(s, p) =>
              p \in DOMAIN ChangedByRound(s) /\ ChangedByRound(s)[p] = Row(p)
         /\ \A p \in DOMAIN claims[s] : disk[p] # Says(claims[s][p]) =>
              p \in DOMAIN ChangedByRound(s)
         /\ \A p \in DOMAIN ChangedByRound(s) :
              /\ Describes(ChangedByRound(s)[p], p)
              /\ \/ disk[p] # head[p] /\ ~Stood(s, p)
                 \/ p \in DOMAIN claims[s] /\ disk[p] # Says(claims[s][p])
<1> DEFINE F == Fresh(s)
           R == Revised(s)
           M == ChangedByRound(s)
<1>0. /\ disk \in Files /\ head \in Files
      /\ claims[s] \in RowMaps
      /\ DOMAIN claims[s] \subseteq Paths /\ \A p \in DOMAIN claims[s] : claims[s][p] \in Rows
  BY RowMapFacts DEF Typed
<1>1. /\ DOMAIN F = {p \in Paths : disk[p] # head[p] /\ ~Stood(s, p)}
      /\ \A p \in DOMAIN F : F[p] = Row(p)
      /\ F = [p \in DOMAIN F |-> F[p]]
  BY <1>0, ChangesFacts DEF Fresh, Stood
<1>2. DOMAIN F \subseteq Paths /\ \A p \in DOMAIN F : F[p] \in Rows /\ Says(F[p]) = disk[p]
  BY <1>0, <1>1, ChangesFacts
<1>3. F \in RowMaps
  BY <1>1, <1>2, RowMapsAreMaps
<1>4. \A p \in DOMAIN claims[s] :
         p \in Undone(s) \cup Redone(s) <=> disk[p] # Says(claims[s][p])
  <2> SUFFICES ASSUME NEW p \in DOMAIN claims[s]
               PROVE  p \in Undone(s) \cup Redone(s) <=> disk[p] # Says(claims[s][p])
    OBVIOUS
  <2>1. claims[s][p] \in Rows
    BY <1>0
  <2>2. CASE claims[s][p].kind = "deleted"
    BY <2>2 DEF Undone, Redone, Says
  <2>3. CASE claims[s][p].kind # "deleted"
    <3>1. claims[s][p].sha # Absent
      BY <2>3, <2>1, ProductAssumption DEF Rows
    <3>2. CASE disk[p] = Absent
      BY <3>1, <3>2, <2>3 DEF Undone, Redone, Says
    <3>3. CASE disk[p] # Absent
      BY <3>3, <2>3 DEF Undone, Redone, Says
    <3> QED BY <3>2, <3>3
  <2> QED BY <2>2, <2>3
<1>5. /\ DOMAIN R = {p \in DOMAIN claims[s] : disk[p] # Says(claims[s][p])} \ DOMAIN F
      /\ R = [p \in DOMAIN R |-> R[p]]
      /\ \A p \in DOMAIN R :
           R[p] = IF p \in Undone(s) THEN [kind |-> "deleted",  sha |-> claims[s][p].sha]
                                     ELSE [kind |-> "modified", sha |-> disk[p]]
  <2>1. Undone(s) \cup Redone(s) \subseteq DOMAIN claims[s]
    BY DEF Undone, Redone
  <2>2. Undone(s) \cup Redone(s) = {p \in DOMAIN claims[s] : disk[p] # Says(claims[s][p])}
    BY <2>1, <1>4
  <2> QED BY <2>2 DEF Revised
<1>6. \A p \in DOMAIN R : R[p] \in Rows /\ Says(R[p]) = disk[p]
  <2> SUFFICES ASSUME NEW p \in DOMAIN R
               PROVE  R[p] \in Rows /\ Says(R[p]) = disk[p]
    OBVIOUS
  <2>1. p \in DOMAIN claims[s] /\ p \in Paths /\ claims[s][p] \in Rows
    BY <1>5, <1>0
  <2>2. disk[p] \in Contents \cup {Absent}
    BY <2>1, <1>0 DEF Files
  <2>3. CASE p \in Undone(s)
    <3>1. disk[p] = Absent
      BY <2>3 DEF Undone
    <3>2. R[p] = [kind |-> "deleted",  sha |-> claims[s][p].sha]
      BY <2>3, <1>5
    <3> QED BY <3>1, <3>2, <2>1 DEF Rows, Says
  <2>4. CASE p \notin Undone(s)
    <3>1. R[p] = [kind |-> "modified", sha |-> disk[p]]
      BY <2>4, <1>5
    <3>2. disk[p] # Absent
      BY <2>4, <2>1, <1>4, <1>5 DEF Redone
    <3> QED BY <3>1, <3>2, <2>2 DEF Rows, Says
  <2> QED BY <2>3, <2>4
<1>7. R \in RowMaps
  <2>1. DOMAIN R \subseteq Paths
    BY <1>5, <1>0
  <2> HIDE DEF R
  <2> QED BY <2>1, <1>5, <1>6, RowMapsAreMaps
<1>8. M = Over(F, R)
  BY DEF ChangedByRound
<1> HIDE DEF F, R, M
<1>9. /\ M \in RowMaps
      /\ DOMAIN M = DOMAIN F \cup DOMAIN R
      /\ \A p \in DOMAIN F : M[p] = F[p]
      /\ \A p \in DOMAIN R \ DOMAIN F : M[p] = R[p]
  BY <1>3, <1>7, <1>8, OverFacts
<1>10. \A p \in DOMAIN M : Describes(M[p], p)
  BY <1>9, <1>2, <1>6, DescribesWhatItSays
<1>11. \A p \in Paths : disk[p] # head[p] /\ ~Stood(s, p) => p \in DOMAIN M /\ M[p] = Row(p)
  BY <1>9, <1>1
<1>12. \A p \in DOMAIN claims[s] : disk[p] # Says(claims[s][p]) => p \in DOMAIN M
  BY <1>9, <1>5
<1>13. \A p \in DOMAIN M : \/ disk[p] # head[p] /\ ~Stood(s, p)
                           \/ p \in DOMAIN claims[s] /\ disk[p] # Says(claims[s][p])
  BY <1>9, <1>5, <1>1
<1> QED BY <1>9, <1>10, <1>11, <1>12, <1>13 DEF M

-----------------------------------------------------------------------------
(* Types *)

LEMMA WorkFacts ==
  ASSUME work \in Works
  PROVE  /\ work.at \in {"none", "starting", "checked", "called", "returned", "observed",
                         "testing", "compared", "captured", "approved"}
         /\ work.at \in {"starting", "checked", "called", "returned", "observed", "testing"} =>
              work.scope \in Slices
         /\ ~Idle => work.scope \in Scopes
         /\ work.at \in {"starting", "checked", "called"} => work.retry \in BOOLEAN
         /\ work.at \in {"called", "returned", "observed"} => work.seen \in Files \X Files
         /\ work.at = "observed" => work.changed \in RowMaps
         /\ work.at \in {"captured", "approved"} =>
              work.parent \in Files /\ work.payload \in Payloads
BY DEF Works, Scopes

LEMMA PayloadFacts ==
  ASSUME NEW f \in Payloads
  PROVE  DOMAIN f \subseteq Paths /\ \A p \in DOMAIN f : f[p] \in Contents \cup {Absent}
<1>1. PICK P \in SUBSET Paths : f \in [P -> Contents \cup {Absent}]
  BY DEF Payloads
<1> QED BY <1>1

LEMMA PayloadIs ==
  ASSUME Typed, NEW paths, paths \subseteq Paths
  PROVE  /\ Payload(paths) \in Payloads
         /\ DOMAIN Payload(paths) = {p \in paths : {disk[p], head[p]} # {Absent}}
         /\ \A p \in DOMAIN Payload(paths) : Payload(paths)[p] = disk[p]
<1> DEFINE P == {p \in paths : {disk[p], head[p]} # {Absent}}
<1>1. Payload(paths) = [p \in P |-> disk[p]]
  BY DEF Payload
<1>2. P \in SUBSET Paths
  OBVIOUS
<1> HIDE DEF P
<1>3. Payload(paths) \in [P -> Contents \cup {Absent}]
  BY <1>1, <1>2 DEF Typed, Files
<1>4. Payload(paths) \in Payloads
  BY <1>2, <1>3 DEF Payloads
<1> QED BY <1>1, <1>4 DEF P

(* The product of a scope is what its slices claim.                         *)
LEMMA ProductFacts ==
  ASSUME Typed, NEW s \in Scopes
  PROVE  /\ DOMAIN ProductOf(s) \subseteq Claimed /\ Claimed \subseteq Paths
         /\ s \in Slices => s # Milestone /\ ProductOf(s) = claims[s]
         /\ s \notin Slices => /\ s = Milestone /\ DOMAIN ProductOf(s) = Claimed
                               /\ \A p \in Claimed : ProductOf(s)[p] = latest[p]
<1>1. Claimed \subseteq Paths
  BY RowMapFacts DEF Claimed, Typed
<1>2. CASE s \in Slices
  <2>1. s # Milestone
    BY <1>2, ProductAssumption
  <2>2. ProductOf(s) = claims[s]
    BY <2>1 DEF ProductOf
  <2> QED BY <1>1, <1>2, <2>1, <2>2 DEF Claimed
<1>3. CASE s \notin Slices
  <2>1. s = Milestone
    BY <1>3 DEF Scopes
  <2>2. ProductOf(s) = [p \in Claimed |-> latest[p]]
    BY <2>1 DEF ProductOf, Products
  <2> QED BY <1>1, <1>3, <2>1, <2>2
<1> QED BY <1>2, <1>3

(* Steps that keep the rest of the record of the work under way.            *)
LEMMA SameWork ==
  ASSUME Typed, Check \/ Append
  PROVE  /\ work' \in Works /\ work'.scope = work.scope
         /\ Check => work'.at = "checked"
         /\ Append => /\ work'.at = "approved"
                      /\ work'.parent = work.parent /\ work'.payload = work.payload
<1>1. CASE Check
  <2>1. work \in [at : {"starting", "checked"}, scope : Slices, retry : BOOLEAN]
    BY <1>1 DEF Check, Typed, Works
  <2>2. work' = [work EXCEPT !.at = "checked"] /\ ~Append
    BY <1>1 DEF Check, Append
  <2>3. work' \in [at : {"starting", "checked"}, scope : Slices, retry : BOOLEAN]
        /\ work'.at = "checked" /\ work'.scope = work.scope
    BY <2>1, <2>2
  <2> QED BY <2>2, <2>3 DEF Works
<1>2. CASE Append
  <2>1. work \in [at : {"captured", "approved"}, scope : Scopes, parent : Files,
                  payload : Payloads]
    BY <1>2 DEF Append, Typed, Works
  <2>2. work' = [work EXCEPT !.at = "approved"] /\ ~Check
    BY <1>2 DEF Check, Append
  <2>3. /\ work' \in [at : {"captured", "approved"}, scope : Scopes, parent : Files,
                      payload : Payloads]
        /\ work'.at = "approved" /\ work'.scope = work.scope
        /\ work'.parent = work.parent /\ work'.payload = work.payload
    BY <2>1, <2>2
  <2> QED BY <2>2, <2>3 DEF Works
<1> QED BY <1>1, <1>2

LEMMA LandFacts ==
  ASSUME Typed, Land
  PROVE  /\ head' \in Files
         /\ \A p \in Paths : head'[p] = IF p \in DOMAIN work.payload THEN disk[p] ELSE head[p]
BY DEF Typed, Land, Files

LEMMA InitTyped == Init => Typed
<1> SUFFICES ASSUME Init PROVE Typed
  OBVIOUS
<1>1. Initially \in Files
  BY ProductAssumption DEF Files
<1>2. <<>> \in RowMaps
  BY NoRows
<1>3. work \in Works
  BY DEF Init, Works
<1>4. claims \in [Slices -> RowMaps] /\ baseline \in [Slices -> RowMaps]
  BY <1>2 DEF Init
<1>5. step \in [Scopes -> Steps]
  BY DEF Init, Steps
<1> QED BY <1>1, <1>2, <1>3, <1>4, <1>5 DEF Init, Typed

LEMMA StepTyped ==
  ASSUME Typed, NEW s \in Scopes, NEW v \in Steps, Enter(s, v)
  PROVE  step' \in [Scopes -> Steps]
BY DEF Enter, Typed

LEMMA IssueTyped == ASSUME Typed, NEW s \in Slices, Issue(s) PROVE Typed'
<1>1. Changes \in RowMaps /\ Over(Changes, recorded) \in RowMaps
  BY ChangesFacts, OverFacts DEF Typed
<1>2. found' \subseteq Paths \X Rows
  BY ChangesFacts, RowMapFacts DEF Issue, Typed, Unrecorded
<1>3. step' \in [Scopes -> Steps]
  BY StepTyped DEF Issue, Steps, Scopes
<1>4. baseline' \in [Slices -> RowMaps]
  BY <1>1 DEF Issue, Typed
<1> QED BY <1>1, <1>2, <1>3, <1>4 DEF Issue, Typed, tree, gaps

LEMMA CallTyped ==
  ASSUME Typed, Check \/ Call \/ CoderRetries \/ \E s \in Slices : Start(s)
  PROVE  Typed'
<1>1. ASSUME work' \in Works, step' \in [Scopes -> Steps], unchecked' \subseteq unchecked,
             UNCHANGED <<tree, rows, tested, theirs, found, bounds, uncompared, bare>>
      PROVE  Typed'
  BY <1>1 DEF Typed, tree, rows, bounds
<1>2. ASSUME NEW s \in Slices, Start(s) PROVE Typed'
  <2>1. work' \in Works
    BY <1>2 DEF Start, Works
  <2>2. step' \in [Scopes -> Steps]
    BY <1>2, StepTyped DEF Start, Steps, Scopes
  <2> QED BY <1>1, <1>2, <2>1, <2>2 DEF Start, gaps
<1>3. CASE Check
  <2>1. step' \in [Scopes -> Steps]
    BY <1>3 DEF Check, Typed
  <2> QED BY <1>1, <1>3, <2>1, SameWork DEF Check
<1>4. CASE Call
  <2>1. work.scope \in Slices /\ work.retry \in BOOLEAN /\ <<disk, head>> \in Files \X Files
    BY <1>4, WorkFacts DEF Call, Typed
  <2>2. work' \in Works
    BY <1>4, <2>1 DEF Call, Works
  <2> QED BY <1>1, <1>4, <2>2 DEF Call, gaps, Typed
<1>5. CASE CoderRetries
  <2>1. work.scope \in Slices
    BY <1>5, WorkFacts DEF CoderRetries, Typed
  <2>2. work' \in Works
    BY <1>5, <2>1 DEF CoderRetries, Works
  <2> QED BY <1>1, <1>5, <2>2 DEF CoderRetries, gaps, Typed
<1> QED BY <1>2, <1>3, <1>4, <1>5

LEMMA CoderTyped ==
  ASSUME Typed, NEW files \in Files, CoderReturns(files) \/ CoderStops(files)
  PROVE  Typed'
<1>1. work' \in Works
  <2>1. CASE CoderStops(files)
    BY <2>1 DEF CoderStops, Works
  <2>2. CASE CoderReturns(files)
    <3>1. work.scope \in Slices /\ <<files, head>> \in Files \X Files
      BY <2>2, WorkFacts DEF CoderReturns, Coded, Typed
    <3> QED BY <3>1, <2>2 DEF CoderReturns, Works
  <2> QED BY <2>1, <2>2
<1>2. Coded(files)
  BY DEF CoderReturns, CoderStops
<1> QED BY <1>1, <1>2 DEF Coded, Typed, rows, bounds, gaps

LEMMA ObserveTyped == ASSUME Typed, Observe PROVE Typed'
<1>1. work' \in Works
  <2>1. work.scope \in Slices /\ work.seen \in Files \X Files
    BY WorkFacts DEF Observe, Typed
  <2>2. ChangedByRound(work.scope) \in RowMaps
    BY <2>1, RoundFacts
  <2> QED BY <2>1, <2>2 DEF Observe, Works
<1> QED BY <1>1 DEF Observe, Typed, tree, rows, bounds, gaps

LEMMA RecordTyped ==
  ASSUME Typed, NEW result \in {"verifying", "blocked"}, Record(result)
  PROVE  Typed'
<1>1. work.scope \in Slices /\ work.changed \in RowMaps
  BY WorkFacts DEF Record, Typed
<1>2. Manifest(work.scope, work.changed) \in RowMaps
  BY <1>1, OverFacts DEF Manifest, Typed
<1>3. recorded' \in RowMaps /\ latest' \in RowMaps
  BY <1>1, <1>2, OverFacts DEF Record, Typed
<1>4. claims' \in [Slices -> RowMaps]
  BY <1>1, <1>2 DEF Record, Typed
<1>5. step' \in [Scopes -> Steps]
  BY <1>1, StepTyped DEF Record, Steps, Scopes
<1>6. work' \in Works
  BY DEF Record, Works
<1> QED BY <1>3, <1>4, <1>5, <1>6 DEF Record, Typed, tree, bounds, gaps

(* Steps that leave the tree, the rows and what others wrote alone.         *)
LEMMA DecisionTyped ==
  ASSUME Typed, step' \in [Scopes -> Steps], work' \in Works,
         tested' \in Files \X Files, uncompared' \subseteq Paths, bare' \in BOOLEAN,
         UNCHANGED <<tree, rows, theirs, found, bounds, unchecked>>
  PROVE  Typed'
BY DEF Typed, tree, rows, bounds

LEMMA DecidingTyped == ASSUME Typed, Deciding PROVE Typed'
<1>w. NoWork \in Works /\ tested \in Files \X Files /\ uncompared \subseteq Paths
      /\ bare \in BOOLEAN /\ step \in [Scopes -> Steps] /\ work \in Works
  BY DEF Typed, Works
<1>1. ASSUME NEW s \in Slices, Test(s) PROVE Typed'
  <2>1. work' \in Works
    BY <1>1 DEF Test, Works
  <2> QED BY <1>1, <1>w, <2>1, DecisionTyped DEF Test, gaps
<1>2. ASSUME NEW result \in {"reviewing", "issue"}, Verify(result) PROVE Typed'
  <2>1. work.scope \in Scopes /\ <<disk, head>> \in Files \X Files
    BY <1>2, WorkFacts DEF Verify, Typed
  <2>2. step' \in [Scopes -> Steps]
    BY <1>2, <2>1, StepTyped DEF Verify, Steps
  <2> QED BY <1>2, <1>w, <2>1, <2>2, DecisionTyped DEF Verify, gaps
<1>3. ASSUME NEW s \in Slices, NEW verdict \in {"pending", "issue", "blocked"},
             Review(s, verdict)
      PROVE  Typed'
  <2>1. step' \in [Scopes -> Steps]
    BY <1>3, StepTyped DEF Review, Steps, Scopes
  <2> QED BY <1>3, <1>w, <2>1, DecisionTyped DEF Review, gaps
<1>4. CASE Pass
  <2>1. step' \in [Scopes -> Steps]
    BY <1>4, StepTyped DEF Pass, Steps, Scopes
  <2> QED BY <1>4, <1>w, <2>1, DecisionTyped DEF Pass, gaps
<1>5. ASSUME NEW back \in SUBSET Slices, SendBack(back) PROVE Typed'
  <2>1. step' \in [Scopes -> Steps]
    BY <1>5, <1>w DEF SendBack, Steps
  <2> QED BY <1>5, <1>w, <2>1, DecisionTyped DEF SendBack, gaps
<1> QED BY <1>1, <1>2, <1>3, <1>4, <1>5 DEF Deciding

LEMMA ApprovingTyped == ASSUME Typed, Approving PROVE Typed'
<1>w. NoWork \in Works /\ tested \in Files \X Files /\ uncompared \subseteq Paths
      /\ bare \in BOOLEAN /\ step \in [Scopes -> Steps] /\ work \in Works
  BY DEF Typed, Works
<1>1. ASSUME NEW s \in Scopes, Compare(s) PROVE Typed'
  <2>1. work' \in Works
    BY <1>1 DEF Compare, Works
  <2> QED BY <1>1, <1>w, <2>1, DecisionTyped DEF Compare
<1>2. CASE Accept
  <2>1. work.scope \in Scopes
    BY <1>2, WorkFacts DEF Accept, Typed
  <2>2. step' \in [Scopes -> Steps]
    BY <1>2, <2>1, StepTyped DEF Accept, Steps
  <2> QED BY <1>2, <1>w, <2>2, DecisionTyped DEF Accept, gaps
<1>3. CASE Capture
  <2>1. work.scope \in Scopes /\ head \in Files
    BY <1>3, WorkFacts DEF Capture, Typed
  <2>2. Payload(DOMAIN ProductOf(work.scope)) \in Payloads
    BY <2>1, ProductFacts, PayloadIs
  <2>3. work' \in Works
    BY <1>3, <2>1, <2>2 DEF Capture, Works
  <2> QED BY <1>3, <1>w, <2>3, DecisionTyped DEF Capture, gaps
<1>4. CASE Append
  <2>1. work.scope \in Scopes
    BY <1>4, WorkFacts DEF Append, Typed
  <2>2. step' \in [Scopes -> Steps]
    BY <1>4, <2>1, StepTyped DEF Append, Steps
  <2>3. work' \in Works
    BY <1>4, SameWork
  <2> QED BY <1>4, <1>w, <2>2, <2>3, DecisionTyped DEF Append, gaps
<1>5. CASE Commit
  <2>1. Land
    BY <1>5 DEF Commit
  <2>2. work' \in Works
    BY <1>w, <2>1 DEF Land
  <2> QED BY <2>1, <2>2, LandFacts DEF Land, Typed, rows, bounds, gaps
<1>6. ASSUME NEW retain \in BOOLEAN, Cancel(retain) PROVE Typed'
  <2>1. work.scope \in Scopes
    BY <1>6, WorkFacts DEF Cancel, Typed
  <2>2. step' \in [Scopes -> Steps] /\ bare' \in BOOLEAN
    BY <1>6, <1>w, <2>1, StepTyped DEF Cancel, Steps
  <2> QED BY <1>6, <1>w, <2>2, DecisionTyped DEF Cancel, gaps
<1> QED BY <1>1, <1>2, <1>3, <1>4, <1>5, <1>6 DEF Approving

LEMMA EditTyped ==
  ASSUME Typed, NEW p \in Paths, NEW content \in Contents \cup {Absent}, Edit(p, content)
  PROVE  Typed'
<1>1. disk' \in Files
  BY DEF Edit, Typed, Files
<1>2. theirs' \subseteq Paths /\ unchecked' \subseteq Paths /\ uncompared' \subseteq Paths
  BY DEF Edit, Typed
<1> QED BY <1>1, <1>2 DEF Edit, Typed, rows

LEMMA CommitFileTyped == ASSUME Typed, NEW p \in Paths, CommitFile(p) PROVE Typed'
<1>1. head' \in Files
  BY DEF CommitFile, Typed, Files
<1> QED BY <1>1 DEF CommitFile, Typed, rows, gaps

LEMMA TypedStep == Typed /\ [Next]_vars => Typed'
<1> SUFFICES ASSUME Typed, [Next]_vars PROVE Typed'
  OBVIOUS
<1>w. NoWork \in Works /\ tested \in Files \X Files /\ uncompared \subseteq Paths
      /\ bare \in BOOLEAN /\ step \in [Scopes -> Steps] /\ work \in Works
  BY DEF Typed, Works
<1>1. ASSUME NEW s \in Slices, Prompt(s) \/ PromptAllowingDirt(s) PROVE Typed'
  BY <1>1, IssueTyped DEF Prompt, PromptAllowingDirt
<1>2. ASSUME Check \/ Call \/ CoderRetries \/ \E s \in Slices : Start(s) PROVE Typed'
  BY <1>2, CallTyped
<1>3. ASSUME NEW files \in Files, CoderReturns(files) \/ CoderStops(files) PROVE Typed'
  BY <1>3, CoderTyped
<1>4. CASE Observe
  BY <1>4, ObserveTyped
<1>5. CASE Stop
  BY <1>5, <1>w, DecisionTyped DEF Stop, gaps
<1>6. ASSUME NEW result \in {"verifying", "blocked"}, Record(result) PROVE Typed'
  BY <1>6, RecordTyped
<1>7. CASE Deciding
  BY <1>7, DecidingTyped
<1>8. CASE Approving
  BY <1>8, ApprovingTyped
<1>9. ASSUME NEW s \in Slices, Resolve(s) PROVE Typed'
  <2>1. step' \in [Scopes -> Steps]
    BY <1>9, StepTyped DEF Resolve, Steps, Scopes
  <2> QED BY <1>9, <1>w, <2>1, DecisionTyped DEF Resolve, gaps
<1>10. ASSUME NEW p \in Paths, NEW content \in Contents \cup {Absent}, Edit(p, content)
       PROVE  Typed'
  BY <1>10, EditTyped
<1>11. ASSUME NEW p \in Paths, CommitFile(p) PROVE Typed'
  BY <1>11, CommitFileTyped
<1>12. CASE UNCHANGED vars
  BY <1>12 DEF vars, tree, rows, bounds, gaps, Typed
<1> QED BY <1>1, <1>2, <1>3, <1>4, <1>5, <1>6, <1>7, <1>8, <1>9, <1>10, <1>11, <1>12
        DEF Next, Coding, Others

-----------------------------------------------------------------------------
(* One scope at a time *)

LEMMA TurnIsUnique ==
  ASSUME NEW s \in Scopes, NEW t \in Scopes, Turn(s), Turn(t)
  PROVE  s = t
<1>1. Position[s] \in Nat /\ Position[t] \in Nat
  BY ProductAssumption
<1>2. Position[s] <= Position[t] /\ Position[t] <= Position[s]
  BY DEF Turn
<1>3. Position[s] = Position[t]
  BY <1>1, <1>2
<1> QED BY <1>1, <1>3, ProductAssumption DEF Scopes

LEMMA OneAtWork ==
  ASSUME TurnInv, NEW s \in Scopes, NEW t \in Scopes, Turn(s), AtWork(t)
  PROVE  s = t
BY TurnIsUnique DEF TurnInv

(* Whatever is decided of the scope whose turn it is, no other is at work.  *)
LEMMA MoveKeepsTurn ==
  ASSUME Typed, TurnInv, NEW s \in Scopes, Turn(s), NEW v \in Steps, Enter(s, v)
  PROVE  \A t \in Scopes : AtWork(t)' => t = s /\ Turn(t)'
<1> SUFFICES ASSUME NEW t \in Scopes, AtWork(t)'
             PROVE  t = s /\ Turn(t)'
  OBVIOUS
<1>1. step'[s] = v /\ \A u \in Scopes \ {s} : step'[u] = step[u]
  BY DEF Typed, Enter
<1>2. t = s
  BY <1>1, OneAtWork DEF AtWork
<1>3. Waiting' \subseteq Waiting /\ s \in Waiting'
  BY <1>1, <1>2 DEF Waiting, Turn, AtWork
<1> QED BY <1>2, <1>3 DEF Turn

(* The scope of the work under way has its turn, until it is accepted.      *)
LEMMA WorkHasTurn ==
  ASSUME Typed, TurnInv, ~Idle
  PROVE  /\ work.scope \in Scopes
         /\ work.at # "approved" => AtWork(work.scope) /\ Turn(work.scope)
         /\ \A t \in Scopes : AtWork(t) => t = work.scope
<1>1. work.scope \in Scopes /\ work.at \in {"starting", "checked", "called", "returned",
        "observed", "testing", "compared", "captured", "approved"}
  BY WorkFacts DEF Typed
<1>2. CASE work.at = "approved"
  BY <1>1, <1>2 DEF TurnInv
<1>3. CASE work.at # "approved"
  <2>1. AtWork(work.scope)
    BY <1>1, <1>3 DEF TurnInv, AtWork
  <2>2. Turn(work.scope)
    BY <1>1, <2>1 DEF TurnInv
  <2> QED BY <1>1, <1>3, <2>1, <2>2, OneAtWork
<1> QED BY <1>2, <1>3

LEMMA TurnInit == Init => TurnInv
BY DEF Init, TurnInv, AtWork

(* Steps that move no scope, and leave the work where its scope is.         *)
LEMMA StayKeepsTurn ==
  ASSUME TurnInv, UNCHANGED step,
         \/ work'.at = "none"
         \/ work' = work
         \/ /\ work'.at \in {"starting", "checked", "called", "returned", "observed"}
            /\ work.at \in {"starting", "checked", "called", "returned", "observed"}
            /\ work'.scope = work.scope
         \/ work'.at = "captured" /\ work.at = "compared" /\ work'.scope = work.scope
  PROVE  TurnInv'
BY DEF TurnInv, AtWork, Turn, Waiting

(* Steps that move the scope whose turn it is.                              *)
LEMMA EnterKeepsTurn ==
  ASSUME Typed, TurnInv, NEW s \in Scopes, Turn(s), NEW v \in Steps, Enter(s, v),
         \/ work'.at = "none"
         \/ work'.at = "starting" /\ work'.scope = s /\ v = "started"
  PROVE  TurnInv'
<1>1. \A t \in Scopes : AtWork(t)' => Turn(t)'
  BY MoveKeepsTurn
<1>2. step'[s] = v
  BY DEF Typed, Enter
<1> QED BY <1>1, <1>2 DEF TurnInv

LEMMA TurnCoding == ASSUME Typed, TurnInv, Coding PROVE TurnInv'
<1>1. ASSUME NEW s \in Slices, Prompt(s) PROVE TurnInv'
  BY <1>1, EnterKeepsTurn DEF Prompt, Issue, Steps, Scopes
<1>2. ASSUME NEW s \in Slices, Start(s) PROVE TurnInv'
  BY <1>2, EnterKeepsTurn DEF Start, Steps, Scopes
<1>3. CASE Check
  BY <1>3, SameWork, StayKeepsTurn DEF Check
<1>4. CASE Call
  BY <1>4, StayKeepsTurn DEF Call
<1>5. CASE CoderRetries
  BY <1>5, StayKeepsTurn DEF CoderRetries
<1>6. ASSUME NEW files \in Files, CoderReturns(files) \/ CoderStops(files) PROVE TurnInv'
  BY <1>6, StayKeepsTurn DEF CoderReturns, CoderStops, Coded
<1>7. CASE Observe
  BY <1>7, StayKeepsTurn DEF Observe
<1>8. CASE Stop
  BY <1>8, StayKeepsTurn DEF Stop
<1>9. ASSUME NEW result \in {"verifying", "blocked"}, Record(result) PROVE TurnInv'
  <2>1. work.scope \in Scopes /\ Turn(work.scope)
    BY <1>9, WorkHasTurn DEF Record
  <2> QED BY <1>9, <2>1, EnterKeepsTurn DEF Record, Steps
<1> QED BY <1>1, <1>2, <1>3, <1>4, <1>5, <1>6, <1>7, <1>8, <1>9 DEF Coding

LEMMA TurnDeciding == ASSUME Typed, TurnInv, Deciding PROVE TurnInv'
<1>1. ASSUME NEW s \in Slices, Test(s) PROVE TurnInv'
  BY <1>1 DEF Test, TurnInv, AtWork, Turn, Waiting
<1>2. ASSUME NEW result \in {"reviewing", "issue"}, Verify(result) PROVE TurnInv'
  <2>1. work.scope \in Scopes /\ Turn(work.scope)
    BY <1>2, WorkHasTurn DEF Verify
  <2> QED BY <1>2, <2>1, EnterKeepsTurn DEF Verify, Steps
<1>3. ASSUME NEW s \in Slices, NEW verdict \in {"pending", "issue", "blocked"},
             Review(s, verdict)
      PROVE  TurnInv'
  BY <1>3, EnterKeepsTurn DEF Review, Steps, Scopes
<1>4. CASE Pass
  BY <1>4, EnterKeepsTurn DEF Pass, Presentable, Steps, Scopes
<1>5. ASSUME NEW back \in SUBSET Slices, SendBack(back) PROVE TurnInv'
  <2>1. Idle /\ Turn(Milestone) /\ Milestone \in Scopes /\ step[Milestone] = "issue"
    BY <1>5 DEF SendBack, Presentable, Scopes
  <2>2. \A t \in Scopes : step[t] \in {"issue", "accepted"}
    BY <2>1, OneAtWork DEF AtWork
  <2>3. \A t \in Scopes : step'[t] \in {"issue", "accepted"}
    BY <1>5, <2>2 DEF SendBack
  <2> QED BY <1>5, <2>1, <2>3 DEF SendBack, TurnInv, AtWork
<1> QED BY <1>1, <1>2, <1>3, <1>4, <1>5 DEF Deciding

LEMMA TurnApproving == ASSUME Typed, TurnInv, Approving PROVE TurnInv'
<1>1. ASSUME NEW s \in Scopes, Compare(s) PROVE TurnInv'
  BY <1>1 DEF Compare, TurnInv, AtWork, Turn, Waiting
<1>2. CASE Accept
  <2>1. work.scope \in Scopes /\ Turn(work.scope)
    BY <1>2, WorkHasTurn DEF Accept
  <2> QED BY <1>2, <2>1, EnterKeepsTurn DEF Accept, Steps
<1>3. CASE Capture
  BY <1>3, StayKeepsTurn DEF Capture
<1>4. CASE Append
  <2>1. work.scope \in Scopes /\ Turn(work.scope) /\ Enter(work.scope, "accepted")
    BY <1>4, WorkHasTurn DEF Append
  <2>2. work'.at = "approved" /\ work'.scope = work.scope
    BY <1>4, SameWork
  <2>3. step'[work.scope] = "accepted"
    BY <2>1 DEF Enter, Typed
  <2>4. \A t \in Scopes : ~AtWork(t)'
    BY <2>1, <2>3, MoveKeepsTurn DEF AtWork, Steps
  <2>5. \A t \in Waiting' : Position[work.scope] <= Position[t]
    BY <2>1 DEF Waiting, Turn, Enter, Typed
  <2> QED BY <2>2, <2>3, <2>4, <2>5 DEF TurnInv
<1>5. CASE Commit
  BY <1>5, StayKeepsTurn DEF Commit, Land
<1>6. ASSUME NEW retain \in BOOLEAN, Cancel(retain) PROVE TurnInv'
  <2>1. CASE UNCHANGED step
    BY <1>6, <2>1, StayKeepsTurn DEF Cancel
  <2>2. CASE Enter(work.scope, "issue")
    <3>1. \A t \in Scopes : ~AtWork(t)
      BY <1>6 DEF Cancel, TurnInv
    <3>2. \A t \in Scopes : ~AtWork(t)'
      BY <2>2, <3>1 DEF AtWork, Enter, Typed
    <3> QED BY <1>6, <3>2 DEF Cancel, TurnInv
  <2> QED BY <1>6, <2>1, <2>2 DEF Cancel
<1> QED BY <1>1, <1>2, <1>3, <1>4, <1>5, <1>6 DEF Approving

LEMMA TurnStep == Typed /\ TurnInv /\ [Next]_vars => TurnInv'
<1> SUFFICES ASSUME Typed, TurnInv, [Next]_vars PROVE TurnInv'
  OBVIOUS
<1>1. ASSUME NEW s \in Slices, PromptAllowingDirt(s) PROVE TurnInv'
  BY <1>1, EnterKeepsTurn DEF PromptAllowingDirt, Issue, Steps, Scopes
<1>2. ASSUME NEW s \in Slices, Resolve(s) PROVE TurnInv'
  <2>1. s \in Scopes /\ Turn(s)
    BY <1>2 DEF Resolve, TurnInv, AtWork, Scopes
  <2> QED BY <1>2, <2>1, EnterKeepsTurn DEF Resolve, Steps
<1>3. ASSUME NEW p \in Paths, NEW content \in Contents \cup {Absent}, Edit(p, content)
      PROVE  TurnInv'
  BY <1>3, StayKeepsTurn DEF Edit
<1>4. ASSUME NEW p \in Paths, CommitFile(p) PROVE TurnInv'
  BY <1>4, StayKeepsTurn DEF CommitFile
<1>5. CASE UNCHANGED vars
  BY <1>5, StayKeepsTurn DEF vars
<1> QED BY <1>1, <1>2, <1>3, <1>4, <1>5, TurnCoding, TurnDeciding, TurnApproving
        DEF Next, Others

-----------------------------------------------------------------------------
(* What reviewers see *)

(* What recording a round does to the rows.                                 *)
LEMMA RecordFacts ==
  ASSUME Typed, NEW result, Record(result)
  PROVE  /\ work.scope \in Slices /\ work.changed \in RowMaps
         /\ \A t \in Slices \ {work.scope} : claims'[t] = claims[t]
         /\ DOMAIN claims'[work.scope] = DOMAIN work.changed \cup DOMAIN claims[work.scope]
         /\ \A p \in DOMAIN work.changed : claims'[work.scope][p] = work.changed[p]
         /\ \A p \in DOMAIN claims[work.scope] \ DOMAIN work.changed :
              claims'[work.scope][p] = claims[work.scope][p]
         /\ DOMAIN recorded' = DOMAIN claims'[work.scope] \cup DOMAIN recorded
         /\ \A p \in DOMAIN claims'[work.scope] : recorded'[p] = claims'[work.scope][p]
         /\ \A p \in DOMAIN recorded \ DOMAIN claims'[work.scope] : recorded'[p] = recorded[p]
         /\ DOMAIN latest' = DOMAIN work.changed \cup DOMAIN latest
         /\ \A p \in DOMAIN work.changed : latest'[p] = work.changed[p]
         /\ \A p \in DOMAIN latest \ DOMAIN work.changed : latest'[p] = latest[p]
<1> DEFINE m == Manifest(work.scope, work.changed)
<1>1. work.scope \in Slices /\ work.changed \in RowMaps /\ claims[work.scope] \in RowMaps
  BY WorkFacts DEF Record, Typed
<1>2. /\ m \in RowMaps
      /\ DOMAIN m = DOMAIN work.changed \cup DOMAIN claims[work.scope]
      /\ \A p \in DOMAIN work.changed : m[p] = work.changed[p]
      /\ \A p \in DOMAIN claims[work.scope] \ DOMAIN work.changed :
           m[p] = claims[work.scope][p]
  BY <1>1, OverFacts DEF Manifest
<1>3. claims' = [claims EXCEPT ![work.scope] = m] /\ recorded' = Over(m, recorded)
      /\ latest' = Over(work.changed, latest)
  BY DEF Record
<1>r. recorded \in RowMaps /\ latest \in RowMaps
  BY DEF Typed
<1> HIDE DEF m
<1>4. claims'[work.scope] = m /\ \A t \in Slices \ {work.scope} : claims'[t] = claims[t]
  BY <1>1, <1>3 DEF Typed
<1>5. /\ DOMAIN recorded' = DOMAIN m \cup DOMAIN recorded
      /\ \A p \in DOMAIN m : recorded'[p] = m[p]
      /\ \A p \in DOMAIN recorded \ DOMAIN m : recorded'[p] = recorded[p]
  <2>1. m \in RowMaps /\ recorded \in RowMaps /\ recorded' = Over(m, recorded)
    BY <1>2, <1>3, <1>r
  <2> QED BY <2>1, OverFacts
<1>6. /\ DOMAIN latest' = DOMAIN work.changed \cup DOMAIN latest
      /\ \A p \in DOMAIN work.changed : latest'[p] = work.changed[p]
      /\ \A p \in DOMAIN latest \ DOMAIN work.changed : latest'[p] = latest[p]
  BY <1>1, <1>3, <1>r, OverFacts
<1> QED BY <1>1, <1>2, <1>4, <1>5, <1>6

LEMMA IssueFacts ==
  ASSUME Typed, NEW s \in Slices, Issue(s)
  PROVE  /\ baseline'[s] = Changes /\ \A t \in Slices \ {s} : baseline'[t] = baseline[t]
         /\ DOMAIN recorded' = DOMAIN Changes \cup DOMAIN recorded
         /\ \A p \in DOMAIN Changes : recorded'[p] = Changes[p]
         /\ \A p \in DOMAIN recorded \ DOMAIN Changes : recorded'[p] = recorded[p]
<1>1. /\ recorded' = Over(Changes, recorded)
      /\ baseline' = [baseline EXCEPT ![s] = Changes]
  BY DEF Issue
<1>2. recorded \in RowMaps /\ Changes \in RowMaps
  BY ChangesFacts DEF Typed
<1>3. baseline'[s] = Changes /\ \A t \in Slices \ {s} : baseline'[t] = baseline[t]
  BY <1>1 DEF Typed
<1>4. /\ DOMAIN recorded' = DOMAIN Changes \cup DOMAIN recorded
      /\ \A p \in DOMAIN Changes : recorded'[p] = Changes[p]
      /\ \A p \in DOMAIN recorded \ DOMAIN Changes : recorded'[p] = recorded[p]
  BY <1>1, <1>2, OverFacts
<1> QED BY <1>3, <1>4

LEMMA SourceStep == Typed /\ SourceInv /\ [Next]_vars => SourceInv'
<1> SUFFICES ASSUME Typed, SourceInv, [Next]_vars PROVE SourceInv'
  OBVIOUS
<1>1. ASSUME NEW s \in Slices, Issue(s) PROVE SourceInv'
  <2> SUFFICES ASSUME NEW p \in DOMAIN recorded'
               PROVE  \/ \E t \in Slices : p \in DOMAIN claims'[t] /\ claims'[t][p] = recorded'[p]
                      \/ <<p, recorded'[p]>> \in found'
    BY DEF SourceInv, Claims
  <2>1. UNCHANGED claims /\ found' = found \cup {<<q, Changes[q]>> : q \in Unrecorded}
    BY <1>1 DEF Issue
  <2>2. CASE p \in DOMAIN Changes /\ ~Recorded(p, Changes[p])
    BY <1>1, <2>1, <2>2, IssueFacts DEF Unrecorded
  <2>3. CASE p \in DOMAIN recorded /\ recorded'[p] = recorded[p]
    BY <2>1, <2>3 DEF SourceInv, Claims
  <2> QED BY <1>1, <2>2, <2>3, IssueFacts DEF Recorded
<1>2. ASSUME NEW result \in {"verifying", "blocked"}, Record(result) PROVE SourceInv'
  <2> DEFINE s == work.scope
  <2>1. UNCHANGED found
    BY <1>2 DEF Record
  <2>2. ASSUME NEW p \in DOMAIN recorded'
        PROVE  \/ \E t \in Slices : p \in DOMAIN claims'[t] /\ claims'[t][p] = recorded'[p]
               \/ <<p, recorded'[p]>> \in found'
    <3>1. CASE p \in DOMAIN claims'[s]
      BY <1>2, <3>1, RecordFacts
    <3>2. CASE p \notin DOMAIN claims'[s]
      <4>1. p \in DOMAIN recorded /\ recorded'[p] = recorded[p] /\ p \notin DOMAIN claims[s]
        BY <1>2, <2>2, <3>2, RecordFacts
      <4>2. CASE <<p, recorded[p]>> \in found
        BY <2>1, <4>1, <4>2
      <4>3. ASSUME NEW t \in Slices, Claims(t, p, recorded[p])
            PROVE  \E u \in Slices : p \in DOMAIN claims'[u] /\ claims'[u][p] = recorded'[p]
        <5>1. t # s /\ claims'[t] = claims[t]
          BY <1>2, <4>1, <4>3, RecordFacts DEF Claims
        <5> QED BY <4>1, <4>3, <5>1 DEF Claims
      <4> QED BY <4>1, <4>2, <4>3 DEF SourceInv
    <3> QED BY <3>1, <3>2
  <2> QED BY <2>2 DEF SourceInv, Claims
<1>3. ASSUME UNCHANGED <<recorded, claims, found>> PROVE SourceInv'
  BY <1>3 DEF SourceInv, Claims
<1> QED BY <1>1, <1>2, <1>3
        DEF Next, Coding, Deciding, Approving, Others, Prompt, PromptAllowingDirt, Start, Check,
            Call, CoderRetries, CoderReturns, CoderStops, Coded, Observe, Stop, Resolve, Test,
            Verify, Review, Pass, SendBack, Compare, Accept, Capture, Append, Commit, Land,
            Cancel, Edit, CommitFile, vars, rows

LEMMA ReviewedStep == Typed /\ TurnInv /\ ReviewedInv /\ [Next]_vars => ReviewedInv'
<1> SUFFICES ASSUME Typed, TurnInv, ReviewedInv, [Next]_vars,
                    NEW s \in Slices, Awaits(s)', NEW p \in DOMAIN claims'[s]
             PROVE  tested'[1][p] = Says(claims'[s][p])
  BY DEF ReviewedInv
<1>s. s \in Scopes /\ s # Milestone
  BY ProductAssumption DEF Scopes
<1>1. ASSUME Awaits(s), UNCHANGED <<claims, tested>>
      PROVE  tested'[1][p] = Says(claims'[s][p])
  BY <1>1 DEF ReviewedInv
<1>2. ASSUME NEW t \in Scopes, NEW v, Enter(t, v), v # "pending", work'.at # "approved"
      PROVE  step[s] = "pending" /\ s # t
  BY <1>2, <1>s DEF Enter, Typed, Awaits
<1>3. ASSUME UNCHANGED step, work'.at # "approved" \/ work' = work
      PROVE  Awaits(s)
  BY <1>3 DEF Awaits
<1>4. ASSUME NEW t \in Slices, NEW verdict \in {"pending", "issue", "blocked"},
             Review(t, verdict)
      PROVE  tested'[1][p] = Says(claims'[s][p])
  <2>1. CASE s = t
    <3>1. Drifted(claims[s]) = {} /\ tested[1] = disk /\ UNCHANGED <<claims, tested>>
      BY <1>4, <2>1 DEF Review, rows
    <3>2. disk[p] = Says(claims[s][p])
      BY <3>1, DescribesWhatItSays DEF Drifted
    <3> QED BY <3>1, <3>2
  <2>2. CASE s # t
    <3>1. Awaits(s)
      BY <1>4, <1>s, <2>2 DEF Review, Enter, Typed, Awaits
    <3> QED BY <1>1, <1>4, <3>1 DEF Review, rows
  <2> QED BY <2>1, <2>2
<1>5. ASSUME ~Idle, work.at # "approved", step[s] = "pending", NEW v, v # "pending",
             Enter(work.scope, v)
      PROVE  s = work.scope /\ step'[s] # "pending"
  BY <1>5, <1>s, WorkHasTurn DEF AtWork, Enter, Typed
<1>6. ASSUME NEW result \in {"reviewing", "issue"}, Verify(result)
      PROVE  FALSE
  <2>1. work.at = "testing" /\ Enter(work.scope, result) /\ work'.at = "none"
    BY <1>6 DEF Verify
  <2>2. step[s] = "pending"
    BY <1>2, <2>1, WorkHasTurn
  <2> QED BY <1>5, <2>1, <2>2 DEF Awaits
<1>7. ASSUME NEW result \in {"verifying", "blocked"}, Record(result)
      PROVE  FALSE
  <2>1. work.at = "observed" /\ Enter(work.scope, result) /\ work'.at = "none"
    BY <1>7 DEF Record
  <2>2. step[s] = "pending"
    BY <1>2, <2>1, WorkHasTurn
  <2> QED BY <1>5, <2>1, <2>2 DEF Awaits
<1>8. ASSUME NEW t \in Slices, Issue(t) \/ Start(t) \/ Resolve(t)
      PROVE  tested'[1][p] = Says(claims'[s][p])
  <2>1. t \in Scopes
    BY DEF Scopes
  <2>2. Enter(t, "coding") \/ Enter(t, "started") \/ Enter(t, "issue")
    BY <1>8 DEF Issue, Start, Resolve
  <2>3. UNCHANGED <<claims, tested>> /\ work'.at # "approved"
    BY <1>8 DEF Issue, Start, Resolve, rows
  <2>4. Awaits(s)
    BY <1>2, <2>1, <2>2, <2>3 DEF Awaits
  <2> QED BY <1>1, <2>3, <2>4
<1>9. CASE Pass
  <2>1. Awaits(s)
    BY <1>9, <1>s DEF Pass, Presentable, Enter, Typed, Awaits
  <2> QED BY <1>1, <1>9, <2>1 DEF Pass, rows
<1>10. ASSUME NEW back \in SUBSET Slices, SendBack(back)
       PROVE  tested'[1][p] = Says(claims'[s][p])
  <2>1. Awaits(s)
    BY <1>10, <1>s DEF SendBack, Presentable, Awaits
  <2> QED BY <1>1, <1>10, <2>1 DEF SendBack, rows
<1>11. CASE Accept
  <2>1. Awaits(s)
    BY <1>2, <1>11, WorkHasTurn DEF Accept, Awaits
  <2> QED BY <1>1, <1>11, <2>1 DEF Accept, rows
<1>12. CASE Append
  <2>1. /\ work'.at = "approved" /\ work'.scope = work.scope /\ work.scope \in Scopes
        /\ step[work.scope] = "pending" /\ Enter(work.scope, "accepted")
    BY <1>12, SameWork, WorkHasTurn DEF Append, TurnInv
  <2>2. Awaits(s)
    BY <2>1, <1>s DEF Awaits, Enter, Typed
  <2> QED BY <1>1, <1>12, <2>2 DEF Append, rows
<1>13. ASSUME NEW retain \in BOOLEAN, Cancel(retain)
       PROVE  tested'[1][p] = Says(claims'[s][p])
  <2>1. work'.at = "none" /\ UNCHANGED <<claims, tested>>
        /\ (UNCHANGED step \/ Enter(work.scope, "issue"))
    BY <1>13 DEF Cancel, rows
  <2>2. work.scope \in Scopes
    BY <1>13, WorkHasTurn DEF Cancel
  <2>3. Awaits(s)
    BY <1>2, <1>3, <2>1, <2>2 DEF Awaits
  <2> QED BY <1>1, <2>1, <2>3
<1>14. ASSUME UNCHANGED <<step, claims, tested>>, work'.at # "approved" \/ work' = work
       PROVE  tested'[1][p] = Says(claims'[s][p])
  BY <1>1, <1>3, <1>14
<1>15. ASSUME Coding PROVE tested'[1][p] = Says(claims'[s][p])
  <2>1. CASE Check
    BY <1>14, <2>1, SameWork DEF Check, rows
  <2> QED BY <1>7, <1>8, <1>14, <1>15, <2>1
          DEF Coding, Prompt, Call, CoderRetries, CoderReturns, CoderStops, Coded, Observe,
              Stop, rows
<1>16. ASSUME Deciding PROVE tested'[1][p] = Says(claims'[s][p])
  BY <1>4, <1>6, <1>9, <1>10, <1>14, <1>16 DEF Deciding, Test, rows
<1>17. ASSUME Approving PROVE tested'[1][p] = Says(claims'[s][p])
  <2>1. ASSUME NEW t \in Scopes, Compare(t) PROVE tested'[1][p] = Says(claims'[s][p])
    BY <1>14, <2>1 DEF Compare, rows
  <2>2. CASE Capture
    BY <1>14, <2>2 DEF Capture, rows
  <2>3. CASE Commit
    BY <1>14, <2>3 DEF Commit, Land, rows
  <2> QED BY <1>11, <1>12, <1>13, <1>17, <2>1, <2>2, <2>3 DEF Approving
<1>18. ASSUME Others PROVE tested'[1][p] = Says(claims'[s][p])
  BY <1>8, <1>14, <1>18 DEF Others, PromptAllowingDirt, Edit, CommitFile, rows
<1>19. CASE UNCHANGED vars
  BY <1>14, <1>19 DEF vars, rows
<1> QED BY <1>15, <1>16, <1>17, <1>18, <1>19 DEF Next

(* While an approval is under way its product is the same.                  *)
LEMMA ComparedStep ==
  Typed /\ ComparedInv /\ [Next]_vars => ComparedInv'
<1> SUFFICES ASSUME Typed, ComparedInv, [Next]_vars
             PROVE  ComparedInv'
  OBVIOUS
<1>1. ASSUME work'.at \notin {"compared", "captured", "approved"}
      PROVE  ComparedInv'
  BY <1>1 DEF ComparedInv
<1>2. ASSUME NEW s \in Scopes, UNCHANGED <<claims, latest>>
      PROVE  ProductOf(s)' = ProductOf(s)
  BY <1>2 DEF ProductOf, Products, Claimed
<1>3. ASSUME NEW s \in Scopes, Compare(s) PROVE ComparedInv'
  <2>1. /\ work'.at = "compared" /\ work'.scope = s /\ UNCHANGED <<disk, claims, latest>>
        /\ Drifted(ProductOf(s)) = {}
    BY <1>3 DEF Compare, tree, rows
  <2>2. ProductOf(work.scope)' = ProductOf(s)
    BY <2>1 DEF ProductOf, Products, Claimed
  <2>3. \A p \in DOMAIN ProductOf(s) : disk[p] = Says(ProductOf(s)[p])
    BY <2>1, DescribesWhatItSays DEF Drifted
  <2> QED BY <2>1, <2>2, <2>3 DEF ComparedInv, Describes
<1>4. CASE Capture
  <2>1. /\ work.at = "compared" /\ work'.at = "captured" /\ work'.scope = work.scope
        /\ work'.payload = Payload(DOMAIN ProductOf(work.scope))
        /\ UNCHANGED <<disk, claims, latest, uncompared>>
    BY <1>4 DEF Capture, tree, rows, gaps
  <2>2. work.scope \in Scopes
    BY <2>1, WorkFacts DEF Typed
  <2>3. ProductOf(work.scope)' = ProductOf(work.scope)
    BY <2>1 DEF ProductOf, Products, Claimed
  <2>4. DOMAIN ProductOf(work.scope) \subseteq Paths
    BY <2>2, ProductFacts
  <2>p. PICK paths : paths = DOMAIN ProductOf(work.scope)
    OBVIOUS
  <2>f. /\ DOMAIN Payload(paths) \subseteq paths
        /\ \A p \in DOMAIN Payload(paths) : Payload(paths)[p] = disk[p]
    <3>1. paths \subseteq Paths
      BY <2>4, <2>p
    <3> QED BY <3>1, PayloadIs
  <2>5. /\ DOMAIN work'.payload \subseteq DOMAIN ProductOf(work.scope)
        /\ \A p \in DOMAIN work'.payload : work'.payload[p] = disk[p]
    BY <2>1, <2>p, <2>f
  <2>6. \A p \in DOMAIN ProductOf(work.scope) \ uncompared :
          disk[p] = Says(ProductOf(work.scope)[p])
    BY <2>1 DEF ComparedInv, Describes
  <2> QED BY <2>1, <2>3, <2>5, <2>6 DEF ComparedInv
<1>5. CASE Append
  <2>1. /\ work.at = "captured" /\ work'.at = "approved" /\ work'.scope = work.scope
        /\ work'.payload = work.payload
        /\ UNCHANGED <<disk, claims, latest, uncompared>>
    BY <1>5, SameWork DEF Append, tree, rows, gaps
  <2>2. ProductOf(work.scope)' = ProductOf(work.scope)
    BY <2>1 DEF ProductOf, Products, Claimed
  <2> QED BY <2>1, <2>2 DEF ComparedInv
<1>6. ASSUME UNCHANGED <<work, claims, latest, uncompared>>,
             work.at = "compared" => UNCHANGED disk
      PROVE  ComparedInv'
  <2>1. ProductOf(work.scope)' = ProductOf(work.scope)
    BY <1>6 DEF ProductOf, Products, Claimed
  <2> QED BY <1>6, <2>1 DEF ComparedInv, Describes
<1>7. ASSUME NEW p \in Paths, NEW content \in Contents \cup {Absent}, Edit(p, content)
      PROVE  ComparedInv'
  <2>1. /\ UNCHANGED <<work, claims, latest>> /\ \A q \in Paths \ {p} : disk'[q] = disk[q]
        /\ uncompared' = IF work.at = "compared" THEN uncompared \cup {p} ELSE uncompared
    BY <1>7 DEF Edit, rows, Typed, Files
  <2>2. CASE work.at # "compared"
    BY <1>6, <2>1, <2>2
  <2>3. CASE work.at = "compared"
    <3>1. ProductOf(work.scope)' = ProductOf(work.scope)
      BY <2>1 DEF ProductOf, Products, Claimed
    <3>2. DOMAIN ProductOf(work.scope) \subseteq Paths
      BY <2>3, WorkFacts, ProductFacts DEF Typed
    <3>3. uncompared' = uncompared \cup {p}
      BY <2>1, <2>3
    <3>4. \A q \in DOMAIN ProductOf(work.scope) \ uncompared' :
            disk'[q] = Says(ProductOf(work.scope)[q])
      BY <2>1, <2>3, <3>2, <3>3 DEF ComparedInv, Describes
    <3> QED BY <2>1, <2>3, <3>1, <3>4 DEF ComparedInv, Describes
  <2> QED BY <2>2, <2>3
<1>8. ASSUME Coding PROVE ComparedInv'
  <2>1. CASE Check
    BY <1>1, <2>1, SameWork
  <2> QED BY <1>1, <1>8, <2>1
          DEF Coding, Prompt, Issue, Start, Call, CoderRetries, CoderReturns, CoderStops,
              Observe, Stop, Record
<1>9. ASSUME Deciding PROVE ComparedInv'
  BY <1>1, <1>9 DEF Deciding, Test, Verify, Review, Pass, SendBack, Presentable
<1>10. ASSUME Approving PROVE ComparedInv'
  <2>1. CASE Accept
    BY <1>1, <2>1 DEF Accept
  <2>2. CASE Commit
    BY <1>1, <2>2 DEF Commit, Land
  <2>3. ASSUME NEW retain \in BOOLEAN, Cancel(retain) PROVE ComparedInv'
    BY <1>1, <2>3 DEF Cancel
  <2> QED BY <1>3, <1>4, <1>5, <1>10, <2>1, <2>2, <2>3 DEF Approving
<1>11. ASSUME Others PROVE ComparedInv'
  BY <1>1, <1>6, <1>7, <1>11
     DEF Others, PromptAllowingDirt, Issue, Resolve, CommitFile, rows, gaps
<1>12. CASE UNCHANGED vars
  BY <1>6, <1>12 DEF vars, tree, rows, gaps
<1> QED BY <1>8, <1>9, <1>10, <1>11, <1>12 DEF Next

-----------------------------------------------------------------------------
(* What others wrote *)

(* Beside the work that is under way no slice is at its prompt.             *)
LEMMA NoneAtPrompt ==
  ASSUME Typed, TurnInv, ~Idle
  PROVE  \A t \in Slices : step[t] # "coding"
<1>1. \A t \in Scopes : AtWork(t) => t = work.scope
  BY WorkHasTurn
<1>2. step[work.scope] \in {"started", "verifying", "pending", "accepted"}
  BY WorkFacts DEF Typed, TurnInv
<1> QED BY <1>1, <1>2 DEF AtWork, Scopes

(* Steps that change neither the tree nor its rows, nor take a call further.*)
LEMMA TheirsKept ==
  ASSUME TheirsInv, UNCHANGED <<disk, head, recorded, claims, baseline, theirs, unchecked>>,
         \A t \in Slices : step'[t] = "coding" => step[t] = "coding",
         \/ work' = work
         \/ work'.at \notin {"starting", "checked", "called", "returned", "observed"}
  PROVE  TheirsInv'
<1>1. (theirs \cap Claimed \subseteq unchecked)'
  BY DEF TheirsInv, Claimed
<1>2. Claimed' = Claimed /\ \A p : Row(p)' = Row(p)
  BY DEF Claimed, Row
<1>3. \A p \in theirs : Recorded(p, Row(p))' => Recorded(p, Row(p))
  BY <1>2 DEF Recorded
<1>4. \A t \in Slices : \A p \in theirs : Stood(t, p) => Stood(t, p)'
  BY <1>2 DEF Stood
<1>5. \A t \in Slices : Prompted(t)' =>
        \A p \in theirs' \ Claimed' : Recorded(p, Row(p))' => Stood(t, p)'
  BY <1>2, <1>3, <1>4 DEF TheirsInv, Prompted
<1>6. CASE work' = work
  <2>1. \A t, p : Stood(t, p) => Stood(t, p)'
    BY <1>2 DEF Stood
  <2>2. work.at \in {"checked", "called"} => \A p \in theirs \ unchecked : Stood(work.scope, p)'
    BY <1>6, <2>1 DEF TheirsInv
  <2>3. work.at = "returned" => \A p \in theirs \ unchecked :
          disk[p] = work.seen[1][p] => Stood(work.scope, p)'
    BY <1>6, <2>1 DEF TheirsInv
  <2>4. work.at = "observed" => \A p \in (theirs \ unchecked) \cap DOMAIN work.changed :
          disk[p] # work.seen[1][p]
    BY DEF TheirsInv
  <2> QED BY <1>1, <1>5, <1>6, <2>2, <2>3, <2>4 DEF TheirsInv
<1>7. CASE work'.at \notin {"starting", "checked", "called", "returned", "observed"}
  BY <1>1, <1>5, <1>7 DEF TheirsInv
<1> QED BY <1>6, <1>7

LEMMA TheirsCall ==
  ASSUME Typed, TurnInv, TheirsInv,
         Check \/ Call \/ CoderRetries \/ \E s \in Slices : Start(s)
  PROVE  TheirsInv'
<1>t. theirs \subseteq Paths
  BY DEF Typed
<1>1. /\ UNCHANGED <<disk, head, recorded, claims, baseline, theirs>>
      /\ work'.at \in {"starting", "checked", "called"}
      /\ work'.scope \in Slices /\ Prompted(work'.scope)
      /\ \A t \in Slices : step'[t] # "coding"
  <2>1. ASSUME NEW s \in Slices, Start(s)
        PROVE  /\ work'.at = "starting" /\ work'.scope = s /\ step[s] = "coding"
               /\ \A t \in Slices : step'[t] # "coding"
    <3>1. Enter(s, "started") /\ Turn(s) /\ s \in Scopes
      BY <2>1 DEF Start, Scopes
    <3>2. \A t \in Scopes : AtWork(t)' => t = s
      BY <3>1, MoveKeepsTurn DEF Steps
    <3>3. step'[s] = "started"
      BY <3>1 DEF Enter, Typed
    <3> QED BY <2>1, <3>2, <3>3 DEF Start, AtWork, Scopes
  <2>2. ASSUME Check \/ Call \/ CoderRetries
        PROVE  /\ work'.at \in {"starting", "checked", "called"} /\ work'.scope = work.scope
               /\ work.at \in {"starting", "checked", "called"} /\ UNCHANGED step
    BY <2>2, SameWork DEF Check, Call, CoderRetries
  <2>3. ASSUME Check \/ Call \/ CoderRetries
        PROVE  /\ work'.at \in {"starting", "checked", "called"}
               /\ work'.scope \in Slices /\ Prompted(work'.scope)
               /\ \A t \in Slices : step'[t] # "coding"
    BY <2>2, <2>3, WorkFacts, NoneAtPrompt DEF Prompted, Typed
  <2>4. UNCHANGED <<disk, head, recorded, claims, baseline, theirs>>
    BY DEF Start, Check, Call, CoderRetries, tree, rows
  <2> QED BY <2>1, <2>3, <2>4 DEF Prompted
<1>2. Claimed' = Claimed /\ \A p : Row(p)' = Row(p)
  BY <1>1 DEF Claimed, Row
<1>3. \A p : Recorded(p, Row(p))' <=> Recorded(p, Row(p))
  BY <1>1, <1>2 DEF Recorded
<1>4. \A t, p : Stood(t, p)' <=> Stood(t, p)
  BY <1>1, <1>2 DEF Stood
<1>5. \A t \in Slices : Prompted(t)' =>
        \A p \in theirs' \ Claimed' : Recorded(p, Row(p))' => Stood(t, p)'
  BY <1>1, <1>2, <1>3, <1>4 DEF TheirsInv, Prompted
<1>6. CASE Check
  <2>1. Clean /\ unchecked' = unchecked \cap Claimed /\ work'.scope = work.scope
        /\ work'.at = "checked"
    BY <1>6, SameWork DEF Check
  <2>2. (theirs \cap Claimed \subseteq unchecked)'
    BY <1>1, <1>2, <2>1 DEF TheirsInv
  <2>3. ASSUME NEW p \in theirs \ unchecked' PROVE Stood(work.scope, p)
    <3>1. p \in theirs \ Claimed /\ p \in Paths
      BY <2>1, <1>t DEF TheirsInv
    <3>2. disk[p] # head[p] => Recorded(p, Row(p))
      BY <2>1, <3>1, CleanFacts DEF Typed
    <3> QED BY <1>1, <2>1, <3>1, <3>2 DEF TheirsInv, Stood
  <2> QED BY <1>1, <1>4, <1>5, <2>1, <2>2, <2>3 DEF TheirsInv
<1>7. CASE ~Check
  <2>1. UNCHANGED unchecked
    BY <1>7 DEF Start, Call, CoderRetries, gaps
  <2>2. (theirs \cap Claimed \subseteq unchecked)'
    BY <1>1, <1>2, <2>1 DEF TheirsInv
  <2>3. work'.at \in {"checked", "called"} => work.at = "checked" /\ work'.scope = work.scope
    BY <1>7 DEF Start, Call, CoderRetries
  <2>4. work'.at \in {"checked", "called"} => \A p \in theirs \ unchecked : Stood(work.scope, p)
    BY <2>3 DEF TheirsInv
  <2> QED BY <1>1, <1>4, <1>5, <2>1, <2>2, <2>3, <2>4 DEF TheirsInv
<1> QED BY <1>6, <1>7

LEMMA TheirsCoder ==
  ASSUME Typed, TurnInv, TheirsInv,
         NEW files \in Files, CoderReturns(files) \/ CoderStops(files)
  PROVE  TheirsInv'
<1>t. theirs \subseteq Paths
  BY DEF Typed
<1>1. /\ work.at = "called" /\ disk' = files /\ theirs' = theirs \ Differ(disk, files)
      /\ UNCHANGED <<head, claims, baseline, step, unchecked>>
  BY DEF CoderReturns, CoderStops, Coded, rows, gaps
<1>2. \A t \in Slices : step'[t] # "coding"
  BY <1>1, NoneAtPrompt
<1>3. (theirs \cap Claimed \subseteq unchecked)'
  BY <1>1 DEF TheirsInv, Claimed
<1>4. CASE CoderStops(files)
  BY <1>2, <1>3, <1>4 DEF TheirsInv, CoderStops, Prompted
<1>5. CASE CoderReturns(files)
  <2>s. PICK s : s = work.scope
    OBVIOUS
  <2>1. work'.at = "returned" /\ work'.scope = s /\ work'.seen = <<files, head>>
    BY <1>5, <2>s DEF CoderReturns
  <2>2. ASSUME NEW p \in theirs' \ unchecked PROVE Stood(s, p)'
    <3>1. p \in theirs \ unchecked /\ p \in Paths /\ disk'[p] = disk[p]
      BY <1>1, <1>t, <2>2 DEF Differ
    <3>2. Stood(s, p)
      BY <1>1, <2>s, <3>1 DEF TheirsInv
    <3> QED BY <1>1, <3>1, <3>2 DEF Stood, Row
  <2>3. (\A p \in theirs \ unchecked : Stood(work.scope, p))'
    BY <1>1, <2>1, <2>2
  <2> QED BY <1>2, <1>3, <2>1, <2>3 DEF TheirsInv, Prompted
<1> QED BY <1>4, <1>5

LEMMA TheirsObserve == ASSUME Typed, TurnInv, TheirsInv, Observe PROVE TheirsInv'
<1>c. PICK c : c = ChangedByRound(work.scope)
  OBVIOUS
<1>1. /\ work.at = "returned" /\ work'.at = "observed" /\ work'.seen = work.seen
      /\ work'.changed = c
      /\ UNCHANGED <<disk, head, claims, baseline, step, theirs, unchecked>>
  BY <1>c DEF Observe, tree, rows, gaps
<1>2. \A t \in Slices : step'[t] # "coding"
  BY <1>1, NoneAtPrompt
<1>3. (theirs \cap Claimed \subseteq unchecked)'
  BY <1>1 DEF TheirsInv, Claimed
<1>4. work.scope \in Slices
  BY <1>1, WorkFacts DEF Typed
<1>5. ASSUME NEW p \in theirs \ unchecked, p \in DOMAIN ChangedByRound(work.scope)
      PROVE  disk[p] # work.seen[1][p]
  <2>1. p \notin DOMAIN claims[work.scope]
    BY <1>4 DEF TheirsInv, Claimed
  <2>2. ~Stood(work.scope, p)
    BY <1>4, <1>5, <2>1, RoundFacts
  <2> QED BY <1>1, <2>2 DEF TheirsInv
<1> QED BY <1>c, <1>1, <1>2, <1>3, <1>5 DEF TheirsInv, Prompted

LEMMA TheirsRecord ==
  ASSUME Typed, TurnInv, TheirsInv, NEW result \in {"verifying", "blocked"}, Record(result)
  PROVE  TheirsInv'
<1>1. /\ work.at = "observed" /\ work.seen = <<disk, head>> /\ UNCHANGED <<theirs, unchecked>>
      /\ Enter(work.scope, result) /\ work'.at = "none"
  BY DEF Record, Unchanged, gaps
<1>2. \A t \in Slices : step'[t] # "coding"
  BY <1>1, NoneAtPrompt DEF Typed, Enter, Scopes
<1>3. theirs \cap DOMAIN work.changed \subseteq unchecked
  BY <1>1 DEF TheirsInv
<1>4. Claimed' = Claimed \cup DOMAIN work.changed
  <2>1. work.scope \in Slices
        /\ DOMAIN claims'[work.scope] = DOMAIN work.changed \cup DOMAIN claims[work.scope]
        /\ \A t \in Slices \ {work.scope} : claims'[t] = claims[t]
    BY RecordFacts
  <2> QED BY <2>1 DEF Claimed
<1> QED BY <1>1, <1>2, <1>3, <1>4 DEF TheirsInv, Prompted

LEMMA TheirsIssue ==
  ASSUME Typed, TurnInv, TheirsInv, NEW s \in Slices, Issue(s)
  PROVE  TheirsInv'
<1>1. /\ UNCHANGED <<disk, head, claims, theirs, unchecked, work>> /\ Idle
      /\ Enter(s, "coding") /\ Turn(s) /\ s \in Scopes
  BY DEF Issue, tree, gaps, Scopes
<1>2. baseline'[s] = Changes
  BY IssueFacts
<1>3. \A t \in Slices : step'[t] = "coding" => t = s
  BY <1>1, MoveKeepsTurn DEF AtWork, Steps, Scopes
<1>4. \A p \in Paths : disk[p] = head[p] \/ (p \in DOMAIN Changes /\ Changes[p] = Row(p))
  BY ChangesFacts DEF Typed
<1>5. \A p \in theirs : Stood(s, p)'
  BY <1>1, <1>2, <1>4 DEF Stood, Row, Typed
<1>6. (theirs \cap Claimed \subseteq unchecked)'
  BY <1>1 DEF TheirsInv, Claimed
<1> QED BY <1>1, <1>3, <1>5, <1>6 DEF TheirsInv, Prompted

LEMMA TheirsEdit ==
  ASSUME Typed, TheirsInv,
         NEW p \in Paths, NEW content \in Contents \cup {Absent}, Edit(p, content)
  PROVE  TheirsInv'
<1>t. theirs \subseteq Paths
  BY DEF Typed
<1>1. /\ disk'[p] = content /\ \A q \in Paths \ {p} : disk'[q] = disk[q]
      /\ UNCHANGED <<head, recorded, claims, baseline, step, work>>
      /\ work.at # "called"
  BY DEF Edit, rows, Typed, Files
<1>2. /\ theirs' \subseteq theirs \cup ({p} \ Claimed)
      /\ p \in theirs' => ~PutBack(p, content)
      /\ unchecked \subseteq unchecked'
      /\ work.at = "checked" => p \in unchecked'
  BY DEF Edit
<1>c. Claimed' = Claimed
  BY <1>1 DEF Claimed
<1>3. (theirs \cap Claimed \subseteq unchecked)'
  BY <1>c, <1>2 DEF TheirsInv
<1>4. \A t, q : q \in theirs' /\ q # p /\ Stood(t, q) => Stood(t, q)'
  BY <1>1, <1>2, <1>t DEF Stood, Row
<1>5. ASSUME NEW t \in Slices, Prompted(t)', NEW q \in theirs' \ Claimed', Recorded(q, Row(q))'
      PROVE  Stood(t, q)'
  <2>1. q # p
    BY <1>1, <1>2, <1>5 DEF PutBack, Recorded, Row
  <2>2. q \in theirs \ Claimed /\ q \in Paths \ {p} /\ Prompted(t)
    BY <1>c, <1>1, <1>2, <1>5, <2>1, <1>t DEF Prompted
  <2>3. Recorded(q, Row(q))
    BY <1>1, <1>5, <2>2 DEF Recorded, Row
  <2>4. Stood(t, q)
    BY <2>2, <2>3 DEF TheirsInv
  <2> QED BY <1>4, <1>5, <2>1, <2>4
<1>s. PICK s : s = work.scope
  OBVIOUS
<1>6. ASSUME work.at = "checked", NEW q \in theirs' \ unchecked'
      PROVE  Stood(s, q)'
  <2>1. q # p /\ q \in theirs \ unchecked
    BY <1>2, <1>6
  <2>2. Stood(s, q)
    BY <1>s, <1>6, <2>1 DEF TheirsInv
  <2> QED BY <1>4, <1>6, <2>1, <2>2
<1>7. ASSUME work.at = "returned", NEW q \in theirs' \ unchecked',
             disk'[q] = work.seen[1][q]
      PROVE  Stood(s, q)'
  <2>1. q # p
    BY <1>1, <1>2, <1>7 DEF PutBack
  <2>2. q \in theirs \ unchecked /\ q \in Paths \ {p} /\ disk[q] = work.seen[1][q]
    BY <1>1, <1>2, <1>7, <2>1, <1>t
  <2>3. Stood(s, q)
    BY <1>s, <1>7, <2>2 DEF TheirsInv
  <2> QED BY <1>4, <1>7, <2>1, <2>3
<1>8. ASSUME work.at = "observed", NEW q \in (theirs' \ unchecked') \cap DOMAIN work.changed
      PROVE  disk'[q] # work.seen[1][q]
  <2>1. CASE q = p
    BY <1>1, <1>2, <1>8, <2>1 DEF PutBack
  <2>2. CASE q # p
    BY <1>1, <1>2, <1>8, <2>2, <1>t DEF TheirsInv
  <2> QED BY <2>1, <2>2
<1>9. (work.at \in {"checked", "called"} =>
         \A q \in theirs \ unchecked : Stood(work.scope, q))'
  BY <1>1, <1>s, <1>6
<1>10. (work.at = "returned" => \A q \in theirs \ unchecked :
          disk[q] = work.seen[1][q] => Stood(work.scope, q))'
  BY <1>1, <1>s, <1>7
<1> QED BY <1>1, <1>3, <1>5, <1>8, <1>9, <1>10 DEF TheirsInv

LEMMA TheirsCommitFile ==
  ASSUME Typed, TheirsInv, NEW p \in Paths, CommitFile(p)
  PROVE  TheirsInv'
<1>t. theirs \subseteq Paths
  BY DEF Typed
<1>1. /\ UNCHANGED <<disk, recorded, claims, baseline, step, work, theirs, unchecked>>
      /\ \A q \in Paths \ {p} : head'[q] = head[q]
      /\ head'[p] = disk[p]
  BY DEF CommitFile, rows, gaps, Typed, Files
<1>2. \A t, q : q \in theirs /\ Stood(t, q) => Stood(t, q)'
  BY <1>1, <1>t DEF Stood, Row
<1>c. Claimed' = Claimed
  BY <1>1 DEF Claimed
<1>3. ASSUME NEW t \in Slices, Prompted(t)', NEW q \in theirs' \ Claimed', Recorded(q, Row(q))'
      PROVE  Stood(t, q)'
  <2>1. CASE q = p
    BY <1>1, <2>1 DEF Stood
  <2>2. CASE q # p
    <3>1. Recorded(q, Row(q))
      BY <1>1, <1>3, <2>2, <1>t DEF Recorded, Row
    <3>2. Stood(t, q)
      BY <1>c, <1>1, <1>3, <3>1 DEF TheirsInv, Prompted
    <3> QED BY <1>1, <1>2, <1>3, <3>2
  <2> QED BY <2>1, <2>2
<1>4. (theirs \cap Claimed \subseteq unchecked)'
  BY <1>c, <1>1 DEF TheirsInv
<1>w. PICK w : w = work
  OBVIOUS
<1>v. work' = w
  BY <1>w, <1>1
<1>5. (work.at \in {"checked", "called"} =>
         \A q \in theirs \ unchecked : Stood(work.scope, q))'
  <2>1. w.at \in {"checked", "called"} => \A q \in theirs \ unchecked : Stood(w.scope, q)
    BY <1>w DEF TheirsInv
  <2> QED BY <1>v, <1>1, <1>2, <2>1
<1>6. (work.at = "returned" => \A q \in theirs \ unchecked :
         disk[q] = work.seen[1][q] => Stood(work.scope, q))'
  <2>1. w.at = "returned" => \A q \in theirs \ unchecked :
          disk[q] = w.seen[1][q] => Stood(w.scope, q)
    BY <1>w DEF TheirsInv
  <2> QED BY <1>v, <1>1, <1>2, <2>1
<1>7. (work.at = "observed" =>
         \A q \in (theirs \ unchecked) \cap DOMAIN work.changed : disk[q] # work.seen[1][q])'
  BY <1>1 DEF TheirsInv
<1> QED BY <1>3, <1>4, <1>5, <1>6, <1>7 DEF TheirsInv

LEMMA TheirsStep == Typed /\ TurnInv /\ TheirsInv /\ [Next]_vars => TheirsInv'
<1> SUFFICES ASSUME Typed, TurnInv, TheirsInv, [Next]_vars
             PROVE  TheirsInv'
  OBVIOUS
<1>1. ASSUME NEW s \in Scopes, NEW v, v # "coding", Enter(s, v)
      PROVE  \A t \in Slices : step'[t] = "coding" => step[t] = "coding"
  BY <1>1 DEF Enter, Typed, Scopes
<1>2. CASE Coding
  <2>1. CASE Stop
    BY <2>1, TheirsKept DEF Stop, tree, rows, gaps
  <2> QED BY <1>2, <2>1, TheirsIssue, TheirsCall, TheirsCoder, TheirsObserve, TheirsRecord
          DEF Coding, Prompt
<1>3. CASE Deciding
  <2>1. ASSUME NEW s \in Slices, Test(s) PROVE TheirsInv'
    BY <2>1, TheirsKept DEF Test, tree, rows, gaps
  <2>2. ASSUME NEW result \in {"reviewing", "issue"}, Verify(result) PROVE TheirsInv'
    <3>1. work.scope \in Scopes
      BY <2>2, WorkFacts DEF Verify, Typed
    <3> QED BY <1>1, <2>2, <3>1, TheirsKept DEF Verify, tree, rows, gaps
  <2>3. ASSUME NEW s \in Slices, NEW verdict \in {"pending", "issue", "blocked"},
               Review(s, verdict)
        PROVE  TheirsInv'
    <3>1. s \in Scopes
      BY DEF Scopes
    <3> QED BY <1>1, <2>3, <3>1, TheirsKept DEF Review, tree, rows, gaps
  <2>4. CASE Pass
    <3>1. Milestone \in Scopes
      BY DEF Scopes
    <3> QED BY <1>1, <2>4, <3>1, TheirsKept DEF Pass, tree, rows, gaps
  <2>5. ASSUME NEW back \in SUBSET Slices, SendBack(back) PROVE TheirsInv'
    <3>1. \A t \in Slices : step'[t] = "coding" => step[t] = "coding"
      BY <2>5 DEF SendBack, Scopes
    <3> QED BY <2>5, <3>1, TheirsKept DEF SendBack, tree, rows, gaps
  <2> QED BY <1>3, <2>1, <2>2, <2>3, <2>4, <2>5 DEF Deciding
<1>4. CASE Approving
  <2>1. ASSUME NEW s \in Scopes, Compare(s) PROVE TheirsInv'
    BY <2>1, TheirsKept DEF Compare, tree, rows
  <2>2. CASE Accept
    <3>1. work.scope \in Scopes
      BY <2>2, WorkFacts DEF Accept, Typed
    <3> QED BY <1>1, <2>2, <3>1, TheirsKept DEF Accept, tree, rows, gaps
  <2>3. CASE Capture
    BY <2>3, TheirsKept DEF Capture, tree, rows, gaps
  <2>4. CASE Append
    <3>1. work.scope \in Scopes
      BY <2>4, WorkFacts DEF Append, Typed
    <3>2. work'.at = "approved"
      BY <2>4, SameWork
    <3> QED BY <1>1, <2>4, <3>1, <3>2, TheirsKept DEF Append, tree, rows, gaps
  <2>5. CASE Commit
    <3>1. \A t \in Slices : step[t] # "coding"
      BY <2>5, NoneAtPrompt DEF Commit
    <3>2. UNCHANGED <<claims, theirs, unchecked, step>> /\ work'.at = "none"
      BY <2>5 DEF Commit, Land, rows, gaps
    <3> QED BY <3>1, <3>2 DEF TheirsInv, Prompted, Claimed
  <2>6. ASSUME NEW retain \in BOOLEAN, Cancel(retain) PROVE TheirsInv'
    <3>1. work.scope \in Scopes
      BY <2>6, WorkFacts DEF Cancel, Typed
    <3>2. \A t \in Slices : step'[t] = "coding" => step[t] = "coding"
      BY <1>1, <2>6, <3>1 DEF Cancel
    <3> QED BY <2>6, <3>2, TheirsKept DEF Cancel, tree, rows, gaps
  <2> QED BY <1>4, <2>1, <2>2, <2>3, <2>4, <2>5, <2>6 DEF Approving
<1>5. CASE Others
  <2>1. ASSUME NEW s \in Slices, Resolve(s) PROVE TheirsInv'
    <3>1. s \in Scopes
      BY DEF Scopes
    <3> QED BY <1>1, <2>1, <3>1, TheirsKept DEF Resolve, tree, rows, gaps
  <2> QED BY <1>5, <2>1, TheirsIssue, TheirsEdit, TheirsCommitFile DEF Others, PromptAllowingDirt
<1>6. CASE UNCHANGED vars
  BY <1>6, TheirsKept DEF vars, tree, rows, gaps
<1> QED BY <1>2, <1>3, <1>4, <1>5, <1>6 DEF Next

-----------------------------------------------------------------------------
(* What the runner does undisturbed *)

LEMMA AccountInit == Init => AccountInv
<1> SUFFICES ASSUME Init PROVE AccountBody
  BY DEF AccountInv
<1>1. found = {} /\ Idle /\ \A p \in Paths : disk[p] = head[p]
  BY DEF Init
<1>2. Claimed = {} /\ BaselineInv
  BY NoRows DEF Init, Claimed, BaselineInv
<1>3. RoundInv /\ PayloadInv
  BY <1>1 DEF RoundInv, PayloadInv
<1> QED BY <1>1, <1>2, <1>3 DEF AccountBody, Accounted

(* Steps that leave the tree and the rows alone.                            *)
LEMMA AccountKept ==
  ASSUME AccountBody, PayloadInv',
         UNCHANGED <<disk, head, recorded, latest, claims, baseline, found>>,
         AtRest' => AtRest /\ \A s \in Slices : Owner(s) => Owner(s)',
         \A s \in Slices : step'[s] \in {"coding", "started"} => step[s] \in {"coding", "started"},
         \A s \in Slices : Prompted(s)' => Prompted(s),
         work'.at \notin {"returned", "observed"}
  PROVE  AccountBody'
<1>1. AtRest' => Accounted'
  BY DEF AccountBody, Accounted, Claims, Recorded, Row
<1>2. AtRest' => (\A p \in Claimed : IsCurrent(p))'
  BY DEF AccountBody, Claimed, IsCurrent, Describes
<1>3. BaselineInv'
  BY DEF AccountBody, BaselineInv, Claims, Describes
<1>4. RoundInv'
  BY DEF RoundInv
<1> QED BY <1>1, <1>2, <1>3, <1>4 DEF AccountBody

(* When the turn is one's own and nothing of it has started, all is settled.*)
LEMMA NoneStarted ==
  ASSUME TurnInv, NEW s \in Scopes, Turn(s), step[s] # "started"
  PROVE  \A t \in Slices : step[t] # "started"
BY OneAtWork DEF AtWork, Scopes

LEMMA TurnIsKept ==
  ASSUME Typed, NEW s \in Scopes, NEW v, v # "accepted", Turn(s), Enter(s, v)
  PROVE  \A t \in Slices : Turn(t) => Turn(t)'
<1>1. Waiting' = Waiting
  BY DEF Waiting, Turn, Typed, Enter
<1> QED BY <1>1 DEF Turn

LEMMA OneSliceMoves ==
  ASSUME Typed, NEW s \in Scopes, NEW v, Enter(s, v)
  PROVE  step'[s] = v /\ \A t \in Scopes \ {s} : step'[t] = step[t]
BY DEF Enter, Typed

LEMMA NoPayload == work'.at \notin {"captured", "approved"} => PayloadInv'
BY DEF PayloadInv

LEMMA AccountIssue ==
  ASSUME Typed, TurnInv, AccountBody, NEW s \in Slices, Issue(s)
  PROVE  AccountBody'
<1>1. /\ UNCHANGED <<disk, head, latest, claims, work>> /\ Idle /\ s \in Scopes
      /\ Enter(s, "coding") /\ Turn(s) /\ step[s] = "issue"
      /\ found' = found \cup {<<p, Changes[p]>> : p \in Unrecorded}
  BY DEF Issue, tree, Scopes
<1>2. AtRest
  BY <1>1, NoneStarted DEF AtRest
<1>3. /\ DOMAIN Changes = {p \in Paths : disk[p] # head[p]}
      /\ \A p \in DOMAIN Changes : Changes[p] = Row(p)
      /\ \A p \in Paths : Row(p) \in Rows /\ Says(Row(p)) = disk[p]
  BY ChangesFacts DEF Typed
<1>4. \A p \in DOMAIN Changes : Recorded(p, Changes[p]) /\ Claims(s, p, Changes[p])
  BY <1>1, <1>2, <1>3, TurnIsUnique DEF AccountBody, Accounted, Owner, Scopes
<1>5. found' = {}
  BY <1>1, <1>4 DEF Unrecorded, AccountBody
<1>6. Accounted'
  <2>1. \A t \in Slices : Turn(t) => Turn(t)'
    BY <1>1, TurnIsKept
  <2>2. \A p \in DOMAIN Changes : p \in DOMAIN recorded' /\ recorded'[p] = Changes[p]
    BY IssueFacts
  <2> QED BY <1>1, <1>3, <1>4, <2>1, <2>2 DEF Accounted, Owner, Recorded, Claims, Row
<1>7. (\A p \in Claimed : IsCurrent(p))'
  BY <1>1, <1>2 DEF AccountBody, Claimed, IsCurrent, Describes
<1>8. BaselineInv'
  <2> SUFFICES ASSUME NEW t \in Slices, NEW p \in DOMAIN baseline'[t]
               PROVE  /\ step'[t] \in {"coding", "started"} =>
                           p \in DOMAIN claims[t] /\ claims[t][p] = baseline'[t][p]
                      /\ step'[t] = "coding" => disk[p] = Says(baseline'[t][p])
    BY <1>1 DEF BaselineInv, Claims, Describes, Prompted
  <2>1. CASE t = s
    <3>1. baseline'[t] = Changes
      BY <2>1, IssueFacts
    <3> QED BY <2>1, <3>1, <1>3, <1>4 DEF Claims
  <2>2. CASE t # s
    <3>1. step'[t] \notin {"coding", "started"}
      BY <1>1, <2>2, OneAtWork, OneSliceMoves DEF AtWork, Scopes
    <3> QED BY <3>1
  <2> QED BY <2>1, <2>2
<1>9. RoundInv'
  BY <1>1 DEF RoundInv
<1>10. PayloadInv'
  BY <1>1, NoPayload
<1> QED BY <1>5, <1>6, <1>7, <1>8, <1>9, <1>10 DEF AccountBody

(* From its start until its record the coder's slice is started.            *)
LEMMA CoderIsStarted ==
  ASSUME Typed, TurnInv,
         work.at \in {"starting", "checked", "called", "returned", "observed"}
  PROVE  /\ work.scope \in Slices /\ work.scope \in Scopes /\ Turn(work.scope)
         /\ step[work.scope] = "started"
         /\ \A t \in Slices \ {work.scope} : step[t] \notin {"coding", "started"}
<1>1. work.scope \in Slices /\ step[work.scope] = "started"
  BY WorkFacts DEF Typed, TurnInv
<1>2. Turn(work.scope) /\ \A t \in Scopes : AtWork(t) => t = work.scope
  BY WorkHasTurn
<1> QED BY <1>1, <1>2 DEF AtWork, Scopes

LEMMA AccountStart ==
  ASSUME Typed, TurnInv, AccountBody, NEW s \in Slices, Start(s)
  PROVE  AccountBody'
<1>1. /\ UNCHANGED <<disk, head, recorded, latest, claims, baseline, found>> /\ Idle
      /\ Enter(s, "started") /\ Turn(s) /\ step[s] = "coding" /\ s \in Scopes
      /\ work'.at = "starting" /\ work'.scope = s
  BY DEF Start, tree, rows, Scopes
<1>2. AtRest /\ \A t \in Slices : Owner(t) => Owner(t)'
  BY <1>1, NoneStarted, TurnIsKept DEF AtRest, Owner
<1>3. \A t \in Slices \ {s} : step[t] \notin {"coding", "started"} /\ step'[t] = step[t]
  BY <1>1, OneAtWork, OneSliceMoves DEF AtWork, Scopes
<1>4. \A t \in Slices : Prompted(t)' => Prompted(t)
  BY <1>1, <1>3 DEF Prompted
<1>5. PayloadInv'
  BY <1>1, NoPayload
<1> QED BY <1>1, <1>2, <1>3, <1>4, <1>5, AccountKept

LEMMA AccountCall ==
  ASSUME Typed, TurnInv, AccountBody, Check \/ Call \/ CoderRetries
  PROVE  AccountBody'
<1>1. /\ UNCHANGED <<disk, head, recorded, latest, claims, baseline, found, step>>
      /\ work.at \in {"starting", "checked", "called"}
      /\ work'.at \in {"starting", "checked", "called"} /\ work'.scope = work.scope
  BY SameWork DEF Check, Call, CoderRetries, tree, rows
<1>2. AtRest /\ \A t \in Slices : Owner(t) => Owner(t)'
  BY <1>1 DEF AtRest, Owner, Turn, Waiting
<1>3. \A t \in Slices : Prompted(t)' => Prompted(t)
  BY <1>1 DEF Prompted
<1>4. PayloadInv'
  BY <1>1, NoPayload
<1> QED BY <1>1, <1>2, <1>3, <1>4, AccountKept

LEMMA AccountReturn ==
  ASSUME Typed, TurnInv, AccountBody, NEW files \in Files, CoderReturns(files)
  PROVE  AccountBody'
<1> DEFINE s == work.scope
<1>1. /\ work.at = "called" /\ disk' = files /\ head = work.seen[2]
      /\ UNCHANGED <<head, recorded, latest, claims, baseline, found, step>>
  BY DEF CoderReturns, Coded, rows
<1>2. work'.at = "returned" /\ work'.scope = s /\ work'.seen = <<files, head>>
  BY DEF CoderReturns
<1>3. /\ s \in Slices /\ s \in Scopes /\ Turn(s) /\ step[s] = "started"
      /\ \A t \in Slices \ {s} : step[t] \notin {"coding", "started"}
  BY <1>1, CoderIsStarted
<1>4. ~AtRest'
  BY <1>1, <1>2, <1>3 DEF AtRest
<1>5. BaselineInv'
  BY <1>1, <1>2, <1>3 DEF AccountBody, BaselineInv, Claims, Prompted
<1>6. Accounted /\ \A p \in Claimed : IsCurrent(p)
  BY <1>1 DEF AccountBody, AtRest
<1>7. ASSUME NEW p \in Claimed
      PROVE  p \in DOMAIN latest /\ (IsCurrent(p)' \/ Touched(s, p)')
  <2>1. IsCurrent(p) /\ p \in Paths
    BY <1>6, RowMapFacts DEF Claimed, Typed
  <2>2. p \in DOMAIN latest
    BY <2>1 DEF IsCurrent
  <2>3. CASE files[p] = disk[p]
    BY <1>1, <2>1, <2>3 DEF IsCurrent, Describes
  <2>4. CASE files[p] # disk[p] /\ files[p] = head[p]
    <3>1. Claims(s, p, Row(p))
      BY <1>3, <1>6, <2>1, <2>4, TurnIsUnique DEF Accounted, Owner, Scopes
    <3>2. Says(Row(p)) = disk[p]
      BY <2>1, ChangesFacts DEF Typed
    <3>3. p \in DOMAIN claims[s] /\ Says(claims[s][p]) # files[p]
      BY <2>4, <3>1, <3>2 DEF Claims
    <3> QED BY <1>1, <1>2, <2>2, <3>3 DEF Touched
  <2>5. CASE files[p] # disk[p] /\ files[p] # head[p]
    <3>1. Says(RowOf(head[p], files[p])) = files[p]
      BY <2>1, RowSays DEF Typed, Files
    <3>2. p \in DOMAIN baseline[s] => disk[p] = Says(baseline[s][p])
      BY <1>1, <1>3, DescribesWhatItSays DEF AccountBody, BaselineInv, Prompted
    <3>3. ~(p \in DOMAIN baseline[s] /\ baseline[s][p] = RowOf(head[p], files[p]))
      BY <2>5, <3>1, <3>2
    <3> QED BY <1>1, <1>2, <2>2, <2>5, <3>3 DEF Touched, Stood, Row
  <2> QED BY <2>3, <2>4, <2>5, <2>2
<1>8. RoundInv'
  <2>1. \A p \in Claimed' :
          p \in DOMAIN latest' /\ (IsCurrent(p)' \/ Touched(s, p)')
    BY <1>1, <1>7 DEF Claimed
  <2> QED BY <1>1, <1>2, <2>1 DEF RoundInv
<1>9. PayloadInv'
  BY <1>2, NoPayload
<1> QED BY <1>1, <1>4, <1>5, <1>8, <1>9 DEF AccountBody

LEMMA AccountStops ==
  ASSUME Typed, TurnInv, AccountBody, Stop \/ \E files \in Files : CoderStops(files)
  PROVE  AccountBody'
<1>1. /\ ~Idle /\ Idle'
      /\ UNCHANGED <<head, recorded, latest, claims, baseline, found, step>>
      /\ Stop => UNCHANGED disk
  BY DEF Stop, CoderStops, Coded, tree, rows
<1>2. \A t \in Slices : step[t] # "coding"
  BY <1>1, NoneAtPrompt
<1>3. BaselineInv'
  BY <1>1, <1>2 DEF AccountBody, BaselineInv, Claims, Prompted
<1>4. RoundInv' /\ PayloadInv'
  BY <1>1, NoPayload DEF RoundInv
<1>5. CASE work.at \in {"starting", "checked", "called", "returned", "observed"}
  <2>1. work.scope \in Slices /\ step[work.scope] = "started"
    BY <1>5, CoderIsStarted
  <2>2. ~AtRest'
    BY <1>1, <2>1 DEF AtRest
  <2> QED BY <1>1, <1>3, <1>4, <2>2 DEF AccountBody
<1>6. CASE work.at \notin {"starting", "checked", "called", "returned", "observed"}
  <2>1. Stop /\ work.at # "approved" /\ UNCHANGED disk
    BY <1>1, <1>6 DEF Stop, CoderStops, Coded
  <2>2. AtRest' => Accounted'
    BY <1>1, <2>1
       DEF AtRest, AccountBody, Accounted, Owner, Turn, Waiting, Claims, Recorded, Row
  <2>3. AtRest' => (\A p \in Claimed : IsCurrent(p))'
    BY <1>1, <2>1 DEF AtRest, AccountBody, Claimed, IsCurrent, Describes
  <2> QED BY <1>1, <1>3, <1>4, <2>2, <2>3 DEF AccountBody
<1> QED BY <1>5, <1>6

LEMMA AccountObserve ==
  ASSUME Typed, TurnInv, AccountBody, Observe
  PROVE  AccountBody'
<1> DEFINE s == work.scope
<1>c. PICK c : c = ChangedByRound(s)
  OBVIOUS
<1>1. /\ work.at = "returned" /\ work'.at = "observed" /\ work'.scope = s
      /\ work'.seen = work.seen /\ work'.changed = c
      /\ UNCHANGED <<disk, head, recorded, latest, claims, baseline, found, step>>
  BY <1>c DEF Observe, tree, rows
<1>2. /\ s \in Slices /\ step[s] = "started"
      /\ \A t \in Slices : step[t] # "coding"
  BY <1>1, CoderIsStarted, NoneAtPrompt
<1>3. ~AtRest'
  BY <1>1, <1>2 DEF AtRest
<1>4. BaselineInv'
  BY <1>1, <1>2 DEF AccountBody, BaselineInv, Claims, Prompted
<1>5. DOMAIN c \subseteq Paths /\ DOMAIN claims[s] \subseteq Paths
  BY <1>2, <1>c, RoundFacts, RowMapFacts DEF Typed
<1>6. \A p \in Paths : /\ p \in DOMAIN c <=> Touched(s, p)
                       /\ p \in DOMAIN c => Describes(c[p], p)
                       /\ disk[p] # head[p] /\ ~Stood(s, p) => c[p] = Row(p)
  BY <1>2, <1>c, <1>5, RoundFacts DEF Touched
<1>7. \A p \in Paths : /\ p \in DOMAIN c <=> Touched(s, p)'
                       /\ p \in DOMAIN c => Describes(c[p], p)'
                       /\ disk[p] # head[p] /\ ~Stood(s, p)' => c[p] = Row(p)'
  <2>1. \A p \in Paths : /\ Touched(s, p)' <=> Touched(s, p)
                         /\ Stood(s, p)' <=> Stood(s, p)
                         /\ Row(p)' = Row(p)
    BY <1>1 DEF Touched, Stood, Row
  <2>2. \A p \in Paths : Describes(c[p], p)' <=> Describes(c[p], p)
    BY <1>1 DEF Describes
  <2> QED BY <1>6, <2>1, <2>2
<1>8. RoundInv'
  <2>1. /\ disk = work.seen[1]
        /\ \A p \in Paths : head[p] = work.seen[2][p] \/ head[p] = disk[p]
        /\ HeadIsSeen =>
             \A p \in Claimed : p \in DOMAIN latest /\ (IsCurrent(p) \/ Touched(s, p))
    BY <1>1 DEF AccountBody, RoundInv
  <2>2. HeadIsSeen' => \A p \in Claimed' :
                         p \in DOMAIN latest' /\ (IsCurrent(p)' \/ Touched(s, p)')
    BY <1>1, <2>1 DEF HeadIsSeen, Claimed, IsCurrent, Describes, Touched, Stood, Row
  <2> QED BY <1>1, <1>7, <2>1, <2>2 DEF RoundInv, Describes
<1>9. PayloadInv'
  BY <1>1, NoPayload
<1> QED BY <1>1, <1>3, <1>4, <1>8, <1>9 DEF AccountBody

LEMMA AccountRecord ==
  ASSUME Typed, TurnInv, AccountBody,
         NEW result \in {"verifying", "blocked"}, Record(result)
  PROVE  AccountBody'
<1> DEFINE s == work.scope
<1>1. /\ work.at = "observed" /\ work.seen = <<disk, head>> /\ Idle'
      /\ UNCHANGED <<disk, head, baseline, found>>
      /\ Enter(s, result)
  BY DEF Record, Unchanged, tree
<1>2. /\ s \in Slices /\ s \in Scopes /\ Turn(s) /\ step[s] = "started"
      /\ \A t \in Slices \ {s} : step[t] \notin {"coding", "started"}
  BY <1>1, CoderIsStarted
<1>3. /\ \A t \in Slices : step'[t] \notin {"coding", "started"}
      /\ \A t \in Slices : Turn(t) => Turn(t)'
  BY <1>1, <1>2, TurnIsKept, OneSliceMoves DEF Scopes
<1>4. /\ \A p \in Claimed : p \in DOMAIN latest /\ (IsCurrent(p) \/ Touched(s, p))
      /\ \A p \in Paths :
           /\ p \in DOMAIN work.changed <=> Touched(s, p)
           /\ p \in DOMAIN work.changed => Describes(work.changed[p], p)
           /\ disk[p] # head[p] /\ ~Stood(s, p) => work.changed[p] = Row(p)
  BY <1>1 DEF AccountBody, RoundInv, HeadIsSeen
<1>5. DOMAIN work.changed \subseteq Paths
  BY RecordFacts, RowMapFacts
<1>6. ASSUME NEW p \in Paths, disk[p] # head[p]
      PROVE  p \in DOMAIN claims'[s] /\ claims'[s][p] = Row(p)
  <2>1. CASE ~Stood(s, p)
    <3>1. p \in DOMAIN work.changed /\ work.changed[p] = Row(p)
      BY <1>4, <1>6, <2>1 DEF Touched
    <3> QED BY <3>1, RecordFacts
  <2>2. CASE Stood(s, p)
    <3>1. Claims(s, p, Row(p))
      BY <1>2, <1>6, <2>2 DEF Stood, AccountBody, BaselineInv
    <3>2. Says(claims[s][p]) = disk[p]
      BY <3>1, ChangesFacts DEF Claims, Typed
    <3>3. p \notin DOMAIN work.changed
      BY <1>4, <2>2, <3>2 DEF Touched
    <3> QED BY <3>1, <3>3, RecordFacts DEF Claims
  <2> QED BY <2>1, <2>2
<1>7. Accounted'
  <2>1. \A p \in DOMAIN claims'[s] : p \in DOMAIN recorded' /\ recorded'[p] = claims'[s][p]
    BY RecordFacts
  <2>2. \A p \in Paths : disk[p] # head[p] =>
          /\ p \in DOMAIN recorded' /\ recorded'[p] = Row(p)
          /\ p \in DOMAIN claims'[s] /\ claims'[s][p] = Row(p)
    BY <1>6, <2>1
  <2> QED BY <1>1, <1>2, <1>3, <2>2 DEF Accounted, Owner, Recorded, Claims, Row
<1>8. ASSUME NEW p \in Claimed'
      PROVE  p \in DOMAIN latest' /\ disk[p] = Says(latest'[p])
  <2>1. CASE p \in DOMAIN work.changed
    BY <1>4, <1>5, <2>1, RecordFacts, DescribesWhatItSays
  <2>2. CASE p \notin DOMAIN work.changed
    <3>1. p \in Claimed
      BY <1>2, <1>8, <2>2, RecordFacts DEF Claimed
    <3>2. p \in Paths
      BY <3>1, RowMapFacts DEF Claimed, Typed
    <3>3. IsCurrent(p)
      BY <1>4, <2>2, <3>1, <3>2
    <3>4. latest'[p] = latest[p] /\ p \in DOMAIN latest'
      BY <2>2, <3>3, RecordFacts DEF IsCurrent
    <3> QED BY <3>3, <3>4, DescribesWhatItSays DEF IsCurrent
  <2> QED BY <2>1, <2>2
<1>9. (\A p \in Claimed : IsCurrent(p))'
  BY <1>1, <1>8 DEF IsCurrent, Describes
<1>10. BaselineInv'
  BY <1>1, <1>3 DEF BaselineInv, Prompted
<1>11. RoundInv'
  BY <1>1 DEF RoundInv
<1>12. PayloadInv'
  BY <1>1, NoPayload
<1> QED BY <1>1, <1>7, <1>9, <1>10, <1>11, <1>12 DEF AccountBody

(* A commit of an approval: with every change claimed, none is left.        *)
LEMMA AccountCommit ==
  ASSUME Typed, TurnInv, AccountBody, Commit
  PROVE  AccountBody'
<1>1. /\ work.at = "approved" /\ head = work.parent /\ Land /\ Idle'
      /\ UNCHANGED <<disk, recorded, latest, claims, baseline, found, step>>
  BY DEF Commit, Land, rows
<1>2. work.scope \in Scopes /\ \A t \in Slices : step[t] \notin {"coding", "started"}
  BY <1>1, WorkFacts DEF Typed, TurnInv, AtWork, Scopes
<1>3. \A p \in Paths : disk[p] # head[p] => p \in DOMAIN work.payload
  <2> SUFFICES ASSUME NEW p \in Paths, disk[p] # head[p], p \notin DOMAIN work.payload
               PROVE  FALSE
    OBVIOUS
  <2>1. PICK s \in Slices : Owner(s) /\ Claims(s, p, Row(p))
    BY <1>2 DEF AccountBody, AtRest, Accounted
  <2>2. s = work.scope /\ p \in DOMAIN claims[s]
    BY <1>1, <2>1 DEF Owner, Claims
  <2>3. p \in DOMAIN ProductOf(work.scope)
    BY <1>2, <2>2, ProductFacts
  <2> QED BY <1>1, <2>3 DEF AccountBody, PayloadInv
<1>4. \A p \in Paths : head'[p] = disk[p]
  BY <1>1, <1>3, LandFacts
<1>5. Accounted'
  BY <1>1, <1>4 DEF Accounted
<1>6. (\A p \in Claimed : IsCurrent(p))'
  BY <1>1, <1>2 DEF AccountBody, AtRest, Claimed, IsCurrent, Describes
<1>7. BaselineInv'
  BY <1>1, <1>2 DEF BaselineInv, Prompted
<1>8. RoundInv' /\ PayloadInv'
  BY <1>1, NoPayload DEF RoundInv
<1> QED BY <1>1, <1>5, <1>6, <1>7, <1>8 DEF AccountBody

LEMMA AccountApproving ==
  ASSUME Typed, TurnInv, AccountBody, Approving, ~bare'
  PROVE  AccountBody'
<1>1. ASSUME NEW s \in Scopes, Compare(s) PROVE AccountBody'
  <2>1. /\ UNCHANGED <<disk, head, recorded, latest, claims, baseline, found, step>>
        /\ Idle /\ work'.at = "compared"
    BY <1>1 DEF Compare, tree, rows
  <2>2. AtRest' => AtRest /\ \A t \in Slices : Owner(t) => Owner(t)'
    BY <2>1 DEF AtRest, Owner, Turn, Waiting
  <2>3. \A t \in Slices : Prompted(t)' => Prompted(t)
    BY <2>1 DEF Prompted
  <2> QED BY <2>1, <2>2, <2>3, NoPayload, AccountKept
<1>2. CASE Accept
  BY <1>2 DEF Accept
<1>3. CASE Capture
  <2>p. PICK paths : paths = DOMAIN ProductOf(work.scope)
    OBVIOUS
  <2>1. /\ UNCHANGED <<disk, head, recorded, latest, claims, baseline, found, step>>
        /\ work.at = "compared" /\ work'.at = "captured" /\ work'.scope = work.scope
        /\ work'.parent = head /\ work'.payload = Payload(paths)
    BY <1>3, <2>p DEF Capture, tree, rows
  <2>2. AtRest' => AtRest /\ \A t \in Slices : Owner(t) => Owner(t)'
    BY <2>1 DEF AtRest, Owner, Turn, Waiting
  <2>3. \A t \in Slices : Prompted(t)' => Prompted(t)
    BY <2>1 DEF Prompted
  <2>4. DOMAIN ProductOf(work.scope)' = paths
    BY <2>p, <2>1 DEF ProductOf, Products, Claimed
  <2>5. paths \subseteq Paths
    BY <2>p, <2>1, WorkFacts, ProductFacts DEF Typed
  <2>6. ASSUME NEW p \in paths \ DOMAIN Payload(paths) PROVE disk[p] = head[p]
    <3>1. {disk[p], head[p]} = {Absent}
      BY <2>5, PayloadIs
    <3> QED BY <3>1
  <2>7. PayloadInv'
    BY <2>1, <2>4, <2>6 DEF PayloadInv
  <2> QED BY <2>1, <2>2, <2>3, <2>7, AccountKept
<1>4. CASE Append
  <2>1. /\ UNCHANGED <<disk, head, recorded, latest, claims, baseline, found>>
        /\ work.at = "captured" /\ work'.at = "approved" /\ work'.scope = work.scope
        /\ work'.parent = work.parent /\ work'.payload = work.payload
        /\ Enter(work.scope, "accepted")
    BY <1>4, SameWork DEF Append, tree, rows
  <2>2. work.scope \in Scopes /\ Turn(work.scope) /\ step[work.scope] = "pending"
    BY <2>1, WorkHasTurn DEF TurnInv
  <2>3. AtRest
    BY <2>2, NoneStarted DEF AtRest
  <2>4. \A t \in Slices : Owner(t) => Owner(t)'
    BY <2>1, <2>2, TurnIsUnique DEF Owner, Scopes
  <2>5. /\ \A t \in Slices : step'[t] \in {"coding", "started"} => step[t] \in {"coding", "started"}
        /\ \A t \in Slices : Prompted(t)' => Prompted(t)
    BY <2>1, <2>2, OneSliceMoves DEF Prompted, Scopes
  <2>6. ProductOf(work.scope)' = ProductOf(work.scope)
    BY <2>1 DEF ProductOf, Products, Claimed
  <2>7. PayloadInv'
    BY <2>1, <2>6 DEF AccountBody, PayloadInv
  <2> QED BY <2>1, <2>3, <2>4, <2>5, <2>7, AccountKept
<1>5. CASE Commit
  BY <1>5, AccountCommit
<1>6. ASSUME NEW retain \in BOOLEAN, Cancel(retain) PROVE AccountBody'
  <2>s. PICK s : s = work.scope
    OBVIOUS
  <2>1. /\ UNCHANGED <<disk, head, recorded, latest, claims, baseline, found>>
        /\ work.at = "approved" /\ Idle' /\ Enter(s, "issue")
    BY <1>6, <2>s DEF Cancel, tree, rows
  <2>2. /\ s \in Scopes /\ \A t \in Scopes : ~AtWork(t)
        /\ \A t \in Waiting : Position[s] <= Position[t]
    BY <2>s, <2>1, WorkFacts DEF Typed, TurnInv
  <2>3. step'[s] = "issue" /\ \A t \in Scopes \ {s} : step'[t] = step[t]
    BY <2>1, <2>2, OneSliceMoves
  <2>4. Turn(s)'
    <3>1. Waiting' = Waiting \cup {s}
      BY <2>2, <2>3 DEF Waiting
    <3>2. Position[s] <= Position[s]
      BY <2>2, ProductAssumption
    <3> QED BY <2>2, <3>1, <3>2 DEF Turn
  <2>5. AtRest /\ \A t \in Slices : Owner(t) => Owner(t)'
    BY <2>s, <2>1, <2>2, <2>4 DEF AtRest, Owner, AtWork, Scopes
  <2>6. /\ \A t \in Slices : step'[t] \in {"coding", "started"} => step[t] \in {"coding", "started"}
        /\ \A t \in Slices : Prompted(t)' => Prompted(t)
    BY <2>1, <2>3 DEF Prompted, Scopes
  <2> QED BY <2>1, <2>5, <2>6, NoPayload, AccountKept
<1> QED BY <1>1, <1>2, <1>3, <1>4, <1>5, <1>6 DEF Approving

LEMMA AccountCommitFile ==
  ASSUME Typed, AccountBody, NEW q \in Paths, CommitFile(q)
  PROVE  AccountBody'
<1>1. /\ head'[q] = disk[q] /\ \A p \in Paths \ {q} : head'[p] = head[p]
      /\ disk[q] # head[q]
      /\ UNCHANGED <<disk, recorded, latest, claims, baseline, found, work, step>>
  BY DEF CommitFile, rows, Typed, Files
<1>2. AtRest' = AtRest
  BY <1>1 DEF AtRest
<1>3. AtRest => Accounted'
  BY <1>1 DEF AccountBody, Accounted, Owner, Recorded, Claims, Row, Turn, Waiting
<1>4. AtRest => (\A p \in Claimed : IsCurrent(p))'
  BY <1>1 DEF AccountBody, Claimed, IsCurrent, Describes
<1>5. BaselineInv'
  BY <1>1 DEF AccountBody, BaselineInv, Prompted, Claims, Describes
<1>6. RoundInv'
  <2>1. ASSUME work.at \in {"returned", "observed"}
        PROVE  /\ disk = work.seen[1]
               /\ \A p \in Paths : head'[p] = work.seen[2][p] \/ head'[p] = disk[p]
               /\ ~HeadIsSeen'
    BY <1>1, <2>1 DEF AccountBody, RoundInv, HeadIsSeen
  <2> QED BY <1>1, <2>1 DEF RoundInv
<1>7. PayloadInv'
  BY <1>1 DEF AccountBody, PayloadInv, ProductOf, Products, Claimed
<1> QED BY <1>1, <1>2, <1>3, <1>4, <1>5, <1>6, <1>7 DEF AccountBody

(* A decision about the scope whose turn it is.                             *)
LEMMA AccountDecided ==
  ASSUME Typed, TurnInv, AccountBody,
         NEW s \in Scopes, Turn(s), step[s] # "started",
         NEW v, v \notin {"accepted", "started", "coding"}, Enter(s, v),
         work.at \in {"none", "testing"}, Idle',
         UNCHANGED <<disk, head, recorded, latest, claims, baseline, found>>
  PROVE  AccountBody'
<1>1. AtRest /\ \A t \in Slices : Owner(t) => Owner(t)'
  BY NoneStarted, TurnIsKept DEF AtRest, Owner
<1>2. /\ \A t \in Slices : step'[t] \in {"coding", "started"} => step[t] \in {"coding", "started"}
      /\ \A t \in Slices : Prompted(t)' => Prompted(t)
  BY OneSliceMoves DEF Prompted, Scopes
<1> QED BY <1>1, <1>2, NoPayload, AccountKept

LEMMA AccountDeciding ==
  ASSUME Typed, TurnInv, AccountBody, Deciding
  PROVE  AccountBody'
<1>m. Milestone \in Scopes /\ Slices \subseteq Scopes
  BY DEF Scopes
<1>1. ASSUME NEW s \in Slices, Test(s) PROVE AccountBody'
  <2>1. /\ UNCHANGED <<disk, head, recorded, latest, claims, baseline, found, step>>
        /\ Idle /\ work'.at = "testing"
    BY <1>1 DEF Test, tree, rows
  <2>2. AtRest' => AtRest /\ \A t \in Slices : Owner(t) => Owner(t)'
    BY <2>1 DEF AtRest, Owner, Turn, Waiting
  <2>3. \A t \in Slices : Prompted(t)' => Prompted(t)
    BY <2>1 DEF Prompted
  <2> QED BY <2>1, <2>2, <2>3, NoPayload, AccountKept
<1>2. ASSUME NEW result \in {"reviewing", "issue"}, Verify(result) PROVE AccountBody'
  <2>1. work.at = "testing" /\ work.scope \in Scopes /\ Turn(work.scope)
        /\ step[work.scope] = "verifying"
    BY <1>2, WorkHasTurn DEF Verify, TurnInv
  <2>2. /\ UNCHANGED <<disk, head, recorded, latest, claims, baseline, found>>
        /\ Idle' /\ Enter(work.scope, result)
    BY <1>2 DEF Verify, tree, rows
  <2> QED BY <2>1, <2>2, AccountDecided
<1>3. ASSUME NEW s \in Slices, NEW verdict \in {"pending", "issue", "blocked"},
             Review(s, verdict)
      PROVE  AccountBody'
  <2>1. /\ UNCHANGED <<disk, head, recorded, latest, claims, baseline, found, work>> /\ Idle
        /\ Enter(s, verdict) /\ Turn(s) /\ step[s] = "reviewing" /\ s \in Scopes
    BY <1>m, <1>3 DEF Review, tree, rows
  <2> QED BY <2>1, AccountDecided
<1>4. CASE Pass
  <2>1. /\ UNCHANGED <<disk, head, recorded, latest, claims, baseline, found, work>> /\ Idle
        /\ Enter(Milestone, "pending") /\ Turn(Milestone) /\ step[Milestone] = "issue"
    BY <1>4 DEF Pass, Presentable, tree, rows
  <2> QED BY <1>m, <2>1, AccountDecided
<1>5. ASSUME NEW back \in SUBSET Slices, SendBack(back) PROVE AccountBody'
  <2>1. /\ UNCHANGED <<disk, head, recorded, latest, claims, baseline, found, work>> /\ Idle
        /\ Turn(Milestone) /\ step[Milestone] = "issue"
        /\ step' = [s \in Scopes |-> IF s \in back THEN "issue" ELSE step[s]]
    BY <1>5 DEF SendBack, Presentable, tree, rows
  <2>2. \A t \in Slices : ~Owner(t)
    BY <1>m, <2>1, TurnIsUnique, ProductAssumption DEF Owner
  <2>3. AtRest
    BY <1>m, <2>1, NoneStarted DEF AtRest
  <2>4. /\ \A t \in Slices : step'[t] \in {"coding", "started"} => step[t] \in {"coding", "started"}
        /\ \A t \in Slices : Prompted(t)' => Prompted(t)
    BY <1>m, <2>1 DEF Prompted
  <2> QED BY <2>1, <2>2, <2>3, <2>4, NoPayload, AccountKept
<1> QED BY <1>1, <1>2, <1>3, <1>4, <1>5 DEF Deciding

LEMMA AccountStep ==
  Typed /\ TurnInv /\ AccountInv /\ [Next]_vars => AccountInv'
<1> SUFFICES ASSUME Typed, TurnInv, AccountInv, [Next]_vars, Undisturbed'
             PROVE  AccountBody'
  BY DEF AccountInv
<1>1. ASSUME NEW p \in Paths, NEW content \in Contents \cup {Absent}, Edit(p, content)
      PROVE  FALSE
  BY <1>1 DEF Edit, Typed
<1>2. Undisturbed
  <2>1. CASE Coding
    BY <2>1 DEF Coding, Prompt, Issue, Start, Check, Call, CoderRetries, CoderReturns,
                CoderStops, Coded, Observe, Stop, Record, bounds
  <2>2. CASE Deciding
    BY <2>2 DEF Deciding, Test, Verify, Review, Pass, SendBack, bounds
  <2>3. CASE Approving
    <3>1. ASSUME NEW s \in Scopes, Compare(s) PROVE UNCHANGED <<edits, bare>>
      BY <3>1 DEF Compare, bounds
    <3>2. CASE Accept
      BY <3>2 DEF Accept
    <3>3. CASE Capture
      BY <3>3 DEF Capture, bounds
    <3>4. CASE Append
      BY <3>4 DEF Append, bounds
    <3>5. CASE Commit
      BY <3>5 DEF Commit, Land, bounds
    <3>6. ASSUME NEW retain \in BOOLEAN, Cancel(retain) PROVE Undisturbed
      BY <3>6 DEF Cancel, bounds
    <3> QED BY <2>3, <3>1, <3>2, <3>3, <3>4, <3>5, <3>6 DEF Approving
  <2>4. CASE Others
    BY <1>1, <2>4 DEF Others, PromptAllowingDirt, Issue, Resolve, CommitFile, bounds
  <2>5. CASE UNCHANGED vars
    BY <2>5 DEF vars, bounds
  <2> QED BY <2>1, <2>2, <2>3, <2>4, <2>5 DEF Next
<1>3. AccountBody
  BY <1>2 DEF AccountInv
<1>4. ASSUME NEW s \in Slices, Resolve(s) PROVE AccountBody'
  <2>1. Turn(s) /\ s \in Scopes
    BY <1>4 DEF Resolve, TurnInv, AtWork, Scopes
  <2>2. /\ UNCHANGED <<disk, head, recorded, latest, claims, baseline, found, work>> /\ Idle
        /\ Enter(s, "issue") /\ step[s] = "blocked"
    BY <1>4 DEF Resolve, tree, rows
  <2> QED BY <1>3, <2>1, <2>2, AccountDecided
<1>5. CASE UNCHANGED vars
  <2>1. UNCHANGED <<disk, head, recorded, latest, claims, baseline, found, work, step>>
    BY <1>5 DEF vars, tree, rows
  <2>2. AtRest' = AtRest /\ Accounted' = Accounted
    BY <2>1 DEF AtRest, Accounted, Owner, Recorded, Claims, Row, Turn, Waiting
  <2>3. (\A p \in Claimed : IsCurrent(p))' <=> \A p \in Claimed : IsCurrent(p)
    BY <2>1 DEF Claimed, IsCurrent, Describes
  <2>4. BaselineInv'
    BY <1>3, <2>1 DEF AccountBody, BaselineInv, Prompted, Claims, Describes
  <2>5. RoundInv'
    BY <1>3, <2>1
    DEF AccountBody, RoundInv, HeadIsSeen, Claimed, IsCurrent, Describes, Touched, Stood, Row
  <2>6. PayloadInv'
    BY <1>3, <2>1 DEF AccountBody, PayloadInv, ProductOf, Products, Claimed
  <2> QED BY <1>3, <2>1, <2>2, <2>3, <2>4, <2>5, <2>6 DEF AccountBody
<1>6. CASE Coding
  BY <1>3, <1>6, AccountIssue, AccountStart, AccountCall, AccountReturn, AccountStops,
     AccountObserve, AccountRecord
     DEF Coding, Prompt
<1>7. CASE Approving
  BY <1>3, <1>7, AccountApproving DEF Typed
<1> QED BY <1>1, <1>3, <1>4, <1>5, <1>6, <1>7, AccountIssue, AccountDeciding,
           AccountCommitFile
        DEF Next, Others, PromptAllowingDirt

-----------------------------------------------------------------------------
(* Theorems *)

ProductInv ==
  Typed /\ TurnInv /\ SourceInv /\ ReviewedInv /\ ComparedInv /\ TheirsInv /\
  AccountInv

LEMMA ProductInit == Init => ProductInv
<1> SUFFICES ASSUME Init PROVE ProductInv
  OBVIOUS
<1>1. SourceInv
  BY NoRows DEF Init, SourceInv
<1>2. ReviewedInv /\ ComparedInv
  BY DEF Init, ReviewedInv, Awaits, Scopes, ComparedInv
<1>3. TheirsInv
  BY DEF Init, TheirsInv, Prompted, Scopes
<1> QED BY <1>1, <1>2, <1>3, InitTyped, TurnInit, AccountInit DEF ProductInv

LEMMA ProductStep == ProductInv /\ [Next]_vars => ProductInv'
BY TypedStep, TurnStep, SourceStep, ReviewedStep, ComparedStep, TheirsStep, AccountStep
DEF ProductInv

LEMMA ProductInvariant == Spec => []ProductInv
<1>1. Init => ProductInv
  BY ProductInit
<1>2. ProductInv /\ [Next]_vars => ProductInv'
  BY ProductStep
<1> QED BY <1>1, <1>2, PTL DEF Spec

(* While nobody else edits a file and every approval is committed, every    *)
(* change in a settled tree is the recorded one, and no prompt is the first *)
(* to record one: the runner admits what it did itself.                     *)
THEOREM WorkAdmitsItself == Spec => []WorkIsAccounted
<1>1. ProductInv => WorkIsAccounted
  <2> SUFFICES ASSUME ProductInv, Undisturbed PROVE found = {} /\ (Settled => Clean)
    BY DEF WorkIsAccounted
  <2>1. AccountBody /\ Typed
    BY DEF ProductInv, AccountInv
  <2> QED BY <2>1, CleanFacts DEF AccountBody, Settled, AtRest, Accounted, Typed
<1> QED BY <1>1, ProductInvariant, PTL

(* And then the last rows of the milestone's product are what the tree      *)
(* holds, so that it can be closed.                                         *)
THEOREM WorkCanBeClosed == Spec => []ClosureIsCurrent
<1>1. ProductInv => ClosureIsCurrent
  <2> SUFFICES ASSUME ProductInv, Undisturbed, Settled PROVE Drifted(Products) = {}
    BY DEF ClosureIsCurrent
  <2>1. \A p \in Claimed : IsCurrent(p)
    BY DEF ProductInv, AccountInv, AccountBody, Settled, AtRest
  <2> QED BY <2>1 DEF Drifted, Products, IsCurrent
<1> QED BY <1>1, ProductInvariant, PTL

(* The commit of an approval: head becomes the payload, or nothing changes. *)
LEMMA HowItConcludes ==
  ASSUME Typed, [Next]_vars, Concludes
  PROVE  \/ Commit
         \/ UNCHANGED head
<1>1. work' # work
  BY DEF Concludes
<1>2. CASE Coding
  BY <1>2 DEF Coding, Prompt, Issue, Start, Check, Call, CoderRetries, CoderReturns, CoderStops,
              Coded, Observe, Stop, Record, Concludes
<1>3. CASE Deciding
  BY <1>3 DEF Deciding, Test, Verify, Review, Pass, SendBack, Presentable, Concludes
<1>4. CASE Approving
  <2>1. ASSUME NEW s \in Scopes, Compare(s) PROVE FALSE
    BY <2>1 DEF Compare, Concludes
  <2>2. CASE Accept \/ Capture \/ Append
    BY <2>2 DEF Accept, Capture, Append, Concludes
  <2>3. ASSUME NEW retain \in BOOLEAN, Cancel(retain) PROVE UNCHANGED head
    BY <2>3 DEF Cancel, tree
  <2> QED BY <1>4, <2>1, <2>2, <2>3 DEF Approving
<1>5. CASE Others
  BY <1>1, <1>5 DEF Others, PromptAllowingDirt, Issue, Resolve, Edit, CommitFile
<1>6. CASE UNCHANGED vars
  BY <1>1, <1>6 DEF vars
<1> QED BY <1>2, <1>3, <1>4, <1>5, <1>6 DEF Next

(* The commit of an approval is what the suite passed and the reviewers saw *)
(* of a slice, and the last row of each path of a milestone, however others *)
(* edit and commit; but for the paths they write to after approve has       *)
(* compared the product and before _request_intent reads it again.          *)
THEOREM ApprovalCommitsTheReviewed == Spec => CommitIsReviewed
<1> DEFINE Reviewed ==
      Concludes => \A p \in Paths : head'[p] # head[p] =>
        p \in uncompared \/ head'[p] = Seen(work.scope, p)
<1>1. ProductInv /\ [Next]_vars => Reviewed
  <2> SUFFICES ASSUME ProductInv, [Next]_vars, Concludes,
                      NEW p \in Paths, head'[p] # head[p], p \notin uncompared
               PROVE  head'[p] = Seen(work.scope, p)
    OBVIOUS
  <2>1. Typed /\ ReviewedInv /\ ComparedInv
    BY DEF ProductInv
  <2>2. /\ work.at = "approved" /\ Land
        /\ \A q \in DOMAIN work.payload : disk[q] = work.payload[q]
    BY <2>1, HowItConcludes DEF Commit
  <2>3. work.scope \in Scopes
    BY <2>1, <2>2, WorkFacts DEF Typed
  <2>4. p \in DOMAIN work.payload /\ head'[p] = disk[p]
    BY <2>1, <2>2, LandFacts
  <2>5. /\ p \in DOMAIN ProductOf(work.scope)
        /\ head'[p] = Says(ProductOf(work.scope)[p])
    BY <2>1, <2>2, <2>4 DEF ComparedInv
  <2>6. CASE work.scope \in Slices
    <3>1. ProductOf(work.scope) = claims[work.scope] /\ work.scope # Milestone
      BY <2>1, <2>3, <2>6, ProductFacts
    <3>2. Awaits(work.scope)
      BY <2>2 DEF Awaits
    <3>3. tested[1][p] = Says(claims[work.scope][p])
      BY <2>1, <2>5, <2>6, <3>1, <3>2 DEF ReviewedInv
    <3> QED BY <2>5, <3>1, <3>3 DEF Seen
  <2>7. CASE work.scope \notin Slices
    <3>1. /\ work.scope = Milestone
          /\ ProductOf(work.scope)[p] = latest[p]
      BY <2>1, <2>3, <2>5, <2>7, ProductFacts
    <3> QED BY <2>5, <3>1 DEF Seen
  <2> QED BY <2>6, <2>7
<1> HIDE DEF Reviewed
<1>2. ProductInv /\ [Next]_vars => [Reviewed]_vars
  BY <1>1
<1>3. Spec => [][Reviewed]_vars
  BY <1>2, ProductInvariant, PTL DEF Spec
<1> QED BY <1>3 DEF CommitIsReviewed, Reviewed

(* When a slice passes its review, each change of the tree is what the      *)
(* manifest of some slice says, or is a row that a prompt was the first to  *)
(* record: nothing of the coder's goes past the reviewers.                  *)
THEOREM NothingPassesUnseen == Spec => ReviewSeesAll
<1> DEFINE Shown ==
      \A s \in Slices : step[s] = "reviewing" /\ step'[s] = "pending" =>
        \A p \in DOMAIN Changes :
          \/ \E t \in Slices : p \in DOMAIN claims[t] /\ claims[t][p] = Changes[p]
          \/ <<p, Changes[p]>> \in found
<1>1. ProductInv /\ [Next]_vars => Shown
  <2> SUFFICES ASSUME ProductInv, [Next]_vars, NEW s \in Slices,
                      step[s] = "reviewing", step'[s] = "pending",
                      NEW p \in DOMAIN Changes
               PROVE  \/ \E t \in Slices : p \in DOMAIN claims[t] /\ claims[t][p] = Changes[p]
                      \/ <<p, Changes[p]>> \in found
    OBVIOUS
  <2>1. Typed /\ SourceInv
    BY DEF ProductInv
  <2>2. ASSUME Clean
        PROVE  \/ \E t \in Slices : p \in DOMAIN claims[t] /\ claims[t][p] = Changes[p]
               \/ <<p, Changes[p]>> \in found
    BY <2>1, <2>2 DEF Clean, Unrecorded, Recorded, SourceInv, Claims
  <2>s. s \in Scopes /\ s # Milestone
    BY ProductAssumption DEF Scopes
  <2>3. ASSUME NEW t \in Scopes, NEW v, v # "pending", Enter(t, v) PROVE FALSE
    BY <2>1, <2>3 DEF Enter, Typed, Scopes
  <2>4. ASSUME UNCHANGED step PROVE FALSE
    BY <2>4
  <2>5. CASE Coding
    <3>1. ASSUME NEW t \in Slices, Issue(t) \/ Start(t) PROVE FALSE
      BY <2>3, <3>1 DEF Issue, Start, Scopes
    <3>2. ASSUME NEW result \in {"verifying", "blocked"}, Record(result) PROVE FALSE
      <4>1. work.scope \in Scopes
        BY <2>1, <3>2, WorkFacts DEF Record, Typed
      <4> QED BY <2>3, <3>2, <4>1 DEF Record
    <3> QED BY <2>4, <2>5, <3>1, <3>2
            DEF Coding, Prompt, Check, Call, CoderRetries, CoderReturns, CoderStops, Coded,
                Observe, Stop
  <2>6. CASE Deciding
    <3>1. ASSUME NEW t \in Slices, Test(t) PROVE FALSE
      BY <2>4, <3>1 DEF Test
    <3>2. ASSUME NEW result \in {"reviewing", "issue"}, Verify(result) PROVE FALSE
      <4>1. work.scope \in Scopes
        BY <2>1, <3>2, WorkFacts DEF Verify, Typed
      <4> QED BY <2>3, <3>2, <4>1 DEF Verify
    <3>3. ASSUME Pass \/ \E back \in SUBSET Slices : SendBack(back) PROVE FALSE
      <4>1. Milestone \in Scopes
        BY DEF Scopes
      <4>2. ASSUME Pass PROVE FALSE
        <5>1. step' = [step EXCEPT ![Milestone] = "pending"]
          BY <4>2 DEF Pass, Enter
        <5>2. step'[s] = step[s]
          BY <2>1, <2>s, <5>1 DEF Typed
        <5> QED BY <5>2
      <4>3. ASSUME NEW back \in SUBSET Slices, SendBack(back) PROVE FALSE
        <5>1. step' = [t \in Scopes |-> IF t \in back THEN "issue" ELSE step[t]]
          BY <4>3 DEF SendBack
        <5>2. step'[s] \in {"issue", step[s]}
          BY <2>s, <5>1
        <5> QED BY <5>2
      <4> QED BY <3>3, <4>2, <4>3
    <3>4. ASSUME NEW t \in Slices, NEW verdict \in {"pending", "issue", "blocked"},
                 Review(t, verdict)
          PROVE  Clean
      BY <3>4 DEF Review
    <3> QED BY <2>2, <2>6, <3>1, <3>2, <3>3, <3>4 DEF Deciding
  <2>7. CASE Approving
    <3>1. ASSUME NEW t \in Scopes, Compare(t) PROVE FALSE
      BY <2>4, <3>1 DEF Compare
    <3>2. CASE Accept \/ Append
      <4>1. work.scope \in Scopes
        BY <2>1, <3>2, WorkFacts DEF Accept, Append, Typed
      <4> QED BY <2>3, <3>2, <4>1 DEF Accept, Append
    <3>3. CASE Capture \/ Commit
      BY <2>4, <3>3 DEF Capture, Commit, Land
    <3>4. ASSUME NEW retain \in BOOLEAN, Cancel(retain) PROVE FALSE
      <4>1. work.scope \in Scopes
        BY <2>1, <3>4, WorkFacts DEF Cancel, Typed
      <4> QED BY <2>3, <2>4, <3>4, <4>1 DEF Cancel
    <3> QED BY <2>7, <3>1, <3>2, <3>3, <3>4 DEF Approving
  <2>8. CASE Others
    <3>1. ASSUME NEW t \in Slices, Issue(t) \/ Resolve(t) PROVE FALSE
      BY <2>3, <3>1 DEF Issue, Resolve, Scopes
    <3> QED BY <2>4, <2>8, <3>1 DEF Others, PromptAllowingDirt, Edit, CommitFile
  <2>9. CASE UNCHANGED vars
    BY <2>4, <2>9 DEF vars
  <2> QED BY <2>5, <2>6, <2>7, <2>8, <2>9 DEF Next
<1> HIDE DEF Shown
<1>2. ProductInv /\ [Next]_vars => [Shown]_vars
  BY <1>1
<1>3. Spec => [][Shown]_vars
  BY <1>2, ProductInvariant, PTL DEF Spec
<1> QED BY <1>3 DEF ReviewSeesAll, Shown

(* What others wrote and no slice had claimed is committed by no approval,  *)
(* of a slice or of the milestone, over every order of edits, prompts and   *)
(* commits; but for what they write after the tree was checked for a call   *)
(* and before the call was witnessed.                                       *)
THEOREM OthersWorkIsLeft == Spec => OthersWorkStays
<1> DEFINE Stays ==
      Concludes => \A p \in theirs \ unchecked : head'[p] = head[p]
<1>1. ProductInv /\ [Next]_vars => Stays
  <2> SUFFICES ASSUME ProductInv, [Next]_vars, Concludes, NEW p \in theirs \ unchecked
               PROVE  head'[p] = head[p]
    OBVIOUS
  <2>1. Typed /\ p \in Paths /\ p \notin Claimed /\ ComparedInv
    BY DEF ProductInv, Typed, TheirsInv
  <2>2. CASE UNCHANGED head
    BY <2>2
  <2>3. CASE Commit
    <3>1. Land /\ work.at = "approved"
      BY <2>3 DEF Commit
    <3>2. work.scope \in Scopes
      BY <2>1, <3>1, WorkFacts DEF Typed
    <3>3. p \notin DOMAIN work.payload
      BY <2>1, <3>1, <3>2, ProductFacts DEF ComparedInv
    <3> QED BY <2>1, <3>1, <3>3, LandFacts
  <2> QED BY <2>1, <2>2, <2>3, HowItConcludes
<1> HIDE DEF Stays
<1>2. ProductInv /\ [Next]_vars => [Stays]_vars
  BY <1>1
<1>3. Spec => [][Stays]_vars
  BY <1>2, ProductInvariant, PTL DEF Spec
<1> QED BY <1>3 DEF OthersWorkStays, Stays
=============================================================================
