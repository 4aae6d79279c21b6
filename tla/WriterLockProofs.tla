-------------------------- MODULE WriterLockProofs --------------------------
(***************************************************************************)
(* The writer lock excludes: theorems about WriterLock for every set of    *)
(* processes, threads, worktrees and repositories.                         *)
(*                                                                         *)
(* That a frame is covered by the lock is not inductive: leaving the       *)
(* outermost entry gives the lock up, so it must be known that no other    *)
(* entry of that repository is on the stack (Stacked), and that what the   *)
(* tables say of a thread is on its stack (Tabled).                        *)
(***************************************************************************)
EXTENDS WriterLock, TLAPS

USE DEF Owner

FolderAt(t, i) == FolderOf[frames[t][i].root]

\* The outermost entry of a repository is its first on the stack, and every
\* other one is above it.
Stacked ==
  \A t \in Threads : \A i \in 1..Len(frames[t]) :
    /\ frames[t][i].kind = "outer" => \A j \in 1..(i-1) : FolderAt(t, j) # FolderAt(t, i)
    /\ frames[t][i].kind # "outer" =>
         \E j \in 1..(i-1) : frames[t][j].kind = "outer" /\ FolderAt(t, j) = FolderAt(t, i)
    /\ frames[t][i].kind = "reentrant" =>
         \E j \in 1..(i-1) : frames[t][j].root = frames[t][i].root

\* Whoever is in a table of a process is a thread of it, and inside.
RootsTabled ==
  \A p \in Processes, r \in Roots, t \in Threads : roots[p][r] = t =>
    /\ ProcessOf[t] = p
    /\ \E i \in 1..Len(frames[t]) : frames[t][i].root = r

OwnersTabled ==
  \A p \in Processes, f \in Folders, t \in Threads : owners[p][f] = t =>
    /\ ProcessOf[t] = p
    /\ \E i \in 1..Len(frames[t]) : frames[t][i].kind = "outer" /\ FolderAt(t, i) = f

LocksOwned ==
  \A f \in Folders : flock[f] # None => owners[flock[f]][f] \in Threads

IInv == TypeOK /\ LockCoversFrames /\ Stacked /\ RootsTabled /\ OwnersTabled /\ LocksOwned

-----------------------------------------------------------------------------
\* The stack after an entry.
LEMMA PushGrows ==
  ASSUME TypeOK, NEW t \in Threads, NEW r \in Roots, NEW kind \in Kinds, Push(t, r, kind)
  PROVE  /\ frames' \in [Threads -> Seq(Frames)]
         /\ Len(frames'[t]) = Len(frames[t]) + 1
         /\ Len(frames[t]) \in Nat
         /\ frames'[t][Len(frames[t]) + 1] = [root |-> r, kind |-> kind]
         /\ \A i \in 1..Len(frames[t]) : frames'[t][i] = frames[t][i]
         /\ \A u \in Threads \ {t} : frames'[u] = frames[u]
<1> DEFINE top == [root |-> r, kind |-> kind]
<1>1. top \in Frames
  BY DEF Frames
<1>2. frames[t] \in Seq(Frames)
  BY DEF TypeOK
<1> HIDE DEF top
<1>3. frames' = [frames EXCEPT ![t] = Append(frames[t], top)]
  BY DEF Push, top
<1>4. frames'[t] = Append(frames[t], top)
  BY <1>3 DEF TypeOK
<1>5. Append(frames[t], top) \in Seq(Frames)
  BY <1>1, <1>2
<1>6. frames' \in [Threads -> Seq(Frames)]
  BY <1>3, <1>5 DEF TypeOK
<1>7. /\ Len(Append(frames[t], top)) = Len(frames[t]) + 1
      /\ Len(frames[t]) \in Nat
      /\ Append(frames[t], top)[Len(frames[t]) + 1] = top
      /\ \A i \in 1..Len(frames[t]) : Append(frames[t], top)[i] = frames[t][i]
  BY <1>1, <1>2
<1>8. \A u \in Threads \ {t} : frames'[u] = frames[u]
  BY <1>3 DEF TypeOK
<1> QED
  BY <1>4, <1>6, <1>7, <1>8 DEF top

\* The stack after the innermost entry is left.
LEMMA LeaveShrinks ==
  ASSUME TypeOK, NEW t \in Threads, Leave(t)
  PROVE  /\ frames' \in [Threads -> Seq(Frames)]
         /\ Len(frames[t]) \in Nat \ {0}
         /\ frames[t][Len(frames[t])] \in Frames
         /\ Len(frames'[t]) = Len(frames[t]) - 1
         /\ \A i \in 1..(Len(frames[t]) - 1) : frames'[t][i] = frames[t][i]
         /\ \A u \in Threads \ {t} : frames'[u] = frames[u]
<1>1. frames[t] \in Seq(Frames) /\ frames[t] # <<>>
  BY DEF TypeOK, Leave
<1>2. Len(frames[t]) \in Nat \ {0} /\ frames[t][Len(frames[t])] \in Frames
  BY <1>1
<1>3. frames' = [frames EXCEPT ![t] = SubSeq(frames[t], 1, Len(frames[t]) - 1)]
  BY DEF Leave
<1>4. SubSeq(frames[t], 1, Len(frames[t]) - 1) \in Seq(Frames)
  BY <1>1, <1>2
<1>5. /\ Len(SubSeq(frames[t], 1, Len(frames[t]) - 1)) = Len(frames[t]) - 1
      /\ \A i \in 1..(Len(frames[t]) - 1) :
           SubSeq(frames[t], 1, Len(frames[t]) - 1)[i] = frames[t][i]
  BY <1>1, <1>2
<1> QED
  BY <1>2, <1>3, <1>4, <1>5 DEF TypeOK

\* An entry on the stack is inside of its repository.
LEMMA OnStackIsInside ==
  ASSUME TypeOK, NEW t \in Threads
  PROVE  /\ \A f : InsideOf(t, f) <=> \E i \in 1..Len(frames[t]) : FolderAt(t, i) = f
         /\ Len(frames[t]) \in Nat
         /\ \A i \in 1..Len(frames[t]) : frames[t][i] \in Frames
<1>1. frames[t] \in Seq(Frames)
  BY DEF TypeOK
<1>2. DOMAIN frames[t] = 1..Len(frames[t]) /\ Len(frames[t]) \in Nat
  BY <1>1
<1>3. \A i \in 1..Len(frames[t]) : frames[t][i] \in Frames
  BY <1>1, <1>2
<1> QED
  BY <1>2, <1>3 DEF InsideOf, FolderAt

LEMMA TypeStep ==
  ASSUME TypeOK, [Next]_vars
  PROVE  TypeOK'
<1> USE LockAssumption
<1>1. ASSUME NEW t \in Threads, NEW r \in Roots, EnterAgain(t, r)
      PROVE  TypeOK'
  <2>1. frames' \in [Threads -> Seq(Frames)]
    BY <1>1, PushGrows DEF EnterAgain, Kinds
  <2> QED
    BY <1>1, <2>1 DEF EnterAgain, TypeOK
<1>2. ASSUME NEW t \in Threads, NEW r \in Roots, Ask(t, r)
      PROVE  TypeOK'
  BY <1>2 DEF Ask, TypeOK
<1>3. ASSUME NEW t \in Threads, EnterNested(t)
      PROVE  TypeOK'
  <2>1. entering[t] \in Roots
    BY <1>3 DEF EnterNested, TypeOK
  <2>2. frames' \in [Threads -> Seq(Frames)]
    BY <1>3, <2>1, PushGrows DEF EnterNested, Kinds
  <2> QED
    BY <1>3, <2>1, <2>2 DEF EnterNested, Register, TypeOK
<1>4. ASSUME NEW t \in Threads, EnterOuter(t)
      PROVE  TypeOK'
  <2>1. entering[t] \in Roots
    BY <1>4 DEF EnterOuter, TypeOK
  <2>2. frames' \in [Threads -> Seq(Frames)]
    BY <1>4, <2>1, PushGrows DEF EnterOuter, Kinds
  <2>3. roots' \in [Processes -> [Roots -> Threads \cup {None}]] /\ entering' \in [Threads -> Roots \cup {None}]
    BY <1>4, <2>1 DEF EnterOuter, Register, TypeOK
  <2>4. flock' \in [Folders -> Processes \cup {None}]
    BY <1>4, <2>1 DEF EnterOuter, TypeOK
  <2>5. owners' \in [Processes -> [Folders -> Threads \cup {None}]]
    BY <1>4, <2>1 DEF EnterOuter, TypeOK
  <2> QED
    BY <2>2, <2>3, <2>4, <2>5 DEF TypeOK
<1>5. ASSUME NEW t \in Threads, Refuse(t)
      PROVE  TypeOK'
  BY <1>5 DEF Refuse, TypeOK
<1>6. ASSUME NEW t \in Threads, Leave(t)
      PROVE  TypeOK'
  <2>1. frames' \in [Threads -> Seq(Frames)]
    BY <1>6, LeaveShrinks
  <2>2. roots' \in [Processes -> [Roots -> Threads \cup {None}]]
    BY <1>6 DEF Leave, TypeOK
  <2>3. owners' \in [Processes -> [Folders -> Threads \cup {None}]]
    BY <1>6 DEF Leave, TypeOK
  <2>4. flock' \in [Folders -> Processes \cup {None}]
    BY <1>6 DEF Leave, TypeOK
  <2>5. entering' \in [Threads -> Roots \cup {None}]
    BY <1>6 DEF Leave, TypeOK
  <2> QED
    BY <2>1, <2>2, <2>3, <2>4, <2>5 DEF TypeOK
<1>7. ASSUME NEW p \in Processes, Die(p)
      PROVE  TypeOK'
  BY <1>7 DEF Die, TypeOK
<1>8. CASE UNCHANGED vars
  BY <1>8 DEF vars, TypeOK
<1> QED
  BY <1>1, <1>2, <1>3, <1>4, <1>5, <1>6, <1>7, <1>8 DEF Next

-----------------------------------------------------------------------------
\* What a new entry needs for the stack to stay in order.
LEMMA PushKeepsOrder ==
  ASSUME IInv, NEW t \in Threads, NEW r \in Roots, NEW kind \in Kinds, Push(t, r, kind),
         kind = "outer" => ~InsideOf(t, FolderOf[r]),
         kind # "outer" => \E i \in 1..Len(frames[t]) :
           frames[t][i].kind = "outer" /\ FolderAt(t, i) = FolderOf[r],
         kind = "reentrant" => \E i \in 1..Len(frames[t]) : frames[t][i].root = r
  PROVE  Stacked'
<1> DEFINE n == Len(frames[t])
<1>0. TypeOK
  BY DEF IInv
<1>1. /\ Len(frames'[t]) = n + 1 /\ n \in Nat
      /\ frames'[t][n + 1] = [root |-> r, kind |-> kind]
      /\ \A i \in 1..n : frames'[t][i] = frames[t][i]
      /\ \A u \in Threads \ {t} : frames'[u] = frames[u]
  BY <1>0, PushGrows
<1>2. SUFFICES ASSUME NEW u \in Threads, NEW i \in 1..Len(frames'[u])
      PROVE
    /\ frames'[u][i].kind = "outer" =>
         \A j \in 1..(i-1) : FolderOf[frames'[u][j].root] # FolderOf[frames'[u][i].root]
    /\ frames'[u][i].kind # "outer" =>
         \E j \in 1..(i-1) : /\ frames'[u][j].kind = "outer"
                             /\ FolderOf[frames'[u][j].root] = FolderOf[frames'[u][i].root]
    /\ frames'[u][i].kind = "reentrant" =>
         \E j \in 1..(i-1) : frames'[u][j].root = frames'[u][i].root
  BY DEF Stacked, FolderAt
<1>3. CASE u # t
  <2>1. frames'[u] = frames[u]
    BY <1>1, <1>3
  <2>2. i \in 1..Len(frames[u])
    BY <2>1
  <2> QED
    BY <2>1, <2>2 DEF IInv, Stacked, FolderAt
<1>4. CASE u = t /\ i \in 1..n
  <2>1. \A j \in 1..(i-1) : j \in 1..n
    BY <1>1, <1>4
  <2> HIDE DEF n
  <2>2. frames'[t][i] = frames[t][i] /\ \A j \in 1..(i-1) : frames'[t][j] = frames[t][j]
    BY <1>1, <1>4, <2>1
  <2>3. i \in 1..Len(frames[t])
    BY <1>4 DEF n
  <2>4. /\ frames[t][i].kind = "outer" =>
             \A j \in 1..(i-1) : FolderOf[frames[t][j].root] # FolderOf[frames[t][i].root]
        /\ frames[t][i].kind # "outer" =>
             \E j \in 1..(i-1) : /\ frames[t][j].kind = "outer"
                                 /\ FolderOf[frames[t][j].root] = FolderOf[frames[t][i].root]
        /\ frames[t][i].kind = "reentrant" =>
             \E j \in 1..(i-1) : frames[t][j].root = frames[t][i].root
    BY <2>3 DEF IInv, Stacked, FolderAt
  <2> QED
    BY <1>4, <2>2, <2>4
<1>5. CASE u = t /\ i = n + 1
  <2>1. i - 1 = n
    BY <1>1, <1>5
  <2>2. frames'[u][i].kind = kind /\ frames'[u][i].root = r
    BY <1>1, <1>5
  <2>3. ~InsideOf(t, FolderOf[r]) => \A j \in 1..n : FolderAt(t, j) # FolderOf[r]
    BY <1>0, OnStackIsInside
  <2>4. \A j \in 1..n : frames'[u][j] = frames[t][j]
    BY <1>1, <1>5
  <2> HIDE DEF n
  <2>5. kind = "outer" =>
          \A j \in 1..(i-1) : FolderOf[frames'[u][j].root] # FolderOf[frames'[u][i].root]
    BY <2>1, <2>2, <2>3, <2>4 DEF FolderAt
  <2>6. kind # "outer" =>
          \E j \in 1..(i-1) : /\ frames'[u][j].kind = "outer"
                              /\ FolderOf[frames'[u][j].root] = FolderOf[frames'[u][i].root]
    BY <2>1, <2>2, <2>4 DEF FolderAt, n
  <2>7. kind = "reentrant" => \E j \in 1..(i-1) : frames'[u][j].root = frames'[u][i].root
    BY <2>1, <2>2, <2>4 DEF n
  <2> QED
    BY <2>2, <2>5, <2>6, <2>7
<1> QED
  BY <1>1, <1>2, <1>3, <1>4, <1>5

\* Entering only adds to what a thread is inside of.
LEMMA PushAddsOne ==
  ASSUME TypeOK, TypeOK', NEW t \in Threads, NEW r \in Roots, NEW kind \in Kinds, Push(t, r, kind)
  PROVE  /\ \A u \in Threads : \A f : InsideOf(u, f)' <=> InsideOf(u, f) \/ (u = t /\ f = FolderOf[r])
         /\ \A u \in Threads : \A i \in 1..Len(frames[u]) :
              i \in 1..Len(frames'[u]) /\ frames'[u][i] = frames[u][i]
         /\ Len(frames[t]) + 1 \in 1..Len(frames'[t])
         /\ frames'[t][Len(frames[t]) + 1].root = r
         /\ frames'[t][Len(frames[t]) + 1].kind = kind
<1>1. /\ Len(frames'[t]) = Len(frames[t]) + 1 /\ Len(frames[t]) \in Nat
      /\ frames'[t][Len(frames[t]) + 1] = [root |-> r, kind |-> kind]
      /\ \A i \in 1..Len(frames[t]) : frames'[t][i] = frames[t][i]
      /\ \A u \in Threads \ {t} : frames'[u] = frames[u]
  BY PushGrows
<1>2. \A u \in Threads : \A i \in 1..Len(frames[u]) :
              i \in 1..Len(frames'[u]) /\ frames'[u][i] = frames[u][i]
  BY <1>1
<1>3. Len(frames[t]) + 1 \in 1..Len(frames'[t])
  BY <1>1
<1>4. \A u \in Threads : DOMAIN frames[u] = 1..Len(frames[u])
  BY DEF TypeOK
<1>5. \A u \in Threads : DOMAIN frames'[u] = 1..Len(frames'[u])
  BY DEF TypeOK
<1>6. ASSUME NEW u \in Threads, NEW f
      PROVE  InsideOf(u, f)' <=> InsideOf(u, f) \/ (u = t /\ f = FolderOf[r])
  <2>1. InsideOf(u, f) => InsideOf(u, f)'
    BY <1>2, <1>4, <1>5 DEF InsideOf
  <2>2. InsideOf(t, FolderOf[r])'
    BY <1>1, <1>3, <1>5 DEF InsideOf
  <2>3. CASE u # t
    BY <1>1, <2>1, <2>3 DEF InsideOf
  <2>4. CASE u = t
    <3>1. \A i \in 1..Len(frames'[t]) : i \in 1..Len(frames[t]) \/ i = Len(frames[t]) + 1
      BY <1>1
    <3>2. ASSUME InsideOf(t, f)', f # FolderOf[r]
          PROVE  InsideOf(t, f)
      <4>1. PICK i \in 1..Len(frames'[t]) : FolderOf[frames'[t][i].root] = f
        BY <1>5, <3>2 DEF InsideOf
      <4>2. frames'[t][Len(frames[t]) + 1].root = r
        BY <1>1
      <4>3. i \in 1..Len(frames[t])
        BY <3>1, <3>2, <4>1, <4>2
      <4>4. frames[t][i] = frames'[t][i]
        BY <1>1, <4>3
      <4> QED
        BY <1>4, <4>1, <4>3, <4>4 DEF InsideOf
    <3> QED
      BY <2>1, <2>2, <2>4, <3>2
  <2> QED
    BY <2>3, <2>4
<1> QED
  BY <1>1, <1>2, <1>3, <1>6

-----------------------------------------------------------------------------
(* Each operation keeps the invariant.                                     *)

LEMMA AgainKeeps ==
  ASSUME IInv, NEW t \in Threads, NEW r \in Roots, EnterAgain(t, r)
  PROVE  IInv'
<1> USE LockAssumption
<1>1. TypeOK /\ TypeOK'
  BY TypeStep DEF IInv, Next
<1>2. Push(t, r, "reentrant") /\ UNCHANGED <<flock, owners, roots>>
  BY DEF EnterAgain
<1>3. PICK i \in 1..Len(frames[t]) : frames[t][i].root = r
  BY DEF EnterAgain, IInv, RootsTabled
<1>4. \E j \in 1..Len(frames[t]) :
        frames[t][j].kind = "outer" /\ FolderAt(t, j) = FolderOf[r]
  <2>1. CASE frames[t][i].kind = "outer"
    BY <1>3, <2>1 DEF FolderAt
  <2>2. CASE frames[t][i].kind # "outer"
    <3>1. PICK j \in 1..(i-1) : frames[t][j].kind = "outer" /\ FolderAt(t, j) = FolderAt(t, i)
      BY <2>2 DEF IInv, Stacked
    <3>2. j \in 1..Len(frames[t])
      BY <1>1, OnStackIsInside
    <3> QED
      BY <1>3, <3>1, <3>2 DEF FolderAt
  <2> QED
    BY <2>1, <2>2
<1>5. InsideOf(t, FolderOf[r])
  BY <1>1, <1>4, OnStackIsInside
<1>6. Stacked'
  BY <1>2, <1>3, <1>4, PushKeepsOrder DEF Kinds
<1>7. /\ \A u \in Threads : \A f : InsideOf(u, f)' <=> InsideOf(u, f)
      /\ \A u \in Threads : \A k \in 1..Len(frames[u]) :
              k \in 1..Len(frames'[u]) /\ frames'[u][k] = frames[u][k]
  BY <1>1, <1>2, <1>5, PushAddsOne DEF Kinds
<1>8. LockCoversFrames'
  BY <1>2, <1>7 DEF IInv, LockCoversFrames
<1>9. RootsTabled'
  BY <1>2, <1>7 DEF IInv, RootsTabled
<1>10. OwnersTabled'
  BY <1>2, <1>7 DEF IInv, OwnersTabled, FolderAt
<1>11. LocksOwned'
  BY <1>2 DEF IInv, LocksOwned
<1> QED
  BY <1>1, <1>6, <1>8, <1>9, <1>10, <1>11 DEF IInv

LEMMA NestedKeeps ==
  ASSUME IInv, NEW t \in Threads, EnterNested(t)
  PROVE  IInv'
<1> USE LockAssumption
<1> DEFINE r == entering[t]
<1>1. TypeOK /\ TypeOK'
  BY TypeStep DEF IInv, Next
<1>2. r \in Roots /\ FolderOf[r] \in Folders /\ ProcessOf[t] \in Processes
  BY <1>1 DEF EnterNested, TypeOK
<1>3. Push(t, r, "nested") /\ Register(t, r) /\ UNCHANGED <<flock, owners>>
  BY DEF EnterNested
<1>4. owners[ProcessOf[t]][FolderOf[r]] = t
  BY DEF EnterNested
<1> HIDE DEF r
<1>5. \E j \in 1..Len(frames[t]) :
        frames[t][j].kind = "outer" /\ FolderAt(t, j) = FolderOf[r]
  BY <1>2, <1>4 DEF IInv, OwnersTabled
<1>6. InsideOf(t, FolderOf[r])
  BY <1>1, <1>5, OnStackIsInside
<1>7. Stacked'
  BY <1>2, <1>3, <1>5, PushKeepsOrder DEF Kinds
<1>8. /\ \A u \in Threads : \A f : InsideOf(u, f)' <=> InsideOf(u, f)
      /\ \A u \in Threads : \A k \in 1..Len(frames[u]) :
              k \in 1..Len(frames'[u]) /\ frames'[u][k] = frames[u][k]
      /\ \E k \in 1..Len(frames'[t]) : frames'[t][k].root = r
  BY <1>1, <1>2, <1>3, <1>6, PushAddsOne DEF Kinds
<1>9. LockCoversFrames'
  BY <1>3, <1>8 DEF IInv, LockCoversFrames
<1>10. \A p \in Processes, q \in Roots :
         roots'[p][q] = IF p = ProcessOf[t] /\ q = r THEN t ELSE roots[p][q]
  BY <1>1, <1>2, <1>3 DEF Register, TypeOK
<1>11. RootsTabled'
  BY <1>8, <1>10 DEF IInv, RootsTabled
<1>12. OwnersTabled'
  BY <1>3, <1>8 DEF IInv, OwnersTabled, FolderAt
<1>13. LocksOwned'
  BY <1>3 DEF IInv, LocksOwned
<1> QED
  BY <1>1, <1>7, <1>9, <1>11, <1>12, <1>13 DEF IInv

LEMMA OuterKeeps ==
  ASSUME IInv, NEW t \in Threads, EnterOuter(t)
  PROVE  IInv'
<1> USE LockAssumption
<1> DEFINE r == entering[t]
           o == ProcessOf[t]
           g == FolderOf[r]
<1>1. TypeOK /\ TypeOK'
  BY TypeStep DEF IInv, Next
<1>2. r \in Roots /\ g \in Folders /\ o \in Processes
  BY <1>1 DEF EnterOuter, TypeOK
<1>3. Push(t, r, "outer") /\ Register(t, r)
  BY DEF EnterOuter
<1>4. /\ flock[g] = None
      /\ flock' = [flock EXCEPT ![g] = o]
      /\ owners' = [owners EXCEPT ![o][g] = t]
  BY DEF EnterOuter
<1>5. \A u \in Threads : ~InsideOf(u, g)
  BY <1>2, <1>4 DEF IInv, LockCoversFrames
<1> HIDE DEF r
<1>6. Stacked'
  BY <1>2, <1>3, <1>5, PushKeepsOrder DEF Kinds
<1>7. /\ \A u \in Threads : \A f : InsideOf(u, f)' <=> InsideOf(u, f) \/ (u = t /\ f = g)
      /\ \A u \in Threads : \A k \in 1..Len(frames[u]) :
              k \in 1..Len(frames'[u]) /\ frames'[u][k] = frames[u][k]
      /\ \E k \in 1..Len(frames'[t]) :
              frames'[t][k].root = r /\ frames'[t][k].kind = "outer"
  BY <1>1, <1>2, <1>3, PushAddsOne DEF Kinds
<1> HIDE DEF o, g
<1>8. /\ \A f \in Folders : flock'[f] = IF f = g THEN o ELSE flock[f]
      /\ \A p \in Processes, f \in Folders :
           owners'[p][f] = IF p = o /\ f = g THEN t ELSE owners[p][f]
  BY <1>1, <1>2, <1>4 DEF TypeOK
<1>9. LockCoversFrames'
  BY <1>2, <1>5, <1>7, <1>8 DEF IInv, LockCoversFrames, o
<1>10. \A p \in Processes, q \in Roots :
         roots'[p][q] = IF p = o /\ q = r THEN t ELSE roots[p][q]
  BY <1>1, <1>2, <1>3 DEF Register, TypeOK, o
<1>11. RootsTabled'
  BY <1>7, <1>10 DEF IInv, RootsTabled, o
<1>12. OwnersTabled'
  BY <1>7, <1>8 DEF IInv, OwnersTabled, FolderAt, o, g
<1>13. LocksOwned'
  <2>1. ASSUME NEW f \in Folders, flock'[f] # None
        PROVE  owners'[flock'[f]][f] \in Threads
    <3>1. CASE f = g
      BY <1>2, <1>8, <3>1
    <3>2. CASE f # g
      <4>1. flock'[f] = flock[f] /\ flock[f] \in Processes
        BY <1>1, <1>8, <2>1, <3>2 DEF TypeOK
      <4>2. owners'[flock[f]][f] = owners[flock[f]][f]
        BY <1>8, <3>2, <4>1
      <4> QED
        BY <2>1, <4>1, <4>2 DEF IInv, LocksOwned
    <3> QED
      BY <3>1, <3>2
  <2> QED
    BY <2>1 DEF LocksOwned
<1> QED
  BY <1>1, <1>6, <1>9, <1>11, <1>12, <1>13 DEF IInv

LEMMA LeaveKeeps ==
  ASSUME IInv, NEW t \in Threads, Leave(t)
  PROVE  IInv'
<1> USE LockAssumption
<1> DEFINE n    == Len(frames[t])
           last == frames[t][n]
           p    == ProcessOf[t]
           r    == last.root
<1>1. TypeOK /\ TypeOK'
  BY TypeStep DEF IInv, Next
<1>2. /\ n \in Nat \ {0} /\ last \in Frames
      /\ Len(frames'[t]) = n - 1
      /\ \A i \in 1..(n - 1) : frames'[t][i] = frames[t][i]
      /\ \A u \in Threads \ {t} : frames'[u] = frames[u]
  BY <1>1, LeaveShrinks
<1>3. r \in Roots /\ FolderOf[r] \in Folders /\ p \in Processes
  BY <1>2 DEF Frames
<1> PICK g \in Folders : g = FolderOf[r]
  BY <1>3
<1>4. /\ roots' = IF last.kind = "reentrant" THEN roots ELSE [roots EXCEPT ![p][r] = None]
      /\ owners' = IF last.kind = "outer" THEN [owners EXCEPT ![p][g] = None] ELSE owners
      /\ flock' = IF last.kind = "outer" THEN [flock EXCEPT ![g] = None] ELSE flock
  BY DEF Leave, LastIsOuter
<1>5. n \in 1..Len(frames[t])
  BY <1>2
<1>6. /\ last.kind = "outer" => \A j \in 1..(n-1) : FolderAt(t, j) # g
      /\ last.kind = "reentrant" => \E j \in 1..(n-1) : frames[t][j].root = r
  BY <1>5 DEF IInv, Stacked, FolderAt
<1>7. FolderAt(t, n) = g
  BY DEF FolderAt
<1>8. last = frames[t][n] /\ r = last.root
  OBVIOUS
<1> HIDE DEF last, r, p
<1>9. /\ \A u \in Threads : \A i \in 1..Len(frames'[u]) :
           i \in 1..Len(frames[u]) /\ frames'[u][i] = frames[u][i] /\ (u = t => i \in 1..(n-1))
      /\ \A u \in Threads : \A i \in 1..Len(frames[u]) :
           i \in 1..Len(frames'[u]) \/ (u = t /\ i = n)
  BY <1>2
<1> HIDE DEF n
<1>10. /\ \A u \in Threads : \A f : InsideOf(u, f) <=> \E i \in 1..Len(frames[u]) : FolderAt(u, i) = f
       /\ \A u \in Threads : \A f :
            InsideOf(u, f)' <=> \E i \in 1..Len(frames'[u]) : FolderOf[frames'[u][i].root] = f
  <2>1. \A u \in Threads : DOMAIN frames[u] = 1..Len(frames[u]) /\ DOMAIN frames'[u] = 1..Len(frames'[u])
    BY <1>1 DEF TypeOK
  <2> QED
    BY <2>1 DEF InsideOf, FolderAt
<1>11. \A u \in Threads : \A f : InsideOf(u, f)' => InsideOf(u, f)
  BY <1>9, <1>10 DEF FolderAt
<1>12. InsideOf(t, g)
  BY <1>5, <1>7, <1>10
<1>13. last.kind = "outer" => \A u \in Threads : ~InsideOf(u, g)'
  <2>1. ASSUME last.kind = "outer", NEW u \in Threads, InsideOf(u, g)'
        PROVE  FALSE
    <3>1. u # t
      BY <1>6, <1>9, <1>10, <2>1 DEF FolderAt
    <3>2. owners[ProcessOf[t]][g] = t /\ flock[g] = ProcessOf[t]
      BY <1>3, <1>12 DEF IInv, LockCoversFrames
    <3>3. owners[ProcessOf[u]][g] = u /\ flock[g] = ProcessOf[u]
      BY <1>3, <1>11, <2>1 DEF IInv, LockCoversFrames
    <3> QED
      BY <3>1, <3>2, <3>3
  <2> QED
    BY <2>1
<1>14. /\ \A f \in Folders : flock'[f] = IF last.kind = "outer" /\ f = g THEN None ELSE flock[f]
       /\ \A q \in Processes, f \in Folders :
            owners'[q][f] = IF last.kind = "outer" /\ q = p /\ f = g THEN None ELSE owners[q][f]
       /\ \A q \in Processes, s \in Roots :
            roots'[q][s] = IF last.kind # "reentrant" /\ q = p /\ s = r THEN None ELSE roots[q][s]
  BY <1>1, <1>3, <1>4 DEF TypeOK
<1>15. LockCoversFrames'
  BY <1>11, <1>13, <1>14 DEF IInv, LockCoversFrames
<1>16. Stacked'
  <2>1. SUFFICES ASSUME NEW u \in Threads, NEW i \in 1..Len(frames'[u])
        PROVE
      /\ frames'[u][i].kind = "outer" =>
           \A j \in 1..(i-1) : FolderOf[frames'[u][j].root] # FolderOf[frames'[u][i].root]
      /\ frames'[u][i].kind # "outer" =>
           \E j \in 1..(i-1) : /\ frames'[u][j].kind = "outer"
                               /\ FolderOf[frames'[u][j].root] = FolderOf[frames'[u][i].root]
      /\ frames'[u][i].kind = "reentrant" =>
           \E j \in 1..(i-1) : frames'[u][j].root = frames'[u][i].root
    BY DEF Stacked, FolderAt
  <2>2. Len(frames'[u]) \in Nat
    BY <1>1 DEF TypeOK
  <2>3. \A j \in 1..(i-1) : j \in 1..Len(frames'[u])
    BY <2>2
  <2>4. frames'[u][i] = frames[u][i] /\ \A j \in 1..(i-1) : frames'[u][j] = frames[u][j]
    BY <1>9, <2>3
  <2>5. /\ frames[u][i].kind = "outer" =>
             \A j \in 1..(i-1) : FolderOf[frames[u][j].root] # FolderOf[frames[u][i].root]
        /\ frames[u][i].kind # "outer" =>
             \E j \in 1..(i-1) : /\ frames[u][j].kind = "outer"
                                 /\ FolderOf[frames[u][j].root] = FolderOf[frames[u][i].root]
        /\ frames[u][i].kind = "reentrant" =>
             \E j \in 1..(i-1) : frames[u][j].root = frames[u][i].root
    BY <1>9 DEF IInv, Stacked, FolderAt
  <2> QED
    BY <2>4, <2>5
<1>17. RootsTabled'
  <2>1. ASSUME NEW q \in Processes, NEW s \in Roots, NEW u \in Threads, roots'[q][s] = u
        PROVE  ProcessOf[u] = q /\ \E i \in 1..Len(frames'[u]) : frames'[u][i].root = s
    <3>1. roots[q][s] = u /\ ~(last.kind # "reentrant" /\ q = p /\ s = r)
      BY <1>14, <2>1
    <3>2. ProcessOf[u] = q
      BY <3>1 DEF IInv, RootsTabled
    <3>3. PICK i \in 1..Len(frames[u]) : frames[u][i].root = s
      BY <3>1 DEF IInv, RootsTabled
    <3>4. CASE u = t /\ i = n
      <4>1. s = r /\ last.kind = "reentrant"
        BY <1>8, <3>1, <3>2, <3>3, <3>4 DEF p
      <4>2. PICK j \in 1..(n-1) : frames[t][j].root = r
        BY <1>6, <4>1
      <4>3. j \in 1..Len(frames'[t]) /\ frames'[t][j] = frames[t][j]
        BY <1>2, <4>2
      <4> QED
        BY <3>2, <3>4, <4>1, <4>2, <4>3
    <3>5. CASE ~(u = t /\ i = n)
      BY <1>9, <3>2, <3>3, <3>5
    <3> QED
      BY <3>4, <3>5
  <2> QED
    BY <2>1 DEF RootsTabled
<1>18. OwnersTabled'
  <2>1. ASSUME NEW q \in Processes, NEW f \in Folders, NEW u \in Threads, owners'[q][f] = u
        PROVE  /\ ProcessOf[u] = q
               /\ \E i \in 1..Len(frames'[u]) :
                    frames'[u][i].kind = "outer" /\ FolderOf[frames'[u][i].root] = f
    <3>1. owners[q][f] = u /\ ~(last.kind = "outer" /\ q = p /\ f = g)
      BY <1>14, <2>1
    <3>2. ProcessOf[u] = q
      BY <3>1 DEF IInv, OwnersTabled
    <3>3. PICK i \in 1..Len(frames[u]) : frames[u][i].kind = "outer" /\ FolderAt(u, i) = f
      BY <3>1 DEF IInv, OwnersTabled
    <3>4. ~(u = t /\ i = n)
      BY <1>7, <1>8, <3>1, <3>2, <3>3 DEF p
    <3> QED
      BY <1>9, <3>2, <3>3, <3>4 DEF FolderAt
  <2> QED
    BY <2>1 DEF OwnersTabled, FolderAt
<1>19. LocksOwned'
  <2>1. ASSUME NEW f \in Folders, flock'[f] # None
        PROVE  owners'[flock'[f]][f] \in Threads
    <3>1. flock'[f] = flock[f] /\ flock[f] \in Processes /\ ~(last.kind = "outer" /\ f = g)
      BY <1>1, <1>14, <2>1 DEF TypeOK
    <3>2. owners'[flock[f]][f] = owners[flock[f]][f]
      BY <1>14, <3>1
    <3> QED
      BY <2>1, <3>1, <3>2 DEF IInv, LocksOwned
  <2> QED
    BY <2>1 DEF LocksOwned
<1> QED
  BY <1>1, <1>15, <1>16, <1>17, <1>18, <1>19 DEF IInv

LEMMA DieKeeps ==
  ASSUME IInv, NEW p \in Processes, Die(p)
  PROVE  IInv'
<1> USE LockAssumption
<1>1. TypeOK /\ TypeOK'
  BY TypeStep DEF IInv, Next
<1>2. /\ \A f \in Folders : flock'[f] = IF flock[f] = p THEN None ELSE flock[f]
      /\ \A q \in Processes, f \in Folders : owners'[q][f] = IF q = p THEN None ELSE owners[q][f]
      /\ \A q \in Processes, r \in Roots : roots'[q][r] = IF q = p THEN None ELSE roots[q][r]
      /\ \A t \in Threads : frames'[t] = IF ProcessOf[t] = p THEN <<>> ELSE frames[t]
  BY <1>1 DEF Die, TypeOK
<1>3. \A t \in Threads : \A f : InsideOf(t, f)' => InsideOf(t, f) /\ ProcessOf[t] # p
  BY <1>2 DEF InsideOf
<1>4. LockCoversFrames'
  BY <1>2, <1>3 DEF IInv, LockCoversFrames
<1>5. Stacked'
  <2>1. ASSUME NEW t \in Threads, ProcessOf[t] = p
        PROVE  Len(frames'[t]) = 0
    BY <1>2, <2>1
  <2>2. ASSUME NEW t \in Threads, ProcessOf[t] # p
        PROVE  frames'[t] = frames[t]
    BY <1>2, <2>2
  <2> QED
    BY <2>1, <2>2 DEF IInv, Stacked, FolderAt
<1>6. RootsTabled'
  BY <1>2 DEF IInv, RootsTabled
<1>7. OwnersTabled'
  BY <1>2 DEF IInv, OwnersTabled, FolderAt
<1>8. LocksOwned'
  BY <1>1, <1>2 DEF IInv, LocksOwned, TypeOK
<1> QED
  BY <1>1, <1>4, <1>5, <1>6, <1>7, <1>8 DEF IInv

-----------------------------------------------------------------------------
LEMMA InitHolds == Init => IInv
<1> USE LockAssumption
<1> SUFFICES ASSUME Init PROVE IInv
  OBVIOUS
<1>1. TypeOK
  BY DEF Init, TypeOK
<1>2. \A t \in Threads : frames[t] = <<>> /\ Len(frames[t]) = 0
  BY DEF Init
<1>3. LockCoversFrames /\ Stacked
  BY <1>2 DEF LockCoversFrames, Stacked, InsideOf
<1>4. RootsTabled /\ OwnersTabled /\ LocksOwned
  BY DEF Init, RootsTabled, OwnersTabled, LocksOwned
<1> QED
  BY <1>1, <1>3, <1>4 DEF IInv

LEMMA NextKeeps == IInv /\ [Next]_vars => IInv'
<1> SUFFICES ASSUME IInv, [Next]_vars PROVE IInv'
  OBVIOUS
<1>1. ASSUME NEW t \in Threads, NEW r \in Roots, Ask(t, r)
      PROVE  IInv'
  <2>1. TypeOK' /\ UNCHANGED <<flock, owners, roots, frames>>
    BY <1>1, TypeStep DEF IInv, Ask, Next
  <2> QED
    BY <2>1 DEF IInv, LockCoversFrames, Stacked, RootsTabled, OwnersTabled, LocksOwned, InsideOf, FolderAt
<1>2. ASSUME NEW t \in Threads, Refuse(t)
      PROVE  IInv'
  <2>1. TypeOK' /\ UNCHANGED <<flock, owners, roots, frames>>
    BY <1>2, TypeStep DEF IInv, Refuse, Next
  <2> QED
    BY <2>1 DEF IInv, LockCoversFrames, Stacked, RootsTabled, OwnersTabled, LocksOwned, InsideOf, FolderAt
<1>3. CASE UNCHANGED vars
  <2>1. TypeOK' /\ UNCHANGED <<flock, owners, roots, frames>>
    BY <1>3, TypeStep DEF IInv, vars
  <2> QED
    BY <2>1 DEF IInv, LockCoversFrames, Stacked, RootsTabled, OwnersTabled, LocksOwned, InsideOf, FolderAt
<1> QED
  BY <1>1, <1>2, <1>3, AgainKeeps, NestedKeeps, OuterKeeps, LeaveKeeps, DieKeeps DEF Next

\* The holder of the tables' entries is inside, so nothing held is orphaned.
LEMMA InvImplies == IInv => MutualExclusion /\ NothingLeaks
<1> USE LockAssumption
<1> SUFFICES ASSUME IInv PROVE MutualExclusion /\ NothingLeaks
  OBVIOUS
<1>1. TypeOK
  BY DEF IInv
<1>2. MutualExclusion
  BY DEF IInv, LockCoversFrames, MutualExclusion
<1>3. ASSUME NEW f \in Folders, flock[f] # None
      PROVE  \E t \in Threads : ProcessOf[t] = flock[f] /\ InsideOf(t, f)
  <2>1. flock[f] \in Processes /\ owners[flock[f]][f] \in Threads
    BY <1>1, <1>3 DEF IInv, LocksOwned, TypeOK
  <2>2. PICK t \in Threads : owners[flock[f]][f] = t
    BY <2>1
  <2>3. ProcessOf[t] = flock[f] /\ \E i \in 1..Len(frames[t]) : FolderAt(t, i) = f
    BY <2>1, <2>2 DEF IInv, OwnersTabled
  <2> QED
    BY <1>1, <2>3, OnStackIsInside
<1>4. ASSUME NEW p \in Processes, NEW r \in Roots, roots[p][r] # None
      PROVE  \E i \in DOMAIN frames[roots[p][r]] : frames[roots[p][r]][i].root = r
  <2>1. roots[p][r] \in Threads
    BY <1>1, <1>4 DEF TypeOK
  <2>2. PICK t \in Threads : roots[p][r] = t
    BY <2>1
  <2>3. \E i \in 1..Len(frames[t]) : frames[t][i].root = r
    BY <2>2 DEF IInv, RootsTabled
  <2>4. DOMAIN frames[t] = 1..Len(frames[t])
    BY <1>1 DEF TypeOK
  <2> QED
    BY <2>2, <2>3, <2>4
<1> QED
  BY <1>2, <1>3, <1>4 DEF NothingLeaks

\* Whatever the threads, processes and linked worktrees, at most one writer is
\* inside of a repository, under the lock, and no lock is left behind.
THEOREM LockExcludes == Spec => [](MutualExclusion /\ LockCoversFrames /\ NothingLeaks)
<1>1. Init => IInv
  BY InitHolds
<1>2. IInv /\ [Next]_vars => IInv'
  BY NextKeeps
<1>3. IInv => MutualExclusion /\ LockCoversFrames /\ NothingLeaks
  BY InvImplies DEF IInv
<1> QED
  BY <1>1, <1>2, <1>3, PTL DEF Spec

=============================================================================
