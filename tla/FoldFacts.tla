----------------------------- MODULE FoldFacts -----------------------------
(***************************************************************************)
(* Folds over finite sets, for any operator and any way to pick the next   *)
(* element: MapThenFoldSet of the community modules, from which sums over  *)
(* sets and folds over sequences are made.  The module is instantiated     *)
(* with the operator of a fold.                                            *)
(***************************************************************************)
EXTENDS Integers, Sequences, FiniteSetsExt, Folds, FiniteSetTheorems, WellFoundedInduction, TLAPS

CONSTANTS Op(_, _), Pick(_)

Fold(base, f, S) == MapThenFoldSet(Op, base, LAMBDA i : f[i], Pick, S)

(* The function that the fold chooses.                                      *)
Adds(g, base, f, s) == IF s = {} THEN base ELSE Op(f[Pick(s)], g[s \ {Pick(s)}])

AddsUp(g, base, f, S) == g = [s \in SUBSET S |-> Adds(g, base, f, s)]
Adder(base, f, S)     == CHOOSE g : AddsUp(g, base, f, S)

(* What is picked is an element.                                            *)
Picks(S) == \A s \in SUBSET S : s # {} => Pick(s) \in s

LEMMA FoldIsAdder ==
  ASSUME NEW base, NEW f, NEW S
  PROVE  Fold(base, f, S) = Adder(base, f, S)[S]
  BY DEF Fold, MapThenFoldSet, Adder, AddsUp, Adds

Below == {ss \in Nat \X Nat : ss[1] < ss[2]}

LEMMA LeastNumber ==
  ASSUME NEW N, N \subseteq Nat, N # {}
  PROVE  \E n \in N : \A m \in N : n <= m
  <1>1. IsWellFoundedOn(Below, Nat)
    BY NatLessThanWellFounded DEF OpToRel, Below
  <1>2. PICK n \in N : \A m \in N : <<m, n>> \notin Below
    BY <1>1, WFMin
  <1>3. \A m \in N : ~ (m < n)
    BY <1>2 DEF Below
  <1>. QED BY <1>3

Small(S, n) == {s \in SUBSET S : Cardinality(s) <= n}
AddsUpTo(g, base, f, S, n) == g = [s \in Small(S, n) |-> Adds(g, base, f, s)]

LEMMA OneLess ==
  ASSUME NEW S, IsFiniteSet(S), Picks(S), NEW s \in SUBSET S, s # {}
  PROVE  /\ Pick(s) \in s /\ s \ {Pick(s)} \in SUBSET S
         /\ IsFiniteSet(s) /\ IsFiniteSet(s \ {Pick(s)})
         /\ Cardinality(s) \in Nat /\ Cardinality(s \ {Pick(s)}) \in Nat
         /\ Cardinality(s \ {Pick(s)}) = Cardinality(s) - 1
  BY FS_Subset, FS_RemoveElement, FS_CardinalityType DEF Picks

LEMMA NextAdder ==
  ASSUME NEW base, NEW f, NEW S, IsFiniteSet(S), Picks(S), NEW n \in Nat,
         NEW g, AddsUpTo(g, base, f, S, n)
  PROVE  \E h : AddsUpTo(h, base, f, S, n + 1)
  <1>. DEFINE h == [s \in Small(S, n + 1) |-> Adds(g, base, f, s)]
  <1>1. ASSUME NEW s \in Small(S, n) PROVE h[s] = g[s]
    <2>1. Cardinality(s) \in Nat /\ s \in Small(S, n + 1)
      BY FS_Subset, FS_CardinalityType DEF Small
    <2>2. g[s] = Adds(g, base, f, s)
      BY DEF AddsUpTo
    <2>. QED BY <2>1, <2>2
  <1>2. ASSUME NEW s \in Small(S, n + 1) PROVE Adds(g, base, f, s) = Adds(h, base, f, s)
    <2>1. CASE s = {}
      BY <2>1 DEF Adds
    <2>2. CASE s # {}
      <3>1. s \ {Pick(s)} \in Small(S, n)
        <4>1. s \in SUBSET S /\ Cardinality(s) <= n + 1
          BY DEF Small
        <4>2. /\ s \ {Pick(s)} \in SUBSET S
              /\ Cardinality(s) \in Nat /\ Cardinality(s \ {Pick(s)}) \in Nat
              /\ Cardinality(s \ {Pick(s)}) = Cardinality(s) - 1
          BY <2>2, <4>1, OneLess
        <4>. QED BY <4>1, <4>2 DEF Small
      <3>2. h[s \ {Pick(s)}] = g[s \ {Pick(s)}]
        BY <1>1, <3>1
      <3>. QED BY <2>2, <3>2 DEF Adds
    <2>. QED BY <2>1, <2>2
  <1>3. h = [s \in Small(S, n + 1) |-> Adds(h, base, f, s)]
    BY <1>2
  <1>. QED BY <1>3 DEF AddsUpTo

(* There is one: at the least cardinality where there is none, the one      *)
(* below can be continued.                                                  *)
LEMMA AdderExists ==
  ASSUME NEW base, NEW f, NEW S, IsFiniteSet(S), Picks(S)
  PROVE  AddsUp(Adder(base, f, S), base, f, S)
  <1>. DEFINE N == {n \in Nat : ~ \E g : AddsUpTo(g, base, f, S, n)}
  <1>1. 0 \notin N
    <2>. DEFINE g == [s \in Small(S, 0) |-> base]
    <2>1. ASSUME NEW s \in Small(S, 0) PROVE s = {}
      BY FS_Subset, FS_CardinalityType, FS_EmptySet DEF Small
    <2>2. g = [s \in Small(S, 0) |-> Adds(g, base, f, s)]
      BY <2>1 DEF Adds
    <2>. QED BY <2>2 DEF AddsUpTo
  <1>2. N = {}
    <2>. SUFFICES ASSUME N # {} PROVE FALSE
      OBVIOUS
    <2>1. PICK n \in N : \A m \in N : n <= m
      BY LeastNumber
    <2>2. n \in Nat \ {0} /\ n - 1 \in Nat
      BY <1>1
    <2>3. n - 1 \notin N
      BY <2>1, <2>2
    <2>4. \E g : AddsUpTo(g, base, f, S, n - 1)
      BY <2>2, <2>3
    <2>5. \E g : AddsUpTo(g, base, f, S, (n - 1) + 1)
      BY <2>2, <2>4, NextAdder
    <2>. QED BY <2>2, <2>5
  <1>3. Cardinality(S) \in Nat
    BY FS_CardinalityType
  <1>4. Small(S, Cardinality(S)) = SUBSET S
    BY FS_Subset DEF Small
  <1>5. \E g : AddsUpTo(g, base, f, S, Cardinality(S))
    BY <1>2, <1>3
  <1>6. \E g : AddsUp(g, base, f, S)
    BY <1>4, <1>5 DEF AddsUpTo, AddsUp
  <1>. QED BY <1>6 DEF Adder

(* Whatever else they fold, two such functions agree where the terms do.    *)
LEMMA AddersAgree ==
  ASSUME NEW base, NEW f, NEW e, NEW S, NEW T, NEW g, NEW h, NEW R, IsFiniteSet(R), Picks(R),
         AddsUp(g, base, f, S), AddsUp(h, base, e, T), R \in SUBSET S, R \in SUBSET T,
         \A x \in R : f[x] = e[x]
  PROVE  g[R] = h[R]
  <1>. DEFINE N == {n \in Nat : \E s \in SUBSET R : Cardinality(s) = n /\ g[s] # h[s]}
  <1>1. SUFFICES ASSUME N # {} PROVE FALSE
    <2>1. Cardinality(R) \in Nat
      BY FS_CardinalityType
    <2>. QED BY <2>1
  <1>2. PICK n \in N : \A m \in N : n <= m
    BY <1>1, LeastNumber
  <1>3. PICK s \in SUBSET R : Cardinality(s) = n /\ g[s] # h[s]
    OBVIOUS
  <1>4. g[s] = Adds(g, base, f, s) /\ h[s] = Adds(h, base, e, s)
    BY DEF AddsUp
  <1>5. s # {}
    BY <1>3, <1>4 DEF Adds
  <1>. DEFINE x == Pick(s)
  <1>6. /\ x \in s /\ s \ {x} \in SUBSET R
        /\ Cardinality(s \ {x}) \in Nat /\ Cardinality(s \ {x}) = n - 1 /\ n \in Nat
    BY <1>3, <1>5, OneLess
  <1>7. g[s \ {x}] = h[s \ {x}]
    <2>. HIDE DEF x, N
    <2>1. Cardinality(s \ {x}) \notin N
      BY <1>2, <1>6
    <2>. QED BY <1>6, <2>1 DEF N
  <1>8. f[x] = e[x]
    BY <1>6
  <1>. QED BY <1>3, <1>4, <1>5, <1>7, <1>8 DEF Adds

-----------------------------------------------------------------------------
(* A fold of nothing, of the same, and of one element more.                 *)
LEMMA FoldOfNone ==
  ASSUME NEW base, NEW f
  PROVE  Fold(base, f, {}) = base
  <1>1. IsFiniteSet({}) /\ Picks({})
    BY FS_EmptySet DEF Picks
  <1>2. AddsUp(Adder(base, f, {}), base, f, {})
    BY <1>1, AdderExists
  <1>3. Adder(base, f, {})[{}] = base
    BY <1>2 DEF AddsUp, Adds
  <1>. QED BY <1>3, FoldIsAdder

LEMMA FoldsAgree ==
  ASSUME NEW base, NEW f, NEW e, NEW S, IsFiniteSet(S), Picks(S), \A x \in S : f[x] = e[x]
  PROVE  Fold(base, f, S) = Fold(base, e, S)
  <1>. DEFINE g == Adder(base, f, S)
              h == Adder(base, e, S)
  <1>1. AddsUp(g, base, f, S) /\ AddsUp(h, base, e, S) /\ S \in SUBSET S
    BY AdderExists
  <1>2. Fold(base, f, S) = g[S] /\ Fold(base, e, S) = h[S]
    BY FoldIsAdder
  <1>. HIDE DEF g, h
  <1>3. ASSUME NEW R \in SUBSET S PROVE g[R] = h[R]
    <2>1. IsFiniteSet(R) /\ Picks(R) /\ \A x \in R : f[x] = e[x]
      BY FS_Subset DEF Picks
    <2>2. \A A : AddsUp(g, base, f, A) /\ R \in SUBSET A
                   => (AddsUp(h, base, e, A) => g[R] = h[R])
      BY <2>1, AddersAgree
    <2>. QED BY <1>1, <2>2
  <1>. QED BY <1>2, <1>3

LEMMA FoldOfMore ==
  ASSUME NEW base, NEW f, NEW S, IsFiniteSet(S), Picks(S), S # {}
  PROVE  Fold(base, f, S) = Op(f[Pick(S)], Fold(base, f, S \ {Pick(S)}))
  <1>. DEFINE R == S \ {Pick(S)}
              g == Adder(base, f, S)
              h == Adder(base, f, R)
  <1>1. IsFiniteSet(R) /\ Picks(R) /\ R \in SUBSET S /\ R \in SUBSET R
    BY FS_RemoveElement DEF Picks
  <1>2. AddsUp(g, base, f, S) /\ AddsUp(h, base, f, R)
    BY <1>1, AdderExists
  <1>3. Fold(base, f, S) = g[S] /\ Fold(base, f, R) = h[R]
    BY FoldIsAdder
  <1>4. g[S] = Adds(g, base, f, S)
    BY <1>2 DEF AddsUp
  <1>5. g[S] = Op(f[Pick(S)], g[R])
    BY <1>4 DEF Adds
  <1>. HIDE DEF g, h, R
  <1>6. \A A : AddsUp(g, base, f, A) /\ R \in SUBSET A
                 => (AddsUp(h, base, f, R) => g[R] = h[R])
    BY <1>1, AddersAgree
  <1>. QED BY <1>1, <1>2, <1>3, <1>5, <1>6 DEF R

-----------------------------------------------------------------------------
(* Sequences *)

(* What holds of the empty sequence, and of a longer one whenever it holds  *)
(* of its front, holds of all.                                              *)
LEMMA PrefixInduction ==
  ASSUME NEW A, NEW G, <<>> \in G,
         \A s \in Seq(A), x \in A : s \in G => Append(s, x) \in G
  PROVE  \A s \in Seq(A) : s \in G
  <1>. SUFFICES ASSUME NEW s \in Seq(A), s \notin G PROVE FALSE
    OBVIOUS
  <1>. DEFINE N == {n \in Nat : n <= Len(s) /\ SubSeq(s, 1, n) \notin G}
  <1>1. SubSeq(s, 1, Len(s)) = s /\ Len(s) \in Nat /\ Len(s) <= Len(s)
        /\ SubSeq(s, 1, 0) = <<>>
    OBVIOUS
  <1>2. Len(s) \in N
    <2>1. SubSeq(s, 1, Len(s)) \notin G
      BY <1>1, Zenon
    <2>. QED BY <1>1, <2>1, Zenon
  <1>3. PICK n \in N : \A m \in N : n <= m
    BY <1>2, LeastNumber
  <1>4. n \in Nat /\ n <= Len(s) /\ SubSeq(s, 1, n) \notin G
    OBVIOUS
  <1>5. n # 0
    <2>1. ASSUME n = 0 PROVE FALSE
      <3>1. SubSeq(s, 1, 0) \notin G
        BY <1>4, <2>1, Zenon
      <3>. QED BY <1>1, <3>1, Zenon
    <2>. QED BY <2>1
  <1>6. n - 1 \in Nat /\ n - 1 \notin N
    BY <1>3, <1>4, <1>5
  <1>7. SubSeq(s, 1, n - 1) \in G
    BY <1>4, <1>6
  <1>8. SubSeq(s, 1, n - 1) \in Seq(A) /\ s[n] \in A
    BY <1>4, <1>5
  <1>9. SubSeq(s, 1, n) = Append(SubSeq(s, 1, n - 1), s[n])
    BY <1>4, <1>5, <1>8
  <1>. QED BY <1>4, <1>7, <1>8, <1>9

(* A fold over a sequence takes its elements from the left.                 *)
SeqFold(base, s) == Fold(base, s, DOMAIN s)

LastFirst == \A n \in Nat : Picks(1..n) /\ (n > 0 => Pick(1..n) = n)

LEMMA MaxIsLast ==
  ASSUME \A S : Pick(S) = Max(S)
  PROVE  LastFirst
  <1>1. ASSUME NEW n \in Nat, NEW s \in SUBSET (1..n), s # {}
        PROVE  Max(s) \in s /\ \A y \in s : Max(s) >= y
    <2>. DEFINE N == {k \in Nat : n - k \in s}
    <2>1. N # {}
      <3>1. PICK x \in s : TRUE
        BY <1>1
      <3>2. n - x \in Nat /\ n - (n - x) = x
        BY <3>1
      <3>. QED BY <3>1, <3>2
    <2>2. PICK k \in N : \A m \in N : k <= m
      BY <2>1, LeastNumber
    <2>3. ASSUME NEW y \in s PROVE n - k >= y
      <3>1. y \in Nat /\ n - y \in Nat /\ n - (n - y) = y
        BY <1>1
      <3>2. n - y \in N
        BY <3>1
      <3>. QED BY <2>2, <3>1, <3>2
    <2>4. \E x \in s : \A y \in s : x >= y
      BY <2>3
    <2>. QED BY <2>4 DEF Max
  <1>2. ASSUME NEW n \in Nat PROVE Picks(1..n)
    BY <1>1 DEF Picks
  <1>3. ASSUME NEW n \in Nat, n > 0 PROVE Max(1..n) = n
    <2>1. 1..n # {} /\ n \in 1..n
      BY <1>3
    <2>2. Max(1..n) \in 1..n /\ Max(1..n) >= n
      BY <1>1, <2>1
    <2>. QED BY <2>2
  <1>. QED BY <1>2, <1>3 DEF LastFirst

LEMMA SeqFoldOfNone ==
  ASSUME NEW base
  PROVE  SeqFold(base, <<>>) = base
  <1>1. DOMAIN <<>> = {}
    OBVIOUS
  <1>. QED BY <1>1, FoldOfNone DEF SeqFold

LEMMA SeqFoldOfAppend ==
  ASSUME LastFirst, NEW base, NEW A, NEW s \in Seq(A), NEW x \in A
  PROVE  SeqFold(base, Append(s, x)) = Op(x, SeqFold(base, s))
  <1>. DEFINE n == Len(s)
              t == Append(s, x)
  <1>1. /\ n \in Nat /\ DOMAIN s = 1..n /\ DOMAIN t = 1..(n + 1)
        /\ t[n + 1] = x /\ \A i \in 1..n : t[i] = s[i]
    OBVIOUS
  <1>2. Picks(1..n) /\ Picks(1..(n + 1)) /\ Pick(1..(n + 1)) = n + 1
    BY <1>1 DEF LastFirst
  <1>3. IsFiniteSet(1..n) /\ IsFiniteSet(1..(n + 1))
    BY <1>1, FS_Interval
  <1>4. (1..(n + 1)) \ {n + 1} = 1..n /\ 1..(n + 1) # {}
    BY <1>1
  <1>. HIDE DEF n, t
  <1>5. Fold(base, t, 1..(n + 1)) = Op(x, Fold(base, t, 1..n))
    BY <1>1, <1>2, <1>3, <1>4, FoldOfMore
  <1>6. Fold(base, t, 1..n) = Fold(base, s, 1..n)
    BY <1>1, <1>2, <1>3, FoldsAgree
  <1>. QED BY <1>1, <1>5, <1>6 DEF SeqFold, t

LEMMA SeqFoldOfConcat ==
  ASSUME LastFirst, NEW base, NEW A, NEW s \in Seq(A), NEW t \in Seq(A)
  PROVE  SeqFold(base, s \o t) = SeqFold(SeqFold(base, s), t)
  <1>. DEFINE G == {u \in Seq(A) : SeqFold(base, s \o u) = SeqFold(SeqFold(base, s), u)}
  <1>1. <<>> \in G
    <2>1. s \o <<>> = s /\ <<>> \in Seq(A)
      OBVIOUS
    <2>. QED BY <2>1, SeqFoldOfNone
  <1>2. ASSUME NEW u \in Seq(A), NEW x \in A, u \in G PROVE Append(u, x) \in G
    <2>1. /\ s \o Append(u, x) = Append(s \o u, x) /\ Append(u, x) \in Seq(A)
          /\ s \o u \in Seq(A)
      OBVIOUS
    <2>2. SeqFold(base, Append(s \o u, x)) = Op(x, SeqFold(base, s \o u))
      BY <2>1, SeqFoldOfAppend
    <2>3. SeqFold(SeqFold(base, s), Append(u, x)) = Op(x, SeqFold(SeqFold(base, s), u))
      BY SeqFoldOfAppend
    <2>. QED BY <1>2, <2>1, <2>2, <2>3
  <1>. HIDE DEF G
  <1>3. t \in G
    BY <1>1, <1>2, PrefixInduction
  <1>. QED BY <1>3 DEF G

(* What holds at the start and is kept by each element holds at the end.    *)
LEMMA SeqFoldKeeps ==
  ASSUME LastFirst, NEW A, NEW I, NEW base \in I, NEW s \in Seq(A),
         \A x \in A, y \in I : Op(x, y) \in I
  PROVE  SeqFold(base, s) \in I
  <1>. DEFINE G == {u \in Seq(A) : SeqFold(base, u) \in I}
  <1>1. <<>> \in G
    BY SeqFoldOfNone
  <1>2. ASSUME NEW u \in Seq(A), NEW x \in A, u \in G PROVE Append(u, x) \in G
    BY <1>2, SeqFoldOfAppend
  <1>. HIDE DEF G
  <1>3. s \in G
    BY <1>1, <1>2, PrefixInduction
  <1>. QED BY <1>3 DEF G
=============================================================================
