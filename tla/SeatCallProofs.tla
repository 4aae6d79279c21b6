---------------------------- MODULE SeatCallProofs ----------------------------
(***************************************************************************)
(* Proofs about SeatCall, for any lines, limits, callers and bounds: what  *)
(* the stream and the captured file of a call hold of its output, and that *)
(* an answer says `completed' exactly when it may.                         *)
(***************************************************************************)
EXTENDS SeatCall, FiniteSetTheorems, TLAPS

(* The three folds of a text: into its pieces, by a stream that is fed with *)
(* them, and by one that is told its lines.                                 *)
Largest(S)     == Max(S)
SplitBy(u, ps) == Split(ps, u)
PieceOf(p, st) == Piece(st, p)
ToldOf(p, st)  == Told(st, p)

Splits == INSTANCE FoldFacts WITH Op <- SplitBy, Pick <- Largest
Reads  == INSTANCE FoldFacts WITH Op <- PieceOf, Pick <- Largest
Tells  == INSTANCE FoldFacts WITH Op <- ToldOf,  Pick <- Largest

LEMMA LastIsFirst == Splits!LastFirst /\ Reads!LastFirst /\ Tells!LastFirst
  <1>1. \A S : /\ Largest(S) = Splits!Max(S) /\ Largest(S) = Reads!Max(S)
               /\ Largest(S) = Tells!Max(S)
    BY DEF Largest, Max, Splits!Max, Reads!Max, Tells!Max
  <1>. QED BY <1>1, Splits!MaxIsLast, Reads!MaxIsLast, Tells!MaxIsLast

LEMMA FoldsAreFolds ==
  ASSUME NEW base, NEW s
  PROVE  /\ FoldLeft(Split, base, s) = Splits!SeqFold(base, s)
         /\ FoldLeft(Piece, base, s) = Reads!SeqFold(base, s)
         /\ FoldLeft(Told, base, s)  = Tells!SeqFold(base, s)
  BY DEF FoldLeft, MapThenFoldSet, Splits!MapThenFoldSet, Reads!MapThenFoldSet,
         Tells!MapThenFoldSet, Splits!SeqFold, Splits!Fold, Reads!SeqFold, Reads!Fold,
         Tells!SeqFold, Tells!Fold, SplitBy, PieceOf, ToldOf, Largest

(* A fold of nothing, and of one element more. *)
LEMMA FoldsOfNone ==
  ASSUME NEW base
  PROVE  /\ FoldLeft(Split, base, <<>>) = base /\ FoldLeft(Piece, base, <<>>) = base
         /\ FoldLeft(Told, base, <<>>) = base
  BY FoldsAreFolds, Splits!SeqFoldOfNone, Reads!SeqFoldOfNone, Tells!SeqFoldOfNone

LEMMA FoldsOfMore ==
  ASSUME NEW base, NEW A, NEW s \in Seq(A), NEW x \in A
  PROVE  /\ FoldLeft(Split, base, Append(s, x)) = Split(FoldLeft(Split, base, s), x)
         /\ FoldLeft(Piece, base, Append(s, x)) = Piece(FoldLeft(Piece, base, s), x)
         /\ FoldLeft(Told, base, Append(s, x))  = Told(FoldLeft(Told, base, s), x)
  <1>1. /\ Splits!SeqFold(base, Append(s, x)) = SplitBy(x, Splits!SeqFold(base, s))
        /\ Reads!SeqFold(base, Append(s, x)) = PieceOf(x, Reads!SeqFold(base, s))
        /\ Tells!SeqFold(base, Append(s, x)) = ToldOf(x, Tells!SeqFold(base, s))
    BY LastIsFirst, Splits!SeqFoldOfAppend, Reads!SeqFoldOfAppend, Tells!SeqFoldOfAppend
  <1>. QED BY <1>1, FoldsAreFolds DEF SplitBy, PieceOf, ToldOf

LEMMA ByPrefixes ==
  ASSUME NEW A, NEW G, <<>> \in G,
         \A s \in Seq(A), x \in A : s \in G => Append(s, x) \in G
  PROVE  \A s \in Seq(A) : s \in G
  BY Splits!PrefixInduction

-----------------------------------------------------------------------------
(* Pieces *)

Part  == [text : Seq(Units), ended : BOOLEAN]
Line  == [text : Seq(Units), ended : {TRUE}]

(* All pieces but the last are ended, and one that is not has a text.       *)
Shaped(ps) ==
  /\ ps \in Seq(Part) /\ Ended(ps) \in Seq(Line) /\ Rest(ps) \in Seq(Units)
  /\ Unended(ps) => /\ ps = Append(Ended(ps), [text |-> Rest(ps), ended |-> FALSE])
                    /\ Rest(ps) # <<>>
  /\ ~Unended(ps) => ps = Ended(ps) /\ Rest(ps) = <<>>

LEMMA SeqOfMore ==
  ASSUME NEW A, NEW B, A \subseteq B, NEW s \in Seq(A)
  PROVE  s \in Seq(B)
  OBVIOUS

LEMMA SeqOfFunction ==
  ASSUME NEW n \in Nat, NEW A, NEW f \in [1..n -> A]
  PROVE  f \in Seq(A) /\ Len(f) = n
  OBVIOUS

LEMMA UnitsAre ==
  /\ Newline \in Units
  /\ \A k \in Kinds : Whole(k) \in Seq(Units) /\ Len(Whole(k)) = Size[k] /\ Whole(k) # <<>>
  <1>1. Newline \in Units
    BY DEF Units
  <1>2. ASSUME NEW k \in Kinds
        PROVE  Whole(k) \in Seq(Units) /\ Len(Whole(k)) = Size[k] /\ Whole(k) # <<>>
    <2>1. Size[k] \in Nat \ {0}
      BY StreamAssumption
    <2>2. \A i \in 1..Size[k] : Whole(k)[i] \in Units
      BY DEF Units
    <2>3. Whole(k) \in [1..Size[k] -> Units]
      BY <2>2 DEF Whole
    <2>4. Whole(k) \in Seq(Units) /\ Len(Whole(k)) = Size[k]
      BY <2>1, <2>3, SeqOfFunction
    <2>. QED BY <2>1, <2>4
  <1>. QED BY <1>1, <1>2

LEMMA AppendEnds ==
  ASSUME NEW A, NEW s \in Seq(A), NEW x \in A
  PROVE  /\ Front(Append(s, x)) = s /\ Last(Append(s, x)) = x
         /\ Append(s, x) # <<>> /\ Append(s, x) \in Seq(A)
  BY DEF Front, Last

LEMMA SplitIsShaped ==
  ASSUME NEW ps, Shaped(ps), NEW u \in Units
  PROVE  /\ Shaped(Split(ps, u))
         /\ u = Newline => /\ Ended(Split(ps, u))
                                = Append(Ended(ps), [text |-> Rest(ps), ended |-> TRUE])
                           /\ Rest(Split(ps, u)) = <<>>
         /\ u # Newline => /\ Ended(Split(ps, u)) = Ended(ps)
                           /\ Rest(Split(ps, u)) = Append(Rest(ps), u)
  <1>1. Ended(ps) \in Seq(Line) /\ Ended(ps) \in Seq(Part) /\ Rest(ps) \in Seq(Units)
    <2>1. Line \subseteq Part
      BY DEF Line, Part
    <2>2. Ended(ps) \in Seq(Line) /\ Rest(ps) \in Seq(Units)
      BY DEF Shaped
    <2>. QED BY <2>1, <2>2, SeqOfMore
  <1>2. CASE u = Newline
    <2>. DEFINE p == [text |-> Rest(ps), ended |-> TRUE]
    <2>1. Split(ps, u) = Append(Ended(ps), p) /\ p \in Line /\ p \in Part /\ p.ended
      BY <1>1, <1>2 DEF Split, Line, Part
    <2>. HIDE DEF p
    <2>2. /\ Last(Split(ps, u)) = p /\ Split(ps, u) \in Seq(Line)
          /\ Split(ps, u) \in Seq(Part)
      BY <1>1, <2>1, AppendEnds
    <2>3. ~Unended(Split(ps, u))
      BY <2>1, <2>2 DEF Unended
    <2>4. Ended(Split(ps, u)) = Split(ps, u) /\ Rest(Split(ps, u)) = <<>>
      BY <2>3 DEF Ended, Rest
    <2>5. Shaped(Split(ps, u))
      BY <2>2, <2>3, <2>4 DEF Shaped
    <2>6. Ended(Split(ps, u)) = Append(Ended(ps), p)
      BY <2>1, <2>4
    <2>. QED BY <1>2, <2>4, <2>5, <2>6, Zenon DEF p
  <1>3. CASE u # Newline
    <2>. DEFINE r == Append(Rest(ps), u)
                p == [text |-> r, ended |-> FALSE]
    <2>1. r \in Seq(Units) /\ r # <<>>
      BY <1>1, AppendEnds
    <2>2. Split(ps, u) = Append(Ended(ps), p) /\ p \in Part /\ ~p.ended /\ p.text = r
      BY <1>3, <2>1 DEF Split, Part
    <2>. HIDE DEF p, r
    <2>3. /\ Last(Split(ps, u)) = p /\ Front(Split(ps, u)) = Ended(ps)
          /\ Split(ps, u) # <<>> /\ Split(ps, u) \in Seq(Part)
      BY <1>1, <2>2, AppendEnds
    <2>4. Unended(Split(ps, u))
      BY <2>2, <2>3 DEF Unended
    <2>5. Ended(Split(ps, u)) = Ended(ps) /\ Rest(Split(ps, u)) = r
      BY <2>2, <2>3, <2>4 DEF Ended, Rest
    <2>. QED BY <1>1, <1>3, <2>1, <2>2, <2>3, <2>4, <2>5 DEF Shaped, p, r
  <1>. QED BY <1>2, <1>3

LEMMA PiecesOfNone == Pieces(<<>>) = <<>> /\ Shaped(<<>>) /\ Ended(<<>>) = <<>> /\ Rest(<<>>) = <<>>
  BY FoldsOfNone DEF Pieces, Shaped, Ended, Rest, Unended

LEMMA PiecesOfMore ==
  ASSUME NEW text \in Seq(Units), NEW u \in Units
  PROVE  Pieces(Append(text, u)) = Split(Pieces(text), u)
  <1>1. Splits!SeqFold(<<>>, Append(text, u)) = SplitBy(u, Splits!SeqFold(<<>>, text))
    BY LastIsFirst, Splits!SeqFoldOfAppend
  <1>2. \A s : Pieces(s) = Splits!SeqFold(<<>>, s)
    BY FoldsAreFolds DEF Pieces
  <1>. QED BY <1>1, <1>2 DEF SplitBy

LEMMA PiecesAreShaped ==
  ASSUME NEW text \in Seq(Units)
  PROVE  Shaped(Pieces(text))
  <1>. DEFINE G == {t \in Seq(Units) : Shaped(Pieces(t))}
  <1>1. <<>> \in G
    BY PiecesOfNone
  <1>2. ASSUME NEW t \in Seq(Units), NEW u \in Units, t \in G PROVE Append(t, u) \in G
    <2>1. Shaped(Pieces(t)) /\ Pieces(Append(t, u)) = Split(Pieces(t), u)
      BY <1>2, PiecesOfMore
    <2>2. Shaped(Split(Pieces(t), u))
      BY <2>1, SplitIsShaped, Zenon
    <2>. QED BY <2>1, <2>2
  <1>. HIDE DEF G
  <1>3. text \in G
    BY <1>1, <1>2, ByPrefixes
  <1>. QED BY <1>3 DEF G

-----------------------------------------------------------------------------
(* Streams *)

LEMMA DecodedIsKind == \A raw : Decoded(raw) \in Kinds
  BY DEF Decoded, Kinds

(* What the record of a kind says of a stream, field by field.              *)
Full(st, kind)  == kind \in Counted /\ st.usage = MaxUsage
Wrong(st, kind) == Full(st, kind) \/ kind \in {"bad", "long"}

EndedBy(st, kind)   == IF kind \in {"start"} \cup Replies THEN FALSE
                       ELSE st.ended \/ kind = "settled"
AwaitedBy(st, kind) == IF kind \in Replies THEN FALSE ELSE st.awaited \/ kind = "turn"
FailureBy(st, kind) == CASE kind = "retry" -> "transport"
                         [] kind = "refused" -> "capacity"
                         [] kind \in Replies \ {"refused"} -> "none"
                         [] OTHER -> st.failure
StopBy(st, kind)    == CASE kind \in {"answer", "long"} -> "stop"
                         [] kind = "tooluse" -> "toolUse"
                         [] kind = "refused" -> "error"
                         [] OTHER -> st.stop
TextBy(st, kind)    == IF kind \in Replies THEN kind # "long" ELSE st.text
UsageBy(st, kind)   == IF kind \in Counted /\ ~Full(st, kind) THEN st.usage + 1 ELSE st.usage

After(st, kind) ==
  [pending |-> st.pending, discarding |-> st.discarding, finished |-> st.finished,
   ended |-> EndedBy(st, kind), awaited |-> AwaitedBy(st, kind), stop |-> StopBy(st, kind),
   text |-> TextBy(st, kind), failure |-> FailureBy(st, kind),
   diagnostic |-> st.diagnostic \/ Wrong(st, kind),
   usage |-> UsageBy(st, kind),
   whole |-> st.whole /\ ~Wrong(st, kind) /\ kind # "helper"]

LEMMA HeardIs ==
  ASSUME NEW st \in Streams, NEW kind \in Kinds
  PROVE  Heard(st, kind) =
           [pending |-> st.pending, discarding |-> st.discarding, finished |-> st.finished,
            ended |-> EndedBy(st, kind), awaited |-> AwaitedBy(st, kind),
            stop |-> StopBy(st, kind), text |-> TextBy(st, kind),
            failure |-> FailureBy(st, kind), diagnostic |-> st.diagnostic,
            usage |-> st.usage, whole |-> st.whole]
  <1>1. Heard(st, kind) =
          [st EXCEPT !.ended = EndedBy(st, kind), !.awaited = AwaitedBy(st, kind),
                     !.failure = FailureBy(st, kind), !.stop = StopBy(st, kind),
                     !.text = TextBy(st, kind)]
    BY Zenon DEF Heard, EndedBy, AwaitedBy, StopBy, TextBy, FailureBy
  <1>. QED BY <1>1 DEF Streams

LEMMA AfterIsStream ==
  ASSUME NEW st \in Streams, NEW kind \in Kinds
  PROVE  After(st, kind) \in Streams
  <1>1. /\ EndedBy(st, kind) \in BOOLEAN /\ AwaitedBy(st, kind) \in BOOLEAN
        /\ TextBy(st, kind) \in BOOLEAN
    BY DEF Streams, EndedBy, AwaitedBy, TextBy
  <1>2. /\ StopBy(st, kind) \in {"none", "stop", "toolUse", "error"}
        /\ FailureBy(st, kind) \in {"none", "transport", "capacity"}
    BY DEF Streams, StopBy, FailureBy
  <1>3. UsageBy(st, kind) \in 0..MaxUsage
    BY StreamAssumption DEF Streams, UsageBy, Full
  <1>4. /\ st.pending \in Seq(Units) /\ st.discarding \in BOOLEAN /\ st.finished \in BOOLEAN
        /\ (st.diagnostic \/ Wrong(st, kind)) \in BOOLEAN
        /\ (st.whole /\ ~Wrong(st, kind) /\ kind # "helper") \in BOOLEAN
    BY DEF Streams
  <1>. QED BY <1>1, <1>2, <1>3, <1>4 DEF After, Streams

LEMMA RecordIs ==
  ASSUME NEW st \in Streams, NEW raw
  PROVE  /\ Record(st, raw) = After(st, Decoded(raw))
         /\ Record(st, raw) \in Streams
  <1>. DEFINE kind == Decoded(raw)
              h == Heard(st, kind)
              told == Spent(h, kind)
  <1>1. kind \in Kinds
    BY DecodedIsKind
  <1>. HIDE DEF kind
  <1>2. h = [pending |-> st.pending, discarding |-> st.discarding, finished |-> st.finished,
             ended |-> EndedBy(st, kind), awaited |-> AwaitedBy(st, kind),
             stop |-> StopBy(st, kind), text |-> TextBy(st, kind),
             failure |-> FailureBy(st, kind), diagnostic |-> st.diagnostic,
             usage |-> st.usage, whole |-> st.whole]
    BY <1>1, HeardIs
  <1>. HIDE DEF h
  <1>3. st.usage \in 0..MaxUsage /\ st.whole \in BOOLEAN /\ st.diagnostic \in BOOLEAN
    BY DEF Streams
  <1>4. told = [pending |-> st.pending, discarding |-> st.discarding, finished |-> st.finished,
                ended |-> EndedBy(st, kind), awaited |-> AwaitedBy(st, kind),
                stop |-> StopBy(st, kind), text |-> TextBy(st, kind),
                failure |-> FailureBy(st, kind), diagnostic |-> st.diagnostic \/ Full(st, kind),
                usage |-> UsageBy(st, kind),
                whole |-> st.whole /\ ~Full(st, kind) /\ kind # "helper"]
    <2>1. CASE kind \notin Counted
      <3>1. told = h /\ ~Full(st, kind) /\ UsageBy(st, kind) = st.usage /\ kind # "helper"
        <4>1. kind # "helper" /\ ~Full(st, kind)
          BY <2>1 DEF Counted, Full
        <4>2. told = h
          BY <2>1 DEF Spent
        <4>. QED BY <2>1, <4>1, <4>2 DEF UsageBy
      <3>. QED BY <1>2, <1>3, <3>1
    <2>2. CASE kind \in Counted /\ st.usage = MaxUsage
      <3>1. told = Error(h) /\ Full(st, kind) /\ UsageBy(st, kind) = st.usage
        BY <1>2, <2>2 DEF Spent, Full, UsageBy
      <3>. QED BY <1>2, <1>3, <3>1, ZenonT(30) DEF Error
    <2>3. CASE kind \in Counted /\ st.usage # MaxUsage
      <3>1. told = [h EXCEPT !.usage = @ + 1, !.whole = @ /\ kind # "helper"]
        BY <1>2, <2>3 DEF Spent
      <3>2. ~Full(st, kind) /\ UsageBy(st, kind) = st.usage + 1
        BY <2>3 DEF Full, UsageBy
      <3>. QED BY <1>2, <1>3, <3>1, <3>2, ZenonT(30)
    <2>. QED BY <2>1, <2>2, <2>3
  <1>5. Record(st, raw) = IF kind \in {"bad", "long"} THEN Error(told) ELSE told
    BY DEF Record, kind, h
  <1>. HIDE DEF told
  <1>6. Record(st, raw) = After(st, kind)
    BY <1>3, <1>4, <1>5 DEF After, Error, Wrong
  <1>. QED BY <1>1, <1>6, AfterIsStream DEF kind

-----------------------------------------------------------------------------
(* Chunks: a text may be fed in parts.                                      *)

Reading == {st \in Streams : Len(st.pending) <= Cap /\ ~st.finished}

(* A stream is what it has of the line, what it says of the outcome, and    *)
(* the account.                                                             *)
Outcomes ==
  [ended : BOOLEAN, awaited : BOOLEAN, stop : {"none", "stop", "toolUse", "error"},
   text : BOOLEAN, failure : {"none", "transport", "capacity"}]

Made(p, d, f, o, g, u, w) ==
  [pending |-> p, discarding |-> d, finished |-> f, ended |-> o.ended,
   awaited |-> o.awaited, stop |-> o.stop, text |-> o.text, failure |-> o.failure,
   diagnostic |-> g, usage |-> u, whole |-> w]

OutcomeOf(st) ==
  [ended |-> st.ended, awaited |-> st.awaited, stop |-> st.stop, text |-> st.text,
   failure |-> st.failure]

LEMMA StreamIs ==
  ASSUME NEW st \in Streams
  PROVE  /\ st.pending \in Seq(Units) /\ st.usage \in 0..MaxUsage
         /\ st.discarding \in BOOLEAN /\ st.finished \in BOOLEAN
         /\ st.diagnostic \in BOOLEAN /\ st.whole \in BOOLEAN /\ OutcomeOf(st) \in Outcomes
         /\ \E p \in Seq(Units), d \in BOOLEAN, f \in BOOLEAN, o \in Outcomes, g \in BOOLEAN,
               u \in 0..MaxUsage, w \in BOOLEAN : st = Made(p, d, f, o, g, u, w)
  <1>1. st = Made(st.pending, st.discarding, st.finished, OutcomeOf(st), st.diagnostic,
                  st.usage, st.whole)
    BY DEF Streams, Made, OutcomeOf
  <1>2. OutcomeOf(st) \in Outcomes
    BY DEF Streams, OutcomeOf, Outcomes
  <1>3. /\ st.pending \in Seq(Units) /\ st.usage \in 0..MaxUsage
        /\ st.discarding \in BOOLEAN /\ st.finished \in BOOLEAN
        /\ st.diagnostic \in BOOLEAN /\ st.whole \in BOOLEAN
    BY DEF Streams
  <1>. QED BY <1>1, <1>2, <1>3, Zenon

LEMMA MadeIsStream ==
  ASSUME NEW p \in Seq(Units), NEW d \in BOOLEAN, NEW f \in BOOLEAN, NEW o \in Outcomes,
         NEW g \in BOOLEAN, NEW u \in 0..MaxUsage, NEW w \in BOOLEAN
  PROVE  Made(p, d, f, o, g, u, w) \in Streams
  BY DEF Made, Streams, Outcomes

LEMMA MadeHas ==
  \A p, d, f, o, g, u, w :
    LET st == Made(p, d, f, o, g, u, w)
    IN /\ st.pending = p /\ st.discarding = d /\ st.finished = f
       /\ st.ended = o.ended /\ st.awaited = o.awaited /\ st.stop = o.stop
       /\ st.text = o.text /\ st.failure = o.failure
       /\ st.diagnostic = g /\ st.usage = u /\ st.whole = w
  BY DEF Made

LEMMA MadeExcept ==
  \A p, d, f, o, g, u, w, x :
    LET st == Made(p, d, f, o, g, u, w)
    IN /\ [st EXCEPT !.pending = x]    = Made(x, d, f, o, g, u, w)
       /\ [st EXCEPT !.discarding = x] = Made(p, x, f, o, g, u, w)
       /\ [st EXCEPT !.finished = x]   = Made(p, d, x, o, g, u, w)
       /\ [st EXCEPT !.diagnostic = x] = Made(p, d, f, o, x, u, w)
       /\ [st EXCEPT !.whole = x]      = Made(p, d, f, o, g, u, x)
  BY DEF Made

LEMMA TwoExcepts ==
  ASSUME NEW r, NEW s, NEW x, NEW y
  PROVE  /\ [r EXCEPT !.diagnostic = x] = s =>
              [r EXCEPT !.diagnostic = x, !.whole = y] = [s EXCEPT !.whole = y]
         /\ [r EXCEPT !.pending = x] = s =>
              [r EXCEPT !.pending = x, !.discarding = y] = [s EXCEPT !.discarding = y]
         /\ [r EXCEPT !.finished = x] = s =>
              [r EXCEPT !.finished = x, !.pending = y] = [s EXCEPT !.pending = y]
  BY Zenon

Yes == TRUE
No  == FALSE
Nothing == <<>>

Marked(st, x, y)  == [st EXCEPT !.diagnostic = x, !.whole = y]
Dropped(st, x, y) == [st EXCEPT !.pending = x, !.discarding = y]
Closed(st, x, y)  == [st EXCEPT !.finished = x, !.pending = y]

LEMMA MadeMarked ==
  ASSUME NEW p, NEW d, NEW f, NEW o, NEW g, NEW u, NEW w, NEW x, NEW y
  PROVE  Marked(Made(p, d, f, o, g, u, w), x, y) = Made(p, d, f, o, x, u, y)
  <1>. DEFINE st == Made(p, d, f, o, g, u, w)
              a  == Made(p, d, f, o, x, u, w)
  <1>1. [st EXCEPT !.diagnostic = x] = a
    BY DEF Made
  <1>2. [a EXCEPT !.whole = y] = Made(p, d, f, o, x, u, y)
    BY DEF Made
  <1>. HIDE DEF st, a
  <1>3. Marked(st, x, y) = [a EXCEPT !.whole = y]
    BY <1>1, TwoExcepts, Zenon DEF Marked
  <1>. QED BY <1>2, <1>3, Zenon DEF st

LEMMA MadeDropped ==
  ASSUME NEW p, NEW d, NEW f, NEW o, NEW g, NEW u, NEW w, NEW x, NEW y
  PROVE  Dropped(Made(p, d, f, o, g, u, w), x, y) = Made(x, y, f, o, g, u, w)
  <1>. DEFINE st == Made(p, d, f, o, g, u, w)
              a  == Made(x, d, f, o, g, u, w)
  <1>1. [st EXCEPT !.pending = x] = a
    BY DEF Made
  <1>2. [a EXCEPT !.discarding = y] = Made(x, y, f, o, g, u, w)
    BY DEF Made
  <1>. HIDE DEF st, a
  <1>3. Dropped(st, x, y) = [a EXCEPT !.discarding = y]
    BY <1>1, TwoExcepts, Zenon DEF Dropped
  <1>. QED BY <1>2, <1>3, Zenon DEF st

LEMMA MadeClosed ==
  ASSUME NEW p, NEW d, NEW f, NEW o, NEW g, NEW u, NEW w, NEW x, NEW y
  PROVE  Closed(Made(p, d, f, o, g, u, w), x, y) = Made(y, d, x, o, g, u, w)
  <1>. DEFINE st == Made(p, d, f, o, g, u, w)
              a  == Made(p, d, x, o, g, u, w)
  <1>1. [st EXCEPT !.finished = x] = a
    BY DEF Made
  <1>2. [a EXCEPT !.pending = y] = Made(y, d, x, o, g, u, w)
    BY DEF Made
  <1>. HIDE DEF st, a
  <1>3. Closed(st, x, y) = [a EXCEPT !.pending = y]
    BY <1>1, TwoExcepts, Zenon DEF Closed
  <1>. QED BY <1>2, <1>3, Zenon DEF st

LEMMA ErrorIs ==
  ASSUME NEW p, NEW d, NEW f, NEW o, NEW g, NEW u, NEW w
  PROVE  Error(Made(p, d, f, o, g, u, w)) = Made(p, d, f, o, Yes, u, No)
  <1>1. Marked(Made(p, d, f, o, g, u, w), Yes, No) = Made(p, d, f, o, Yes, u, No)
    BY MadeMarked
  <1>2. \A st : Error(st) = Marked(st, Yes, No)
    BY DEF Error, Marked, Yes, No
  <1>. QED BY <1>1, <1>2

LEMMA ErrorIsStream ==
  ASSUME NEW st \in Streams
  PROVE  Error(st) \in Streams
  <1>1. PICK p \in Seq(Units), d \in BOOLEAN, f \in BOOLEAN, o \in Outcomes, g \in BOOLEAN,
             u \in 0..MaxUsage, w \in BOOLEAN : st = Made(p, d, f, o, g, u, w)
    BY StreamIs
  <1>2. Error(st) = Made(p, d, f, o, Yes, u, No)
    BY <1>1, ErrorIs
  <1>3. Yes \in BOOLEAN /\ No \in BOOLEAN
    BY DEF Yes, No
  <1>. QED BY <1>2, <1>3, MadeIsStream

LEMMA GatherMade ==
  ASSUME NEW p, NEW d, NEW f, NEW o, NEW g, NEW u, NEW w, NEW text
  PROVE  /\ d = Yes =>
              Gather(Made(p, d, f, o, g, u, w), text) = Made(p, d, f, o, g, u, w)
         /\ d = No /\ Len(p) + Len(text) > Cap =>
              Gather(Made(p, d, f, o, g, u, w), text) = Made(Nothing, Yes, f, o, Yes, u, No)
         /\ d = No /\ ~ (Len(p) + Len(text) > Cap) =>
              Gather(Made(p, d, f, o, g, u, w), text) = Made(p \o text, d, f, o, g, u, w)
  <1>. DEFINE st == Made(p, d, f, o, g, u, w)
  <1>1. st.discarding = d /\ st.pending = p
    BY MadeHas
  <1>2. Error(st) = Made(p, d, f, o, Yes, u, No)
    BY ErrorIs
  <1>3. Dropped(Made(p, d, f, o, Yes, u, No), Nothing, Yes) = Made(Nothing, Yes, f, o, Yes, u, No)
    BY MadeDropped
  <1>4. [st EXCEPT !.pending = p \o text] = Made(p \o text, d, f, o, g, u, w)
    <2>1. \A x : [st EXCEPT !.pending = x] = Made(x, d, f, o, g, u, w)
      BY DEF Made
    <2>. QED BY <2>1, Zenon
  <1>. HIDE DEF st
  <1>5. CASE d = Yes
    <2>1. Gather(st, text) = st
      BY <1>1, <1>5 DEF Gather, Yes
    <2>. QED BY <1>5, <2>1 DEF st, Yes, No
  <1>6. CASE d = No /\ Len(p) + Len(text) > Cap
    <2>1. Overflows(st, text)
      BY <1>1, <1>6 DEF Overflows
    <2>2. Gather(st, text) = Dropped(Error(st), Nothing, Yes)
      BY <1>1, <1>6, <2>1, Zenon DEF Gather, Dropped, Yes, No, Nothing
    <2>3. Gather(st, text) = Made(Nothing, Yes, f, o, Yes, u, No)
      BY <1>2, <1>3, <2>2
    <2>. QED BY <1>6, <2>3 DEF st, Yes, No
  <1>7. CASE d = No /\ ~ (Len(p) + Len(text) > Cap)
    <2>1. ~Overflows(st, text)
      BY <1>1, <1>7 DEF Overflows
    <2>2. Gather(st, text) = [st EXCEPT !.pending = st.pending \o text]
      BY <1>1, <1>7, <2>1, Zenon DEF Gather, No
    <2>3. Gather(st, text) = Made(p \o text, d, f, o, g, u, w)
      BY <1>1, <1>4, <2>2
    <2>. QED BY <1>7, <2>3 DEF st, Yes, No
  <1>. QED BY <1>5, <1>6, <1>7

LEMMA ConcatOfMore ==
  ASSUME NEW A, NEW s \in Seq(A), NEW r \in Seq(A), NEW x \in A
  PROVE  /\ Len(Append(r, x)) = Len(r) + 1 /\ Len(<<x>>) = 1 /\ Len(r) \in Nat /\ Len(s) \in Nat
         /\ Len(s \o r) = Len(s) + Len(r) /\ s \o r \in Seq(A) /\ Append(r, x) \in Seq(A)
         /\ (s \o r) \o <<x>> = s \o Append(r, x)
         /\ Append(s \o r, x) = s \o Append(r, x)
  <1>1. /\ Len(Append(r, x)) = Len(r) + 1 /\ Len(<<x>>) = 1 /\ Len(r) \in Nat /\ Len(s) \in Nat
        /\ Len(s \o r) = Len(s) + Len(r) /\ s \o r \in Seq(A) /\ Append(r, x) \in Seq(A)
    OBVIOUS
  <1>2. (s \o r) \o <<x>> = s \o Append(r, x)
    OBVIOUS
  <1>3. Append(s \o r, x) = s \o Append(r, x)
    OBVIOUS
  <1>. QED BY <1>1, <1>2, <1>3

(* A stream that is fed and has not finished.                               *)
LEMMA ReadingIs ==
  ASSUME NEW st \in Reading
  PROVE  \E p \in Seq(Units), d \in BOOLEAN, o \in Outcomes, g \in BOOLEAN,
            u \in 0..MaxUsage, w \in BOOLEAN :
           Len(p) <= Cap /\ st = Made(p, d, No, o, g, u, w)
  <1>1. st \in Streams /\ Len(st.pending) <= Cap /\ st.finished = No
    BY StreamIs DEF Reading, No
  <1>2. PICK p \in Seq(Units), d \in BOOLEAN, f \in BOOLEAN, o \in Outcomes, g \in BOOLEAN,
             u \in 0..MaxUsage, w \in BOOLEAN : st = Made(p, d, f, o, g, u, w)
    BY <1>1, StreamIs
  <1>3. st.pending = p /\ st.finished = f
    BY <1>2, MadeHas
  <1>. QED BY <1>1, <1>2, <1>3

LEMMA MadeIsReading ==
  ASSUME NEW p \in Seq(Units), NEW d \in BOOLEAN, NEW o \in Outcomes, NEW g \in BOOLEAN,
         NEW u \in 0..MaxUsage, NEW w \in BOOLEAN, Len(p) <= Cap
  PROVE  Made(p, d, No, o, g, u, w) \in Reading
  <1>1. No \in BOOLEAN
    BY DEF No
  <1>2. Made(p, d, No, o, g, u, w) \in Streams
    BY <1>1, MadeIsStream
  <1>3. /\ Made(p, d, No, o, g, u, w).pending = p
        /\ Made(p, d, No, o, g, u, w).finished = No
    BY MadeHas
  <1>. QED BY <1>2, <1>3 DEF Reading, No

LEMMA GatherKeeps ==
  ASSUME NEW st \in Reading, NEW text \in Seq(Units)
  PROVE  Gather(st, text) \in Reading /\ (Len(text) > Cap => Gather(st, text).discarding = Yes)
  <1>1. PICK p \in Seq(Units), d \in BOOLEAN, o \in Outcomes, g \in BOOLEAN,
             u \in 0..MaxUsage, w \in BOOLEAN :
               Len(p) <= Cap /\ st = Made(p, d, No, o, g, u, w)
    BY ReadingIs
  <1>. Yes \in BOOLEAN /\ No \in BOOLEAN /\ (d = Yes \/ d = No)
    BY DEF Yes, No
  <1>2. CASE d = Yes
    <2>1. Gather(st, text) = st /\ st.discarding = Yes
      BY <1>1, <1>2, GatherMade, MadeHas
    <2>. QED BY <2>1
  <1>3. CASE d = No /\ Len(p) + Len(text) > Cap
    <2>1. Gather(st, text) = Made(Nothing, Yes, No, o, Yes, u, No)
      BY <1>1, <1>3, GatherMade
    <2>2. Nothing \in Seq(Units) /\ Len(Nothing) <= Cap
      BY StreamAssumption DEF Nothing
    <2>3. Gather(st, text).discarding = Yes
      BY <2>1, MadeHas
    <2>4. Made(Nothing, Yes, No, o, Yes, u, No) \in Reading
      BY <2>2, MadeIsReading
    <2>. QED BY <2>1, <2>3, <2>4
  <1>4. CASE d = No /\ ~ (Len(p) + Len(text) > Cap)
    <2>1. Gather(st, text) = Made(p \o text, d, No, o, g, u, w)
      BY <1>1, <1>4, GatherMade
    <2>2. /\ p \o text \in Seq(Units) /\ Len(p \o text) = Len(p) + Len(text)
          /\ Len(p) \in Nat /\ Len(text) \in Nat
      OBVIOUS
    <2>3. Len(p \o text) <= Cap /\ ~ (Len(text) > Cap)
      BY <1>4, <2>2, StreamAssumption
    <2>4. Made(p \o text, d, No, o, g, u, w) \in Reading
      BY <2>2, <2>3, MadeIsReading
    <2>. QED BY <2>1, <2>3, <2>4
  <1>. QED BY <1>2, <1>3, <1>4

LEMMA GatherNone ==
  ASSUME NEW st \in Reading
  PROVE  Gather(st, <<>>) = st
  <1>1. PICK p \in Seq(Units), d \in BOOLEAN, o \in Outcomes, g \in BOOLEAN,
             u \in 0..MaxUsage, w \in BOOLEAN :
               Len(p) <= Cap /\ st = Made(p, d, No, o, g, u, w)
    BY ReadingIs
  <1>2. p \o <<>> = p /\ ~ (Len(p) + Len(<<>>) > Cap)
    <2>1. p \o <<>> = p /\ Len(<<>>) = 0 /\ Len(p) \in Nat
      OBVIOUS
    <2>2. Len(p) <= Cap
      BY <1>1
    <2>. QED BY <2>1, <2>2, StreamAssumption
  <1>3. ASSUME NEW none, p \o none = p, ~ (Len(p) + Len(none) > Cap)
        PROVE  Gather(st, none) = st
    <2>1. CASE d = Yes
      <3>1. st.discarding = d
        BY <1>1, MadeHas
      <3>. QED BY <2>1, <3>1 DEF Gather, Yes
    <2>2. CASE d = No
      <3>1. d = No /\ ~ (Len(p) + Len(none) > Cap)
        BY <1>3, <2>2
      <3>2. Gather(st, none) = Made(p \o none, d, No, o, g, u, w)
        BY <1>1, <3>1, GatherMade
      <3>. QED BY <1>1, <1>3, <3>2, Zenon
    <2>3. d = Yes \/ d = No
      BY DEF Yes, No
    <2>. QED BY <2>1, <2>2, <2>3
  <1>. QED BY <1>2, <1>3, Zenon

LEMMA GatherMore ==
  ASSUME NEW st \in Reading, NEW text \in Seq(Units), NEW x \in Units
  PROVE  Gather(Gather(st, text), <<x>>) = Gather(st, Append(text, x))
  <1>. DEFINE more == Append(text, x)
              one  == <<x>>
  <1>1. PICK p \in Seq(Units), d \in BOOLEAN, o \in Outcomes, g \in BOOLEAN,
             u \in 0..MaxUsage, w \in BOOLEAN :
               Len(p) <= Cap /\ st = Made(p, d, No, o, g, u, w)
    BY ReadingIs
  <1>. DEFINE both == p \o text
  <1>2. /\ Len(more) = Len(text) + 1 /\ Len(one) = 1 /\ Len(text) \in Nat /\ Len(p) \in Nat
        /\ Len(both) = Len(p) + Len(text) /\ both \o one = p \o more
    BY ConcatOfMore, SMTT(30)
  <1>3. d = Yes \/ d = No
    BY DEF Yes, No
  <1>. HIDE DEF more, one, both
  <1>4. Gather(Gather(st, text), one) = Gather(st, more)
    <2>1. CASE d = Yes
      BY <1>1, <2>1, GatherMade
    <2>2. CASE d = No /\ Len(p) + Len(text) > Cap
      <3>1. Gather(st, text) = Made(Nothing, Yes, No, o, Yes, u, No)
        BY <1>1, <2>2, GatherMade
      <3>2. Len(p) + Len(more) > Cap
        BY <1>2, <2>2, StreamAssumption
      <3>3. Gather(st, more) = Made(Nothing, Yes, No, o, Yes, u, No)
        BY <1>1, <2>2, <3>2, GatherMade
      <3>4. Gather(Made(Nothing, Yes, No, o, Yes, u, No), one) = Made(Nothing, Yes, No, o, Yes, u, No)
        BY GatherMade
      <3>. QED BY <3>1, <3>3, <3>4
    <2>3. CASE d = No /\ ~ (Len(p) + Len(text) > Cap)
      <3>1. Gather(st, text) = Made(both, d, No, o, g, u, w)
        BY <1>1, <2>3, GatherMade DEF both
      <3>2. Len(both) + Len(one) = Len(p) + Len(more)
        BY <1>2
      <3>3. CASE Len(p) + Len(more) > Cap
        <4>1. Gather(st, more) = Made(Nothing, Yes, No, o, Yes, u, No)
          BY <1>1, <2>3, <3>3, GatherMade
        <4>2. Gather(Made(both, d, No, o, g, u, w), one) = Made(Nothing, Yes, No, o, Yes, u, No)
          BY <2>3, <3>2, <3>3, GatherMade
        <4>. QED BY <3>1, <4>1, <4>2
      <3>4. CASE ~ (Len(p) + Len(more) > Cap)
        <4>1. Gather(st, more) = Made(p \o more, d, No, o, g, u, w)
          BY <1>1, <2>3, <3>4, GatherMade
        <4>2. Gather(Made(both, d, No, o, g, u, w), one) = Made(both \o one, d, No, o, g, u, w)
          BY <2>3, <3>2, <3>4, GatherMade
        <4>. QED BY <1>2, <3>1, <4>1, <4>2
      <3>. QED BY <3>3, <3>4
    <2>. QED BY <1>3, <2>1, <2>2, <2>3
  <1>. QED BY <1>4 DEF more, one

(* What a record says does not depend on the line that is pending.          *)
RecordsAs(o, g, u, w, raw, o2, g2, u2, w2) ==
  \A p \in Seq(Units), d \in BOOLEAN, f \in BOOLEAN :
    Record(Made(p, d, f, o, g, u, w), raw) = Made(p, d, f, o2, g2, u2, w2)

LEMMA RecordMade ==
  ASSUME NEW o \in Outcomes, NEW g \in BOOLEAN, NEW u \in 0..MaxUsage, NEW w \in BOOLEAN, NEW raw
  PROVE  \E o2 \in Outcomes, g2 \in BOOLEAN, u2 \in 0..MaxUsage, w2 \in BOOLEAN :
           RecordsAs(o, g, u, w, raw, o2, g2, u2, w2)
  <1>. DEFINE kind == Decoded(raw)
              z == Made(Nothing, No, No, o, g, u, w)
              a == After(z, kind)
  <1>1. Nothing \in Seq(Units) /\ No \in BOOLEAN /\ kind \in Kinds
    BY DecodedIsKind DEF No, Nothing
  <1>. HIDE DEF kind
  <1>2. z \in Streams
    BY <1>1, MadeIsStream
  <1>3. a \in Streams
    BY <1>1, <1>2, AfterIsStream
  <1>. HIDE DEF z, a
  <1>4. /\ OutcomeOf(a) \in Outcomes /\ a.diagnostic \in BOOLEAN /\ a.usage \in 0..MaxUsage
        /\ a.whole \in BOOLEAN
    BY <1>3, StreamIs
  <1>5. ASSUME NEW p \in Seq(Units), NEW d \in BOOLEAN, NEW f \in BOOLEAN
        PROVE  Record(Made(p, d, f, o, g, u, w), raw)
                 = Made(p, d, f, OutcomeOf(a), a.diagnostic, a.usage, a.whole)
    <2>. DEFINE st == Made(p, d, f, o, g, u, w)
    <2>1. Record(st, raw) = After(st, kind)
      BY MadeIsStream, RecordIs DEF kind
    <2>2. /\ st.ended = z.ended /\ st.awaited = z.awaited /\ st.stop = z.stop
          /\ st.text = z.text /\ st.failure = z.failure
          /\ st.diagnostic = z.diagnostic /\ st.usage = z.usage /\ st.whole = z.whole
          /\ st.pending = p /\ st.discarding = d /\ st.finished = f
      BY DEF Made, z
    <2>. HIDE DEF st
    <2>3. /\ EndedBy(st, kind) = EndedBy(z, kind) /\ AwaitedBy(st, kind) = AwaitedBy(z, kind)
          /\ TextBy(st, kind) = TextBy(z, kind)
      BY <2>2 DEF EndedBy, AwaitedBy, TextBy
    <2>4. StopBy(st, kind) = StopBy(z, kind) /\ FailureBy(st, kind) = FailureBy(z, kind)
      BY <2>2 DEF StopBy, FailureBy
    <2>5. UsageBy(st, kind) = UsageBy(z, kind) /\ (Wrong(st, kind) <=> Wrong(z, kind))
      BY <2>2 DEF UsageBy, Full, Wrong
    <2>6. (st.diagnostic \/ Wrong(st, kind)) = (z.diagnostic \/ Wrong(z, kind))
      BY <2>2, <2>5
    <2>7. (st.whole /\ ~Wrong(st, kind) /\ kind # "helper")
            = (z.whole /\ ~Wrong(z, kind) /\ kind # "helper")
      BY <2>2, <2>5
    <2>8. /\ OutcomeOf(a).ended = EndedBy(z, kind) /\ OutcomeOf(a).awaited = AwaitedBy(z, kind)
          /\ OutcomeOf(a).stop = StopBy(z, kind) /\ OutcomeOf(a).text = TextBy(z, kind)
          /\ OutcomeOf(a).failure = FailureBy(z, kind) /\ a.usage = UsageBy(z, kind)
      BY DEF a, After, OutcomeOf
    <2>9. /\ a.diagnostic = (z.diagnostic \/ Wrong(z, kind))
          /\ a.whole = (z.whole /\ ~Wrong(z, kind) /\ kind # "helper")
      BY DEF a, After
    <2>10. After(st, kind)
             = [pending |-> p, discarding |-> d, finished |-> f,
                ended |-> OutcomeOf(a).ended, awaited |-> OutcomeOf(a).awaited,
                stop |-> OutcomeOf(a).stop, text |-> OutcomeOf(a).text,
                failure |-> OutcomeOf(a).failure, diagnostic |-> a.diagnostic,
                usage |-> a.usage, whole |-> a.whole]
      BY <2>2, <2>3, <2>4, <2>5, <2>6, <2>7, <2>8, <2>9, Zenon DEF After
    <2>. QED BY <2>1, <2>10, Zenon DEF Made, st
  <1>. DEFINE o3 == OutcomeOf(a)
              g3 == a.diagnostic
              u3 == a.usage
              w3 == a.whole
  <1>6. /\ o3 \in Outcomes /\ g3 \in BOOLEAN /\ u3 \in 0..MaxUsage /\ w3 \in BOOLEAN
        /\ RecordsAs(o, g, u, w, raw, o3, g3, u3, w3)
    BY <1>4, <1>5 DEF RecordsAs
  <1>. HIDE DEF o3, g3, u3, w3
  <1>. QED BY <1>6, Zenon

(* The end of a line.                                                       *)
ReadOut(got) == Dropped(IF got.discarding THEN got ELSE Record(got, got.pending), Nothing, No)

LEMMA PieceIs ==
  ASSUME NEW st, NEW piece, piece.ended \in BOOLEAN
  PROVE  /\ piece.ended  => Piece(st, piece) = ReadOut(Gather(st, piece.text))
         /\ ~piece.ended => Piece(st, piece) = Gather(st, piece.text)
  BY Zenon DEF Piece, ReadOut, Dropped, No, Nothing

LEMMA ReadOutIs ==
  ASSUME NEW got \in Reading
  PROVE  /\ ReadOut(got) \in Reading /\ ReadOut(got).pending = Nothing
         /\ ReadOut(got).discarding = No
  <1>1. PICK p \in Seq(Units), d \in BOOLEAN, o \in Outcomes, g \in BOOLEAN,
             u \in 0..MaxUsage, w \in BOOLEAN :
               Len(p) <= Cap /\ got = Made(p, d, No, o, g, u, w)
    BY ReadingIs
  <1>2. got.discarding = d /\ (d = Yes \/ d = No) /\ No \in BOOLEAN
    <2>1. got.discarding = d
      BY <1>1, MadeHas
    <2>2. (d = Yes \/ d = No) /\ No \in BOOLEAN
      BY DEF Yes, No
    <2>. QED BY <2>1, <2>2
  <1>3. \E o2 \in Outcomes, g2 \in BOOLEAN, u2 \in 0..MaxUsage, w2 \in BOOLEAN :
          (IF got.discarding THEN got ELSE Record(got, got.pending))
            = Made(p, d, No, o2, g2, u2, w2)
    <2>1. CASE d = Yes
      BY <1>1, <1>2, <2>1 DEF Yes
    <2>2. CASE d = No
      <3>1. \E o2 \in Outcomes, g2 \in BOOLEAN, u2 \in 0..MaxUsage, w2 \in BOOLEAN :
              Record(got, got.pending) = Made(p, d, No, o2, g2, u2, w2)
        <4>1. PICK o2 \in Outcomes, g2 \in BOOLEAN, u2 \in 0..MaxUsage, w2 \in BOOLEAN :
                RecordsAs(o, g, u, w, p, o2, g2, u2, w2)
          BY RecordMade
        <4>2. Record(Made(p, d, No, o, g, u, w), p) = Made(p, d, No, o2, g2, u2, w2)
          BY <1>2, <4>1 DEF RecordsAs
        <4>3. got.pending = p
          BY <1>1, MadeHas
        <4>. QED BY <1>1, <4>2, <4>3, Zenon
      <3>. QED BY <1>2, <2>2, <3>1 DEF No
    <2>. QED BY <1>2, <2>1, <2>2
  <1>4. PICK o2 \in Outcomes, g2 \in BOOLEAN, u2 \in 0..MaxUsage, w2 \in BOOLEAN :
          (IF got.discarding THEN got ELSE Record(got, got.pending))
            = Made(p, d, No, o2, g2, u2, w2)
    BY <1>3
  <1>5. ReadOut(got) = Made(Nothing, No, No, o2, g2, u2, w2)
    <2>1. ReadOut(got) = Dropped(Made(p, d, No, o2, g2, u2, w2), Nothing, No)
      BY <1>4, Zenon DEF ReadOut
    <2>. QED BY <2>1, MadeDropped
  <1>6. Nothing \in Seq(Units) /\ Len(Nothing) <= Cap
    BY StreamAssumption DEF Nothing
  <1>7. Made(Nothing, No, No, o2, g2, u2, w2) \in Reading
    BY <1>2, <1>6, MadeIsReading
  <1>8. /\ Made(Nothing, No, No, o2, g2, u2, w2).pending = Nothing
        /\ Made(Nothing, No, No, o2, g2, u2, w2).discarding = No
    BY MadeHas
  <1>. QED BY <1>5, <1>7, <1>8

(* The folds as operators.                                                  *)
ReadAll(st, ps) == FoldLeft(Piece, st, ps)
TellAll(st, ps) == FoldLeft(Told, st, ps)

LEMMA AllOfNone ==
  ASSUME NEW st
  PROVE  ReadAll(st, <<>>) = st /\ TellAll(st, <<>>) = st
  BY FoldsOfNone DEF ReadAll, TellAll

LEMMA AllOfMore ==
  ASSUME NEW st, NEW A, NEW ps \in Seq(A), NEW piece \in A
  PROVE  /\ ReadAll(st, Append(ps, piece)) = Piece(ReadAll(st, ps), piece)
         /\ TellAll(st, Append(ps, piece)) = Told(TellAll(st, ps), piece)
  <1>1. /\ Reads!SeqFold(st, Append(ps, piece)) = PieceOf(piece, Reads!SeqFold(st, ps))
        /\ Tells!SeqFold(st, Append(ps, piece)) = ToldOf(piece, Tells!SeqFold(st, ps))
    BY LastIsFirst, Reads!SeqFoldOfAppend, Tells!SeqFoldOfAppend
  <1>2. \A s : ReadAll(st, s) = Reads!SeqFold(st, s) /\ TellAll(st, s) = Tells!SeqFold(st, s)
    BY FoldsAreFolds DEF ReadAll, TellAll
  <1>. QED BY <1>1, <1>2 DEF PieceOf, ToldOf

LEMMA PieceKeeps ==
  ASSUME NEW st \in Reading, NEW piece \in Part
  PROVE  Piece(st, piece) \in Reading
  <1>1. piece.text \in Seq(Units) /\ piece.ended \in BOOLEAN
    BY DEF Part
  <1>2. Gather(st, piece.text) \in Reading
    BY <1>1, GatherKeeps
  <1>3. ReadOut(Gather(st, piece.text)) \in Reading
    BY <1>2, ReadOutIs
  <1>. QED BY <1>1, <1>2, <1>3, PieceIs

LEMMA ReadAllKeeps ==
  ASSUME NEW st \in Reading, NEW ps \in Seq(Part)
  PROVE  ReadAll(st, ps) \in Reading
  <1>. DEFINE G == {s \in Seq(Part) : ReadAll(st, s) \in Reading}
  <1>1. <<>> \in G
    BY AllOfNone
  <1>2. ASSUME NEW s \in Seq(Part), NEW x \in Part, s \in G PROVE Append(s, x) \in G
    <2>1. ReadAll(st, s) \in Reading
      BY <1>2
    <2>2. ReadAll(st, Append(s, x)) = Piece(ReadAll(st, s), x)
      BY AllOfMore
    <2>3. Piece(ReadAll(st, s), x) \in Reading
      BY <2>1, PieceKeeps
    <2>. QED BY <2>2, <2>3
  <1>. HIDE DEF G
  <1>3. ps \in G
    BY <1>1, <1>2, ByPrefixes
  <1>. QED BY <1>3 DEF G

(* A stream that is fed with a text.                                        *)
Feeds(st, text) == ReadAll(st, Pieces(text))

LEMMA FeedsIs ==
  ASSUME NEW st \in Reading, NEW text \in Seq(Units)
  PROVE  /\ ReadAll(st, Ended(Pieces(text))) \in Reading
         /\ Rest(Pieces(text)) \in Seq(Units)
         /\ Feeds(st, text) = Gather(ReadAll(st, Ended(Pieces(text))), Rest(Pieces(text)))
  <1>. DEFINE ps == Pieces(text)
  <1>1. Shaped(ps)
    BY PiecesAreShaped
  <1>. HIDE DEF ps
  <1>2. /\ Ended(ps) \in Seq(Part) /\ Ended(ps) \in Seq(Line) /\ Rest(ps) \in Seq(Units)
    <2>1. Line \subseteq Part
      BY DEF Line, Part
    <2>2. Ended(ps) \in Seq(Line) /\ Rest(ps) \in Seq(Units)
      BY <1>1 DEF Shaped
    <2>. QED BY <2>1, <2>2, SeqOfMore
  <1>. DEFINE x == ReadAll(st, Ended(ps))
  <1>3. x \in Reading
    BY <1>2, ReadAllKeeps
  <1>4. CASE ~Unended(ps)
    <2>1. ps = Ended(ps) /\ Rest(ps) = <<>>
      BY <1>1, <1>4 DEF Shaped
    <2>2. Gather(x, <<>>) = x
      BY <1>3, GatherNone
    <2>3. Gather(x, Rest(ps)) = ReadAll(st, ps)
      BY <2>1, <2>2, Zenon
    <2>. QED BY <1>2, <1>3, <2>3, Zenon DEF Feeds, ps
  <1>5. CASE Unended(ps)
    <2>. DEFINE last == [text |-> Rest(ps), ended |-> FALSE]
    <2>1. ps = Append(Ended(ps), last)
      BY <1>1, <1>5 DEF Shaped
    <2>2. last \in Part /\ last.text = Rest(ps) /\ ~last.ended /\ last.ended \in BOOLEAN
      BY <1>2 DEF Part
    <2>. HIDE DEF last
    <2>3. ReadAll(st, Append(Ended(ps), last)) = Piece(x, last)
      BY <1>2, <2>2, AllOfMore
    <2>4. Piece(x, last) = Gather(x, last.text)
      BY <2>2, PieceIs
    <2>5. ReadAll(st, ps) = Gather(x, Rest(ps))
      BY <2>1, <2>2, <2>3, <2>4, Zenon
    <2>. QED BY <1>2, <1>3, <2>5, Zenon DEF Feeds, ps
  <1>. QED BY <1>4, <1>5

LEMMA FeedsKeeps ==
  ASSUME NEW st \in Reading, NEW text \in Seq(Units)
  PROVE  Feeds(st, text) \in Reading
  BY FeedsIs, GatherKeeps

(* The units come one by one.                                               *)
ByUnit(st, u) == IF u = Newline THEN ReadOut(st) ELSE Gather(st, <<u>>)

LEMMA FeedsOfMore ==
  ASSUME NEW st \in Reading, NEW text \in Seq(Units), NEW u \in Units
  PROVE  Feeds(st, Append(text, u)) = ByUnit(Feeds(st, text), u)
  <1>. DEFINE ps == Pieces(text)
              qs == Split(ps, u)
              x  == ReadAll(st, Ended(ps))
  <1>1. Shaped(ps)
    BY PiecesAreShaped
  <1>2. Append(text, u) \in Seq(Units) /\ Pieces(Append(text, u)) = qs
    BY PiecesOfMore
  <1>3. x \in Reading /\ Rest(ps) \in Seq(Units) /\ Feeds(st, text) = Gather(x, Rest(ps))
    BY FeedsIs
  <1>4. Feeds(st, Append(text, u)) = Gather(ReadAll(st, Ended(qs)), Rest(qs))
    BY <1>2, FeedsIs
  <1>5. Ended(ps) \in Seq(Line)
    BY <1>1 DEF Shaped
  <1>. HIDE DEF ps
  <1>6. CASE u = Newline
    <2>. DEFINE last == [text |-> Rest(ps), ended |-> TRUE]
    <2>1. Ended(qs) = Append(Ended(ps), last) /\ Rest(qs) = <<>>
      BY <1>1, <1>6, SplitIsShaped
    <2>2. last \in Line /\ last \in Part /\ last.text = Rest(ps) /\ last.ended
          /\ last.ended \in BOOLEAN
      BY <1>3 DEF Line, Part
    <2>. HIDE DEF last, qs, x
    <2>3. ReadAll(st, Append(Ended(ps), last)) = Piece(x, last)
      BY <1>5, <2>2, AllOfMore DEF x
    <2>4. Piece(x, last) = ReadOut(Gather(x, Rest(ps)))
      <3>1. Piece(x, last) = ReadOut(Gather(x, last.text))
        BY <2>2, Zenon DEF Piece, ReadOut, Dropped, No, Nothing
      <3>. QED BY <2>2, <3>1, Zenon
    <2>5. Piece(x, last) \in Reading
      BY <1>3, <2>2, PieceKeeps
    <2>6. Gather(Piece(x, last), <<>>) = Piece(x, last)
      BY <2>5, GatherNone
    <2>. QED BY <1>3, <1>4, <1>6, <2>1, <2>3, <2>4, <2>6, Zenon DEF ByUnit
  <1>7. CASE u # Newline
    <2>1. Ended(qs) = Ended(ps) /\ Rest(qs) = Append(Rest(ps), u)
      BY <1>1, <1>7, SplitIsShaped
    <2>. HIDE DEF qs
    <2>2. Feeds(st, Append(text, u)) = Gather(x, Append(Rest(ps), u))
      BY <1>4, <2>1, Zenon
    <2>. HIDE DEF x
    <2>3. Gather(Gather(x, Rest(ps)), <<u>>) = Gather(x, Append(Rest(ps), u))
      BY <1>3, GatherMore
    <2>. QED BY <1>3, <1>7, <2>2, <2>3, Zenon DEF ByUnit
  <1>. QED BY <1>6, <1>7

LEMMA FeedsOfConcat ==
  ASSUME NEW st \in Reading, NEW a \in Seq(Units), NEW b \in Seq(Units)
  PROVE  Feeds(st, a \o b) = Feeds(Feeds(st, a), b)
  <1>. DEFINE x == Feeds(st, a)
              G == {t \in Seq(Units) : Feeds(st, a \o t) = Feeds(x, t)}
  <1>1. x \in Reading
    BY FeedsKeeps
  <1>. HIDE DEF x
  <1>2. <<>> \in G
    <2>1. Pieces(<<>>) = <<>> /\ a \o <<>> = a /\ <<>> \in Seq(Units)
      BY PiecesOfNone
    <2>2. Feeds(x, <<>>) = x
      BY <2>1, AllOfNone, Zenon DEF Feeds
    <2>3. Feeds(st, a \o <<>>) = Feeds(x, <<>>)
      BY <2>1, <2>2, Zenon DEF x
    <2>. QED BY <2>1, <2>3
  <1>3. ASSUME NEW t \in Seq(Units), NEW u \in Units, t \in G PROVE Append(t, u) \in G
    <2>1. Feeds(st, a \o t) = Feeds(x, t)
      BY <1>3
    <2>2. a \o Append(t, u) = Append(a \o t, u) /\ a \o t \in Seq(Units)
          /\ Append(t, u) \in Seq(Units)
      BY ConcatOfMore
    <2>3. Feeds(st, Append(a \o t, u)) = ByUnit(Feeds(st, a \o t), u)
      BY <2>2, FeedsOfMore
    <2>4. Feeds(x, Append(t, u)) = ByUnit(Feeds(x, t), u)
      BY <1>1, FeedsOfMore
    <2>5. Feeds(st, a \o Append(t, u)) = Feeds(x, Append(t, u))
      BY <2>1, <2>2, <2>3, <2>4, Zenon
    <2>. QED BY <2>2, <2>5
  <1>. HIDE DEF G
  <1>4. b \in G
    BY <1>2, <1>3, ByPrefixes
  <1>. QED BY <1>4 DEF G, x

-----------------------------------------------------------------------------
(* Lines: a stream that is fed stands where one that is told stands.        *)

Clear == {st \in Reading : st.pending = Nothing /\ st.discarding = No}

LEMMA ClearIs ==
  ASSUME NEW st \in Clear
  PROVE  \E o \in Outcomes, g \in BOOLEAN, u \in 0..MaxUsage, w \in BOOLEAN :
           st = Made(Nothing, No, No, o, g, u, w)
  <1>1. st \in Reading /\ st.pending = Nothing /\ st.discarding = No
    BY DEF Clear
  <1>2. PICK p \in Seq(Units), d \in BOOLEAN, o \in Outcomes, g \in BOOLEAN,
             u \in 0..MaxUsage, w \in BOOLEAN :
               Len(p) <= Cap /\ st = Made(p, d, No, o, g, u, w)
    BY <1>1, ReadingIs
  <1>3. st.pending = p /\ st.discarding = d
    BY <1>2, MadeHas
  <1>. QED BY <1>1, <1>2, <1>3, Zenon

LEMMA MadeIsClear ==
  ASSUME NEW o \in Outcomes, NEW g \in BOOLEAN, NEW u \in 0..MaxUsage, NEW w \in BOOLEAN
  PROVE  Made(Nothing, No, No, o, g, u, w) \in Clear
  <1>1. Nothing \in Seq(Units) /\ Len(Nothing) <= Cap /\ No \in BOOLEAN
    BY StreamAssumption DEF No, Nothing
  <1>2. Made(Nothing, No, No, o, g, u, w) \in Reading
    BY <1>1, MadeIsReading
  <1>3. /\ Made(Nothing, No, No, o, g, u, w).pending = Nothing
        /\ Made(Nothing, No, No, o, g, u, w).discarding = No
    BY MadeHas
  <1>. QED BY <1>2, <1>3 DEF Clear

LEMMA FreshIsClear == Fresh \in Clear
  <1>. DEFINE o == [ended |-> FALSE, awaited |-> FALSE, stop |-> "none", text |-> FALSE,
                    failure |-> "none"]
  <1>1. o \in Outcomes /\ No \in BOOLEAN /\ Yes \in BOOLEAN /\ 0 \in 0..MaxUsage
    BY StreamAssumption DEF Outcomes, Yes, No
  <1>2. Fresh = Made(Nothing, No, No, o, No, 0, Yes)
    BY DEF Fresh, Made, Yes, No, Nothing
  <1>. HIDE DEF o
  <1>. QED BY <1>1, <1>2, MadeIsClear

LEMMA PieceIsTold ==
  ASSUME NEW st \in Clear, NEW piece \in Line
  PROVE  Piece(st, piece) = Told(st, piece) /\ Told(st, piece) \in Clear
  <1>. DEFINE t == piece.text
  <1>1. t \in Seq(Units) /\ piece.ended /\ piece.ended \in BOOLEAN
    BY DEF Line
  <1>2. PICK o \in Outcomes, g \in BOOLEAN, u \in 0..MaxUsage, w \in BOOLEAN :
          st = Made(Nothing, No, No, o, g, u, w)
    BY ClearIs
  <1>3. Piece(st, piece) = ReadOut(Gather(st, t))
    BY <1>1, Zenon DEF Piece, ReadOut, Dropped, No, Nothing
  <1>4. Yes \in BOOLEAN /\ No \in BOOLEAN /\ Nothing \in Seq(Units)
    BY DEF Yes, No, Nothing
  <1>5. Len(Nothing) + Len(t) = Len(t) /\ Nothing \o t = t
    BY <1>1 DEF Nothing
  <1>. HIDE DEF t
  <1>6. CASE Len(t) > Cap
    <2>0. Len(Nothing) + Len(t) > Cap
      BY <1>5, <1>6
    <2>1. Gather(st, t) = Made(Nothing, Yes, No, o, Yes, u, No)
      BY <1>2, <2>0, GatherMade
    <2>2. Gather(st, t).discarding
      <3>1. Gather(st, t).discarding = Yes
        BY <2>1, MadeHas
      <3>. QED BY <3>1 DEF Yes
    <2>3. ReadOut(Gather(st, t)) = Dropped(Gather(st, t), Nothing, No)
      BY <2>2, Zenon DEF ReadOut
    <2>4. Dropped(Gather(st, t), Nothing, No) = Made(Nothing, No, No, o, Yes, u, No)
      BY <2>1, MadeDropped
    <2>5. Told(st, piece) = Error(st)
      BY <1>6 DEF Told, t
    <2>6. Error(st) = Made(Nothing, No, No, o, Yes, u, No)
      BY <1>2, ErrorIs
    <2>7. Made(Nothing, No, No, o, Yes, u, No) \in Clear
      BY <1>4, MadeIsClear
    <2>. QED BY <1>3, <2>3, <2>4, <2>5, <2>6, <2>7, Zenon
  <1>7. CASE ~ (Len(t) > Cap)
    <2>0. ~ (Len(Nothing) + Len(t) > Cap)
      BY <1>5, <1>7
    <2>1. Gather(st, t) = Made(Nothing \o t, No, No, o, g, u, w)
      BY <1>2, <2>0, GatherMade
    <2>100. Gather(st, t) = Made(t, No, No, o, g, u, w)
      BY <1>5, <2>1, Zenon
    <2>2. Gather(st, t).discarding = No /\ Gather(st, t).pending = t
      BY <2>100, MadeHas
    <2>3. ~Gather(st, t).discarding
      BY <2>2 DEF No
    <2>4. ReadOut(Gather(st, t)) = Dropped(Record(Gather(st, t), t), Nothing, No)
      BY <2>2, <2>3, Zenon DEF ReadOut
    <2>5. PICK o2 \in Outcomes, g2 \in BOOLEAN, u2 \in 0..MaxUsage, w2 \in BOOLEAN :
            RecordsAs(o, g, u, w, t, o2, g2, u2, w2)
      BY RecordMade
    <2>6. Record(Gather(st, t), t) = Made(t, No, No, o2, g2, u2, w2)
      BY <1>1, <1>4, <2>100, <2>5 DEF t, RecordsAs
    <2>7. Dropped(Record(Gather(st, t), t), Nothing, No) = Made(Nothing, No, No, o2, g2, u2, w2)
      BY <2>6, MadeDropped
    <2>8. Told(st, piece) = Record(st, t)
      BY <1>7, Zenon DEF Told, t
    <2>9. Record(st, t) = Made(Nothing, No, No, o2, g2, u2, w2)
      BY <1>2, <1>4, <2>5 DEF RecordsAs
    <2>10. Made(Nothing, No, No, o2, g2, u2, w2) \in Clear
      BY MadeIsClear
    <2>. QED BY <1>3, <2>4, <2>7, <2>8, <2>9, <2>10, Zenon
  <1>. QED BY <1>6, <1>7

LEMMA ReadIsTold ==
  ASSUME NEW st \in Clear, NEW ps \in Seq(Line)
  PROVE  ReadAll(st, ps) = TellAll(st, ps) /\ TellAll(st, ps) \in Clear
  <1>. DEFINE G == {s \in Seq(Line) : ReadAll(st, s) = TellAll(st, s) /\ TellAll(st, s) \in Clear}
  <1>1. <<>> \in G
    BY AllOfNone
  <1>2. ASSUME NEW s \in Seq(Line), NEW x \in Line, s \in G PROVE Append(s, x) \in G
    <2>1. ReadAll(st, s) = TellAll(st, s) /\ TellAll(st, s) \in Clear
      BY <1>2
    <2>2. /\ ReadAll(st, Append(s, x)) = Piece(ReadAll(st, s), x)
          /\ TellAll(st, Append(s, x)) = Told(TellAll(st, s), x)
      BY AllOfMore
    <2>3. /\ Piece(TellAll(st, s), x) = Told(TellAll(st, s), x)
          /\ Told(TellAll(st, s), x) \in Clear
      BY <2>1, PieceIsTold
    <2>4. Append(s, x) \in Seq(Line)
      OBVIOUS
    <2>. QED BY <2>1, <2>2, <2>3, <2>4
  <1>. HIDE DEF G
  <1>3. ps \in G
    BY <1>1, <1>2, ByPrefixes
  <1>. QED BY <1>3 DEF G

Reported(st, f, p, d, x, y) ==
  [st EXCEPT !.finished = f, !.pending = p, !.discarding = d, !.diagnostic = x, !.whole = y]

LEMMA MadeReported ==
  ASSUME NEW p0, NEW d0, NEW f0, NEW o, NEW g, NEW u, NEW w, NEW f, NEW p, NEW d, NEW x, NEW y
  PROVE  Reported(Made(p0, d0, f0, o, g, u, w), f, p, d, x, y) = Made(p, d, f, o, x, u, y)
  <1>. DEFINE r == Made(p0, d0, f0, o, g, u, w)
              a == Made(p0, d0, f, o, g, u, w)
              b == Made(p, d0, f, o, g, u, w)
              c == Made(p, d, f, o, g, u, w)
              e == Made(p, d, f, o, x, u, w)
  <1>1. [r EXCEPT !.finished = f] = a
    BY DEF Made
  <1>2. [a EXCEPT !.pending = p] = b
    BY DEF Made
  <1>3. [b EXCEPT !.discarding = d] = c
    BY DEF Made
  <1>4. [c EXCEPT !.diagnostic = x] = e
    BY DEF Made
  <1>5. [e EXCEPT !.whole = y] = Made(p, d, f, o, x, u, y)
    BY DEF Made
  <1>. HIDE DEF r, a, b, c, e
  <1>6. Reported(r, f, p, d, x, y) = [e EXCEPT !.whole = y]
    BY <1>1, <1>2, <1>3, <1>4, Zenon DEF Reported
  <1>. QED BY <1>5, <1>6, Zenon DEF r

(* A stream that has been told the lines of a text, with what is over.      *)
OfTold(told, rest, over, ended) ==
  [told EXCEPT
     !.finished   = ended,
     !.pending    = IF over \/ ended THEN <<>> ELSE rest,
     !.discarding = over,
     !.diagnostic = @ \/ over,
     !.whole      = @ /\ ~over]

OfLines(text, ended) ==
  OfTold(TellAll(Fresh, IF ended THEN Pieces(text) ELSE Ended(Pieces(text))),
         Rest(Pieces(text)), Len(Rest(Pieces(text))) > Cap, ended)

LEMMA OfLinesIs ==
  ASSUME NEW text, NEW ended, ended = Yes \/ ended = No
  PROVE  LET ps   == Pieces(text)
             told == TellAll(Fresh, IF ended THEN ps ELSE Ended(ps))
         IN /\ Len(Rest(ps)) > Cap =>
                 OfLines(text, ended) = Reported(told, ended, Nothing, Yes, Yes, No)
            /\ ~ (Len(Rest(ps)) > Cap) /\ ended = Yes =>
                 OfLines(text, ended)
                   = Reported(told, ended, Nothing, No, told.diagnostic \/ No, told.whole /\ Yes)
            /\ ~ (Len(Rest(ps)) > Cap) /\ ended = No =>
                 OfLines(text, ended)
                   = Reported(told, ended, Rest(ps), No, told.diagnostic \/ No, told.whole /\ Yes)
  <1>. DEFINE ps == Pieces(text)
              told == TellAll(Fresh, IF ended THEN ps ELSE Ended(ps))
              over == Len(Rest(ps)) > Cap
  <1>1. OfLines(text, ended)
          = Reported(told, ended, IF over \/ ended THEN <<>> ELSE Rest(ps), over,
                     told.diagnostic \/ over, told.whole /\ ~over)
    <2>1. \A tell, rest, o : OfTold(tell, rest, o, ended)
            = Reported(tell, ended, IF o \/ ended THEN <<>> ELSE rest, o,
                       tell.diagnostic \/ o, tell.whole /\ ~o)
      BY Zenon DEF OfTold, Reported
    <2>2. OfLines(text, ended) = OfTold(told, Rest(ps), over, ended)
      BY DEF OfLines
    <2>. HIDE DEF told, ps, over
    <2>. QED BY <2>1, <2>2, Zenon
  <1>. HIDE DEF told, ps
  <1>2. CASE over
    <2>1. /\ (IF over \/ ended THEN <<>> ELSE Rest(ps)) = Nothing
          /\ over = Yes /\ (told.diagnostic \/ over) = Yes /\ (told.whole /\ ~over) = No
      BY <1>2 DEF Nothing, Yes, No
    <2>. HIDE DEF over
    <2>2. OfLines(text, ended) = Reported(told, ended, Nothing, Yes, Yes, No)
      BY <1>1, <2>1, Zenon
    <2>. QED BY <1>2, <2>2, Zenon DEF over, told, ps
  <1>3. CASE ~over
    <2>1. /\ ended = Yes => (IF over \/ ended THEN <<>> ELSE Rest(ps)) = Nothing
          /\ ended = No => (IF over \/ ended THEN <<>> ELSE Rest(ps)) = Rest(ps)
          /\ over = No /\ (told.diagnostic \/ over) = (told.diagnostic \/ No)
          /\ (told.whole /\ ~over) = (told.whole /\ Yes)
      BY <1>3 DEF Nothing, Yes, No
    <2>. HIDE DEF over
    <2>2. /\ ended = Yes =>
               OfLines(text, ended)
                 = Reported(told, ended, Nothing, No, told.diagnostic \/ No, told.whole /\ Yes)
          /\ ended = No =>
               OfLines(text, ended)
                 = Reported(told, ended, Rest(ps), No, told.diagnostic \/ No, told.whole /\ Yes)
      BY <1>1, <2>1, Zenon
    <2>. QED BY <1>3, <2>2, Zenon DEF over, told, ps
  <1>. QED BY <1>2, <1>3

LEMMA AtEndIs ==
  ASSUME NEW st
  PROVE  /\ st.pending # <<>> /\ ~st.discarding =>
              AtEnd(st) = Closed(Record(st, st.pending), Yes, Nothing)
         /\ ~ (st.pending # <<>> /\ ~st.discarding) => AtEnd(st) = Closed(st, Yes, Nothing)
  BY Zenon DEF AtEnd, Closed, Yes, Nothing

LEMMA SameBoolean ==
  ASSUME NEW g \in BOOLEAN
  PROVE  (g \/ No) = g /\ (g /\ Yes) = g
  BY DEF Yes, No

(* However a text is split into chunks, and at its end.                     *)
LEMMA FedIsOfLines ==
  ASSUME NEW text \in Seq(Units)
  PROVE  /\ Feeds(Fresh, text) = OfLines(text, No)
         /\ AtEnd(Feeds(Fresh, text)) = OfLines(text, Yes)
  <1>. DEFINE ps   == Pieces(text)
              rest == Rest(ps)
              told == TellAll(Fresh, Ended(ps))
              all  == TellAll(Fresh, ps)
  <1>1. Shaped(ps)
    BY PiecesAreShaped
  <1>2. Fresh \in Reading /\ Fresh \in Clear
    BY FreshIsClear DEF Clear
  <1>3. rest \in Seq(Units) /\ Feeds(Fresh, text) = Gather(ReadAll(Fresh, Ended(ps)), rest)
    BY <1>2, FeedsIs
  <1>4. ReadAll(Fresh, Ended(ps)) = told /\ told \in Clear
    BY <1>1, <1>2, ReadIsTold DEF Shaped
  <1>5. PICK o \in Outcomes, g \in BOOLEAN, u \in 0..MaxUsage, w \in BOOLEAN :
          told = Made(Nothing, No, No, o, g, u, w)
    BY <1>4, ClearIs
  <1>6. /\ (IF Yes THEN ps ELSE Ended(ps)) = ps /\ (IF No THEN ps ELSE Ended(ps)) = Ended(ps)
        /\ Yes \in BOOLEAN /\ No \in BOOLEAN /\ Nothing \in Seq(Units) /\ Yes # No
    BY DEF Yes, No, Nothing
  <1>7. Len(Nothing) + Len(rest) = Len(rest) /\ Nothing \o rest = rest
    BY <1>3 DEF Nothing
  <1>8. /\ Len(rest) > Cap =>
             /\ OfLines(text, No)  = Reported(told, No, Nothing, Yes, Yes, No)
             /\ OfLines(text, Yes) = Reported(all, Yes, Nothing, Yes, Yes, No)
        /\ ~ (Len(rest) > Cap) =>
             /\ OfLines(text, No)
                  = Reported(told, No, rest, No, told.diagnostic \/ No, told.whole /\ Yes)
             /\ OfLines(text, Yes)
                  = Reported(all, Yes, Nothing, No, all.diagnostic \/ No, all.whole /\ Yes)
    BY <1>6, OfLinesIs, ZenonT(30)
  <1>9. Unended(ps) => all = Told(told, [text |-> rest, ended |-> FALSE]) /\ rest # Nothing
    <2>. DEFINE last == [text |-> rest, ended |-> FALSE]
    <2>1. SUFFICES ASSUME Unended(ps)
                   PROVE  all = Told(told, last) /\ rest # Nothing
      OBVIOUS
    <2>2. ps = Append(Ended(ps), last) /\ rest # Nothing /\ Ended(ps) \in Seq(Line)
      BY <1>1, <2>1 DEF Shaped, Nothing
    <2>3. Ended(ps) \in Seq(Part) /\ last \in Part
      <3>1. Line \subseteq Part
        BY DEF Line, Part
      <3>2. last \in Part
        BY <1>3 DEF Part
      <3>. QED BY <2>2, <3>1, <3>2, SeqOfMore
    <2>. HIDE DEF last, ps
    <2>4. TellAll(Fresh, Append(Ended(ps), last)) = Told(told, last)
      BY <2>3, AllOfMore
    <2>. QED BY <2>2, <2>4, Zenon
  <1>10. ~Unended(ps) => all = told /\ rest = Nothing
    BY <1>1 DEF Shaped, Nothing
  <1>. HIDE DEF ps, rest, told, all
  <1>11. CASE Len(rest) > Cap
    <2>1. Feeds(Fresh, text) = Made(Nothing, Yes, No, o, Yes, u, No)
      <3>1. Len(Nothing) + Len(rest) > Cap
        BY <1>7, <1>11
      <3>2. Gather(told, rest) = Made(Nothing, Yes, No, o, Yes, u, No)
        BY <1>5, <3>1, GatherMade
      <3>. QED BY <1>3, <1>4, <3>2
    <2>2. OfLines(text, No) = Made(Nothing, Yes, No, o, Yes, u, No)
      BY <1>5, <1>8, <1>11, MadeReported
    <2>3. rest # Nothing
      BY <1>7, <1>11, StreamAssumption DEF Nothing
    <2>4. all = Error(told)
      <3>1. Unended(ps)
        BY <1>10, <2>3
      <3>2. all = Told(told, [text |-> rest, ended |-> FALSE])
        BY <1>9, <3>1
      <3>. QED BY <1>11, <3>2, Zenon DEF Told
    <2>5. all = Made(Nothing, No, No, o, Yes, u, No)
      BY <1>5, <2>4, ErrorIs
    <2>6. OfLines(text, Yes) = Made(Nothing, Yes, Yes, o, Yes, u, No)
      BY <1>8, <1>11, <2>5, MadeReported
    <2>7. Feeds(Fresh, text).discarding
      <3>1. Feeds(Fresh, text).discarding = Yes
        BY <2>1, MadeHas
      <3>. QED BY <3>1 DEF Yes
    <2>8. AtEnd(Feeds(Fresh, text)) = Closed(Feeds(Fresh, text), Yes, Nothing)
      BY <2>7, AtEndIs, Zenon
    <2>9. Closed(Feeds(Fresh, text), Yes, Nothing) = Made(Nothing, Yes, Yes, o, Yes, u, No)
      BY <2>1, MadeClosed
    <2>. QED BY <2>1, <2>2, <2>6, <2>8, <2>9, Zenon
  <1>12. CASE ~ (Len(rest) > Cap)
    <2>1. Feeds(Fresh, text) = Made(rest, No, No, o, g, u, w)
      <3>1. ~ (Len(Nothing) + Len(rest) > Cap)
        BY <1>7, <1>12
      <3>2. Gather(told, rest) = Made(Nothing \o rest, No, No, o, g, u, w)
        BY <1>5, <3>1, GatherMade
      <3>. QED BY <1>3, <1>4, <1>7, <3>2, Zenon
    <2>2. OfLines(text, No) = Made(rest, No, No, o, g, u, w)
      <3>1. told.diagnostic = g /\ told.whole = w
        BY <1>5, MadeHas
      <3>2. (told.diagnostic \/ No) = g /\ (told.whole /\ Yes) = w
        BY <3>1, SameBoolean
      <3>3. OfLines(text, No) = Reported(told, No, rest, No, g, w)
        BY <1>8, <1>12, <3>2, Zenon
      <3>. QED BY <1>5, <3>3, MadeReported
    <2>3. Feeds(Fresh, text).pending = rest /\ ~Feeds(Fresh, text).discarding
      <3>1. Feeds(Fresh, text).pending = rest /\ Feeds(Fresh, text).discarding = No
        BY <2>1, MadeHas
      <3>. QED BY <3>1 DEF No
    <2>4. ASSUME NEW o2 \in Outcomes, NEW g2 \in BOOLEAN, NEW u2 \in 0..MaxUsage,
                 NEW w2 \in BOOLEAN, all = Made(Nothing, No, No, o2, g2, u2, w2)
          PROVE  OfLines(text, Yes) = Made(Nothing, No, Yes, o2, g2, u2, w2)
      <3>1. all.diagnostic = g2 /\ all.whole = w2
        BY <2>4, MadeHas
      <3>2. (all.diagnostic \/ No) = g2 /\ (all.whole /\ Yes) = w2
        BY <3>1, SameBoolean
      <3>3. OfLines(text, Yes) = Reported(all, Yes, Nothing, No, g2, w2)
        BY <1>8, <1>12, <3>2, Zenon
      <3>. QED BY <2>4, <3>3, MadeReported
    <2>5. CASE Unended(ps)
      <3>1. PICK o2 \in Outcomes, g2 \in BOOLEAN, u2 \in 0..MaxUsage, w2 \in BOOLEAN :
              RecordsAs(o, g, u, w, rest, o2, g2, u2, w2)
        BY RecordMade
      <3>2. /\ Record(Made(rest, No, No, o, g, u, w), rest) = Made(rest, No, No, o2, g2, u2, w2)
            /\ Record(Made(Nothing, No, No, o, g, u, w), rest)
                 = Made(Nothing, No, No, o2, g2, u2, w2)
        BY <1>3, <1>6, <3>1 DEF RecordsAs
      <3>3. all = Record(told, rest)
        BY <1>9, <1>12, <2>5, Zenon DEF Told
      <3>4. OfLines(text, Yes) = Made(Nothing, No, Yes, o2, g2, u2, w2)
        BY <1>5, <2>4, <3>2, <3>3
      <3>5. Feeds(Fresh, text).pending # <<>>
        BY <1>9, <2>3, <2>5 DEF Nothing
      <3>6. AtEnd(Feeds(Fresh, text)) = Closed(Record(Feeds(Fresh, text), rest), Yes, Nothing)
        BY <2>3, <3>5, AtEndIs, Zenon
      <3>7. Closed(Made(rest, No, No, o2, g2, u2, w2), Yes, Nothing)
              = Made(Nothing, No, Yes, o2, g2, u2, w2)
        BY MadeClosed
      <3>. QED BY <2>1, <2>2, <3>2, <3>4, <3>6, <3>7, Zenon
    <2>6. CASE ~Unended(ps)
      <3>1. all = Made(Nothing, No, No, o, g, u, w) /\ rest = Nothing
        BY <1>5, <1>10, <2>6
      <3>2. OfLines(text, Yes) = Made(Nothing, No, Yes, o, g, u, w)
        BY <2>4, <3>1
      <3>3. Feeds(Fresh, text).pending = <<>>
        BY <2>3, <3>1 DEF Nothing
      <3>4. AtEnd(Feeds(Fresh, text)) = Closed(Feeds(Fresh, text), Yes, Nothing)
        BY <3>3, AtEndIs, Zenon
      <3>5. Closed(Made(rest, No, No, o, g, u, w), Yes, Nothing)
              = Made(Nothing, No, Yes, o, g, u, w)
        BY MadeClosed
      <3>. QED BY <2>1, <2>2, <3>2, <3>4, <3>5, Zenon
    <2>. QED BY <2>5, <2>6
  <1>. QED BY <1>11, <1>12

-----------------------------------------------------------------------------
(* What a stream that is told the lines of a text says of them.             *)

LEMMA ErrorHas ==
  ASSUME NEW st \in Streams
  PROVE  /\ Error(st).ended = st.ended /\ Error(st).awaited = st.awaited
         /\ Error(st).stop = st.stop /\ Error(st).text = st.text
         /\ Error(st).failure = st.failure /\ Error(st).usage = st.usage
         /\ Error(st).diagnostic = TRUE /\ Error(st).whole = FALSE
  BY DEF Error, Streams

LEMMA ToldIs ==
  ASSUME NEW st \in Streams, NEW piece
  PROVE  /\ Told(st, piece) \in Streams
         /\ Len(piece.text) > Cap => Told(st, piece) = Error(st)
         /\ ~ (Len(piece.text) > Cap) => Told(st, piece) = After(st, Decoded(piece.text))
  <1>1. Error(st) \in Streams
    BY ErrorIsStream
  <1>2. /\ Record(st, piece.text) = After(st, Decoded(piece.text))
        /\ Record(st, piece.text) \in Streams
    BY RecordIs
  <1>. QED BY <1>1, <1>2, Zenon DEF Told

LEMMA TellAllKeeps ==
  ASSUME NEW st \in Streams, NEW ps \in Seq(Part)
  PROVE  TellAll(st, ps) \in Streams
  <1>. DEFINE G == {s \in Seq(Part) : TellAll(st, s) \in Streams}
  <1>1. <<>> \in G
    BY AllOfNone
  <1>2. ASSUME NEW s \in Seq(Part), NEW x \in Part, s \in G PROVE Append(s, x) \in G
    <2>1. TellAll(st, s) \in Streams
      BY <1>2
    <2>2. TellAll(st, Append(s, x)) = Told(TellAll(st, s), x)
      BY AllOfMore
    <2>3. Told(TellAll(st, s), x) \in Streams
      BY <2>1, ToldIs
    <2>. QED BY <2>2, <2>3
  <1>. HIDE DEF G
  <1>3. ps \in G
    BY <1>1, <1>2, ByPrefixes
  <1>. QED BY <1>3 DEF G

KindOf(ps, n)       == Decoded(ps[n].text)
Later(ps, n, kinds) == \E m \in DOMAIN ps : m > n /\ KindOf(ps, m) \in kinds

(* A line of one kind has come, and since then none of the others.          *)
Stands(ps, k, kinds) == \E n \in DOMAIN ps : KindOf(ps, n) = k /\ ~Later(ps, n, kinds)

Fits(ps)      == \A n \in DOMAIN ps : /\ ~ (Len(ps[n].text) > Cap)
                                      /\ KindOf(ps, n) \notin {"bad", "long"}
CountedIn(ps) == {n \in DOMAIN ps : KindOf(ps, n) \in Counted}
Unasked       == Replies \cup {"turn", "retry"}
Restarted     == {"start"} \cup Replies

LEMMA KindsOfMore ==
  ASSUME NEW A, NEW ps \in Seq(A), NEW x \in A
  PROVE  /\ Len(ps) \in Nat /\ DOMAIN ps = 1..Len(ps)
         /\ DOMAIN Append(ps, x) = 1..(Len(ps) + 1)
         /\ \A n \in 1..Len(ps) : /\ Append(ps, x)[n].text = ps[n].text
                                  /\ KindOf(Append(ps, x), n) = KindOf(ps, n)
         /\ Append(ps, x)[Len(ps) + 1].text = x.text
         /\ KindOf(Append(ps, x), Len(ps) + 1) = Decoded(x.text)
  BY DEF KindOf

LEMMA StandsOfMore ==
  ASSUME NEW A, NEW ps \in Seq(A), NEW x \in A, NEW k, NEW kinds
  PROVE  Stands(Append(ps, x), k, kinds)
           <=> Decoded(x.text) = k \/ (Decoded(x.text) \notin kinds /\ Stands(ps, k, kinds))
  <1>. DEFINE t == Append(ps, x)
              e == Len(ps) + 1
  <1>1. /\ Len(ps) \in Nat /\ DOMAIN ps = 1..Len(ps) /\ DOMAIN t = 1..e
        /\ \A n \in 1..Len(ps) : KindOf(t, n) = KindOf(ps, n)
        /\ KindOf(t, e) = Decoded(x.text)
    BY KindsOfMore
  <1>2. \A n \in 1..Len(ps) : Later(t, n, kinds) <=> Later(ps, n, kinds) \/ Decoded(x.text) \in kinds
    BY <1>1 DEF Later
  <1>3. ~Later(t, e, kinds)
    BY <1>1 DEF Later
  <1>. QED BY <1>1, <1>2, <1>3 DEF Stands

LEMMA FitsOfMore ==
  ASSUME NEW A, NEW ps \in Seq(A), NEW x \in A
  PROVE  Fits(Append(ps, x))
           <=> Fits(ps) /\ ~ (Len(x.text) > Cap) /\ Decoded(x.text) \notin {"bad", "long"}
  BY KindsOfMore DEF Fits

LEMMA CountedOfMore ==
  ASSUME NEW A, NEW ps \in Seq(A), NEW x \in A
  PROVE  /\ Cardinality(CountedIn(ps)) \in Nat
         /\ Decoded(x.text) \in Counted =>
              Cardinality(CountedIn(Append(ps, x))) = Cardinality(CountedIn(ps)) + 1
         /\ Decoded(x.text) \notin Counted =>
              Cardinality(CountedIn(Append(ps, x))) = Cardinality(CountedIn(ps))
  <1>. DEFINE t == Append(ps, x)
              e == Len(ps) + 1
  <1>1. /\ Len(ps) \in Nat /\ DOMAIN ps = 1..Len(ps) /\ DOMAIN t = 1..e
        /\ \A n \in 1..Len(ps) : KindOf(t, n) = KindOf(ps, n)
        /\ KindOf(t, e) = Decoded(x.text)
    BY KindsOfMore
  <1>2. CountedIn(ps) \subseteq 1..Len(ps) /\ IsFiniteSet(1..Len(ps))
    BY <1>1, FS_Interval DEF CountedIn
  <1>3. IsFiniteSet(CountedIn(ps)) /\ e \notin CountedIn(ps)
    BY <1>1, <1>2, FS_Subset
  <1>4. /\ Cardinality(CountedIn(ps)) \in Nat
        /\ Cardinality(CountedIn(ps) \cup {e}) = Cardinality(CountedIn(ps)) + 1
    BY <1>3, FS_CardinalityType, FS_AddElement
  <1>5. /\ Decoded(x.text) \in Counted => CountedIn(t) = CountedIn(ps) \cup {e}
        /\ Decoded(x.text) \notin Counted => CountedIn(t) = CountedIn(ps)
    BY <1>1 DEF CountedIn
  <1>. QED BY <1>4, <1>5

LEMMA NothingOfNone ==
  /\ \A k, kinds : ~Stands(<<>>, k, kinds)
  /\ Fits(<<>>) /\ CountedIn(<<>>) = {} /\ Cardinality(CountedIn(<<>>)) = 0
  <1>1. CountedIn(<<>>) = {}
    BY DEF CountedIn
  <1>. QED BY <1>1, FS_EmptySet DEF Stands, Fits

HasAnswer(st) == st.stop = "stop" /\ st.text /\ st.failure = "none" /\ ~st.awaited

Readable(st, ps)  == ~st.diagnostic <=> Fits(ps) /\ Cardinality(CountedIn(ps)) <= MaxUsage
Summed(st, ps)    == ~st.diagnostic => st.usage = Cardinality(CountedIn(ps))
Answering(st, ps) == ~st.diagnostic => (HasAnswer(st) <=> Stands(ps, "answer", Unasked))
Settling(st, ps)  == ~st.diagnostic => (st.ended <=> Stands(ps, "settled", Restarted))
Complete(st, ps)  == st.whole => ~st.diagnostic /\ \A n \in DOMAIN ps : KindOf(ps, n) # "helper"

Sums(st, ps) ==
  /\ Readable(st, ps) /\ Summed(st, ps) /\ Answering(st, ps) /\ Settling(st, ps)
  /\ Complete(st, ps)

LEMMA AnswerAfter ==
  ASSUME NEW st \in Streams, NEW kind \in Kinds
  PROVE  HasAnswer(After(st, kind)) <=> kind = "answer" \/ (kind \notin Unasked /\ HasAnswer(st))
  <1>. DEFINE a == After(st, kind)
  <1>1. /\ a.stop = StopBy(st, kind) /\ a.text = TextBy(st, kind)
        /\ a.failure = FailureBy(st, kind) /\ a.awaited = AwaitedBy(st, kind)
    BY DEF After
  <1>2. st.text \in BOOLEAN /\ st.awaited \in BOOLEAN
    BY DEF Streams
  <1>. HIDE DEF a
  <1>3. CASE kind = "answer"
    <2>1. /\ StopBy(st, kind) = "stop" /\ TextBy(st, kind) /\ FailureBy(st, kind) = "none"
          /\ ~AwaitedBy(st, kind)
      BY <1>3 DEF StopBy, TextBy, FailureBy, AwaitedBy, Replies
    <2>. QED BY <1>1, <1>3, <2>1 DEF HasAnswer, a
  <1>4. CASE kind \in Unasked \ {"answer"}
    <2>1. CASE kind = "long"
      <3>1. ~TextBy(st, kind)
        BY <2>1 DEF TextBy, Replies
      <3>. QED BY <1>1, <1>4, <2>1, <3>1 DEF HasAnswer, a
    <2>2. CASE kind = "tooluse" \/ kind = "refused"
      <3>1. StopBy(st, kind) # "stop"
        BY <2>2 DEF StopBy
      <3>. QED BY <1>1, <1>4, <2>2, <3>1 DEF HasAnswer, a
    <2>3. CASE kind = "turn"
      <3>1. AwaitedBy(st, kind)
        BY <2>3 DEF AwaitedBy, Replies
      <3>. QED BY <1>1, <1>4, <2>3, <3>1 DEF HasAnswer, a
    <2>4. CASE kind = "retry"
      <3>1. FailureBy(st, kind) # "none"
        BY <2>4 DEF FailureBy, Replies
      <3>. QED BY <1>1, <1>4, <2>4, <3>1 DEF HasAnswer, a
    <2>. QED BY <1>4, <2>1, <2>2, <2>3, <2>4 DEF Unasked, Replies
  <1>5. CASE kind \notin Unasked
    <2>1. kind \notin {"answer", "long", "tooluse", "refused", "turn", "retry"}
      BY <1>5 DEF Unasked, Replies
    <2>2. StopBy(st, kind) = st.stop /\ FailureBy(st, kind) = st.failure
      BY <2>1 DEF StopBy, FailureBy, Replies
    <2>3. TextBy(st, kind) = st.text /\ AwaitedBy(st, kind) = st.awaited
      BY <1>2, <2>1 DEF TextBy, AwaitedBy, Replies
    <2>. QED BY <1>1, <1>5, <2>1, <2>2, <2>3 DEF HasAnswer, a
  <1>. QED BY <1>3, <1>4, <1>5 DEF Unasked, Replies

LEMMA ToldSums ==
  ASSUME NEW st \in Streams, NEW A, NEW ps \in Seq(A), NEW x \in A, Sums(st, ps)
  PROVE  Sums(Told(st, x), Append(ps, x))
  <1>. DEFINE t    == Append(ps, x)
              kind == Decoded(x.text)
              now  == Told(st, x)
              c    == Cardinality(CountedIn(ps))
              e    == Cardinality(CountedIn(t))
  <1>1. kind \in Kinds /\ MaxUsage \in Nat
    BY DecodedIsKind, StreamAssumption
  <1>2. Fits(t) <=> Fits(ps) /\ ~ (Len(x.text) > Cap) /\ kind \notin {"bad", "long"}
    BY FitsOfMore
  <1>3. /\ c \in Nat /\ (kind \in Counted => e = c + 1) /\ (kind \notin Counted => e = c)
    BY CountedOfMore
  <1>4. /\ Stands(t, "answer", Unasked)
             <=> kind = "answer" \/ (kind \notin Unasked /\ Stands(ps, "answer", Unasked))
        /\ Stands(t, "settled", Restarted)
             <=> kind = "settled" \/ (kind \notin Restarted /\ Stands(ps, "settled", Restarted))
    BY StandsOfMore
  <1>5. (\A n \in DOMAIN t : KindOf(t, n) # "helper")
          <=> kind # "helper" /\ \A n \in DOMAIN ps : KindOf(ps, n) # "helper"
    BY KindsOfMore
  <1>6. st.diagnostic \in BOOLEAN /\ st.whole \in BOOLEAN /\ st.ended \in BOOLEAN
    BY DEF Streams
  <1>7. CASE Len(x.text) > Cap
    <2>1. now.diagnostic = TRUE /\ now.whole = FALSE
      <3>1. now = Error(st)
        BY <1>7, ToldIs
      <3>. QED BY <3>1, ErrorHas
    <2>2. ~Fits(t)
      BY <1>2, <1>7
    <2>. HIDE DEF now, t
    <2>3. /\ Readable(now, t) /\ Summed(now, t) /\ Answering(now, t) /\ Settling(now, t)
          /\ Complete(now, t)
      BY <2>1, <2>2 DEF Readable, Summed, Answering, Settling, Complete
    <2>4. Sums(now, t)
      BY <2>3 DEF Sums
    <2>. QED BY <2>4 DEF now, t
  <1>8. CASE ~ (Len(x.text) > Cap)
    <2>1. now = After(st, kind)
      BY <1>8, ToldIs
    <2>2. HasAnswer(now) <=> kind = "answer" \/ (kind \notin Unasked /\ HasAnswer(st))
      BY <1>1, <2>1, AnswerAfter
    <2>3. /\ now.diagnostic = (st.diagnostic \/ Wrong(st, kind))
          /\ now.usage = UsageBy(st, kind) /\ now.ended = EndedBy(st, kind)
          /\ now.whole = (st.whole /\ ~Wrong(st, kind) /\ kind # "helper")
      BY <2>1 DEF After
    <2>. HIDE DEF now, t, kind, c, e
    <2>4. Readable(st, ps) /\ Summed(st, ps) /\ Answering(st, ps) /\ Settling(st, ps)
          /\ Complete(st, ps)
      BY DEF Sums
    <2>5. /\ ~st.diagnostic <=> Fits(ps) /\ c <= MaxUsage
          /\ ~st.diagnostic => st.usage = c
      BY <2>4 DEF Readable, Summed, c
    <2>6. ~now.diagnostic <=> Fits(t) /\ e <= MaxUsage
      <3>1. CASE st.diagnostic
        <4>1. ~ (Fits(ps) /\ c <= MaxUsage) /\ now.diagnostic = TRUE
          BY <1>6, <2>3, <2>5, <3>1
        <4>2. Fits(t) /\ e <= MaxUsage => Fits(ps) /\ c <= MaxUsage
          BY <1>1, <1>2, <1>3
        <4>. QED BY <4>1, <4>2
      <3>2. CASE ~st.diagnostic
        <4>1. Fits(ps) /\ c <= MaxUsage /\ st.usage = c
          BY <2>5, <3>2
        <4>2. now.diagnostic <=> Wrong(st, kind)
          BY <1>6, <2>3, <3>2
        <4>3. Full(st, kind) <=> ~ (e <= MaxUsage)
          BY <1>1, <1>3, <4>1 DEF Full
        <4>. QED BY <1>2, <1>8, <4>1, <4>2, <4>3 DEF Wrong
      <3>. QED BY <3>1, <3>2
    <2>7. ~now.diagnostic => now.usage = e
      BY <1>1, <1>3, <2>3, <2>5 DEF Wrong, Full, UsageBy
    <2>8. ~now.diagnostic => ~st.diagnostic
      BY <1>6, <2>3
    <2>9. Answering(now, t)
      BY <1>4, <2>2, <2>4, <2>8 DEF Answering
    <2>10. Settling(now, t)
      <3>1. now.ended <=> kind = "settled" \/ (kind \notin Restarted /\ st.ended)
        BY <1>6, <2>3 DEF EndedBy, Restarted, Replies
      <3>. QED BY <1>4, <2>4, <2>8, <3>1 DEF Settling
    <2>11. Complete(now, t)
      BY <1>5, <1>6, <2>3, <2>4 DEF Complete, kind
    <2>12. Sums(now, t)
      BY <2>6, <2>7, <2>9, <2>10, <2>11 DEF Sums, Readable, Summed, e
    <2>. QED BY <2>12 DEF now, t
  <1>. QED BY <1>7, <1>8

(* What is told of a text, read as the lines it has.                        *)
LEMMA TellAllSums ==
  ASSUME NEW ps \in Seq(Part)
  PROVE  Sums(TellAll(Fresh, ps), ps) /\ TellAll(Fresh, ps) \in Streams
  <1>. DEFINE G == {s \in Seq(Part) : Sums(TellAll(Fresh, s), s)}
  <1>1. Fresh \in Streams
    BY FreshIsClear DEF Clear, Reading
  <1>2. <<>> \in G
    <2>1. TellAll(Fresh, <<>>) = Fresh
      BY AllOfNone
    <2>2. ~Fresh.diagnostic /\ ~HasAnswer(Fresh) /\ ~Fresh.ended /\ Fresh.usage = 0
      BY DEF Fresh, HasAnswer
    <2>3. /\ \A k, kinds : ~Stands(<<>>, k, kinds)
          /\ Fits(<<>>) /\ Cardinality(CountedIn(<<>>)) = 0 /\ 0 <= MaxUsage
          /\ \A n \in DOMAIN <<>> : KindOf(<<>>, n) # "helper"
      BY NothingOfNone, StreamAssumption
    <2>4. Sums(Fresh, <<>>)
      <3>1. Readable(Fresh, <<>>) /\ Summed(Fresh, <<>>)
        BY <2>2, <2>3, Zenon DEF Readable, Summed
      <3>2. Answering(Fresh, <<>>) /\ Settling(Fresh, <<>>) /\ Complete(Fresh, <<>>)
        BY <2>2, <2>3, Zenon DEF Answering, Settling, Complete
      <3>. QED BY <3>1, <3>2, Zenon DEF Sums
    <2>. QED BY <2>1, <2>4
  <1>3. ASSUME NEW s \in Seq(Part), NEW x \in Part, s \in G PROVE Append(s, x) \in G
    <2>1. Sums(TellAll(Fresh, s), s) /\ TellAll(Fresh, s) \in Streams
      BY <1>1, <1>3, TellAllKeeps
    <2>2. TellAll(Fresh, Append(s, x)) = Told(TellAll(Fresh, s), x)
      BY AllOfMore
    <2>3. Sums(Told(TellAll(Fresh, s), x), Append(s, x))
      BY <2>1, ToldSums
    <2>. QED BY <2>2, <2>3
  <1>. HIDE DEF G
  <1>4. ps \in G
    BY <1>2, <1>3, ByPrefixes
  <1>5. TellAll(Fresh, ps) \in Streams
    BY <1>1, TellAllKeeps
  <1>. QED BY <1>4, <1>5 DEF G

LEMMA SettledIs ==
  ASSUME NEW text \in Seq(Units)
  PROVE  LET told == TellAll(Fresh, Pieces(text))
         IN Settled(text) <=> ~told.diagnostic /\ HasAnswer(told) /\ told.ended
  <1>. DEFINE ps    == Pieces(text)
              told  == TellAll(Fresh, ps)
              lines == Lines(text)
  <1>1. ps \in Seq(Part)
    BY PiecesAreShaped DEF Shaped
  <1>2. /\ DOMAIN lines = DOMAIN ps
        /\ \A n \in DOMAIN ps : lines[n] = ps[n].text /\ KindOf(ps, n) = Decoded(lines[n])
    BY DEF Lines, KindOf
  <1>3. \A n \in DOMAIN ps : n \in Nat /\ Len(ps[n].text) \in Nat
    <2>. HIDE DEF ps
    <2>1. \A n \in DOMAIN ps : n \in Nat /\ ps[n] \in Part
      BY <1>1
    <2>2. \A x \in Part : x.text \in Seq(Units)
      BY DEF Part
    <2>. QED BY <2>1, <2>2
  <1>4. Sums(told, ps) /\ told \in Streams
    BY <1>1, TellAllSums
  <1>. DEFINE later(n, kinds) == \E m \in DOMAIN lines : m > n /\ Decoded(lines[m]) \in kinds
  <1>5. \A n, kinds : later(n, kinds) <=> Later(ps, n, kinds)
    BY <1>2 DEF Later
  <1>6. {n \in DOMAIN lines : Decoded(lines[n]) \in Counted} = CountedIn(ps)
    BY <1>2 DEF CountedIn
  <1>7. (\A n \in DOMAIN lines : Len(lines[n]) <= Cap /\ Decoded(lines[n]) \notin {"bad", "long"})
          <=> Fits(ps)
    BY <1>2, <1>3, StreamAssumption DEF Fits
  <1>8. (\E a, s \in DOMAIN lines :
           /\ Decoded(lines[a]) = "answer" /\ ~later(a, Replies \cup {"turn", "retry"})
           /\ Decoded(lines[s]) = "settled" /\ s > a /\ ~later(s, {"start"}))
          <=> Stands(ps, "answer", Unasked) /\ Stands(ps, "settled", Restarted)
    <2>. HIDE DEF later, lines, ps
    <2>1. ASSUME NEW a \in DOMAIN ps, NEW s \in DOMAIN ps,
                 KindOf(ps, a) = "answer", ~Later(ps, a, Unasked), KindOf(ps, s) = "settled",
                 s > a, ~Later(ps, s, {"start"})
          PROVE  Stands(ps, "answer", Unasked) /\ Stands(ps, "settled", Restarted)
      <3>1. ~Later(ps, s, Restarted)
        BY <1>3, <2>1 DEF Later, Restarted, Unasked
      <3>. QED BY <2>1, <3>1 DEF Stands
    <2>2. ASSUME Stands(ps, "answer", Unasked), Stands(ps, "settled", Restarted)
          PROVE  \E a, s \in DOMAIN ps :
                   /\ KindOf(ps, a) = "answer" /\ ~Later(ps, a, Unasked)
                   /\ KindOf(ps, s) = "settled" /\ s > a /\ ~Later(ps, s, {"start"})
      <3>1. PICK a \in DOMAIN ps : KindOf(ps, a) = "answer" /\ ~Later(ps, a, Unasked)
        BY <2>2 DEF Stands
      <3>2. PICK s \in DOMAIN ps : KindOf(ps, s) = "settled" /\ ~Later(ps, s, Restarted)
        BY <2>2 DEF Stands
      <3>3. ~ (a > s) /\ a # s
        BY <3>1, <3>2 DEF Later, Restarted, Replies
      <3>4. ~Later(ps, s, {"start"})
        BY <3>2 DEF Later, Restarted
      <3>. QED BY <1>3, <3>1, <3>2, <3>3, <3>4
    <2>3. (\E a, s \in DOMAIN ps :
             /\ KindOf(ps, a) = "answer" /\ ~Later(ps, a, Unasked)
             /\ KindOf(ps, s) = "settled" /\ s > a /\ ~Later(ps, s, {"start"}))
            <=> Stands(ps, "answer", Unasked) /\ Stands(ps, "settled", Restarted)
      BY <2>1, <2>2
    <2>4. Unasked = Replies \cup {"turn", "retry"}
      BY DEF Unasked
    <2>. QED BY <1>2, <1>5, <2>3, <2>4
  <1>9. Settled(text)
          <=> /\ \A n \in DOMAIN lines : /\ Len(lines[n]) <= Cap
                                         /\ Decoded(lines[n]) \notin {"bad", "long"}
              /\ Cardinality({n \in DOMAIN lines : Decoded(lines[n]) \in Counted}) <= MaxUsage
              /\ \E a, s \in DOMAIN lines :
                   /\ Decoded(lines[a]) = "answer" /\ ~later(a, Replies \cup {"turn", "retry"})
                   /\ Decoded(lines[s]) = "settled" /\ s > a /\ ~later(s, {"start"})
    BY Zenon DEF Settled
  <1>. HIDE DEF later, lines, ps, told
  <1>10. Settled(text)
           <=> /\ Fits(ps) /\ Cardinality(CountedIn(ps)) <= MaxUsage
               /\ Stands(ps, "answer", Unasked) /\ Stands(ps, "settled", Restarted)
    BY <1>6, <1>7, <1>8, <1>9
  <1>11. /\ ~told.diagnostic <=> Fits(ps) /\ Cardinality(CountedIn(ps)) <= MaxUsage
         /\ ~told.diagnostic => /\ HasAnswer(told) <=> Stands(ps, "answer", Unasked)
                                /\ told.ended <=> Stands(ps, "settled", Restarted)
    BY <1>4 DEF Sums, Readable, Answering, Settling
  <1>12. Settled(text) <=> ~told.diagnostic /\ HasAnswer(told) /\ told.ended
    BY <1>10, <1>11
  <1>. QED BY <1>12, Zenon DEF told, ps

(* The stream at the end of an output.                                      *)
LEMMA EndOfLines ==
  ASSUME NEW text \in Seq(Units)
  PROVE  LET told == TellAll(Fresh, Pieces(text))
             st   == OfLines(text, Yes)
         IN /\ st.finished = Yes /\ st.usage = told.usage /\ st.ended = told.ended
            /\ HasAnswer(st) <=> HasAnswer(told)
            /\ st.diagnostic <=> told.diagnostic
            /\ st.whole => told.whole
            /\ st.failure = told.failure
  <1>. DEFINE ps   == Pieces(text)
              told == TellAll(Fresh, ps)
              st   == OfLines(text, Yes)
  <1>1. ps \in Seq(Part) /\ Shaped(ps)
    BY PiecesAreShaped DEF Shaped
  <1>2. told \in Streams /\ Sums(told, ps)
    BY <1>1, TellAllSums
  <1>3. Len(Rest(ps)) > Cap => ~Fits(ps)
    <2>1. SUFFICES ASSUME Len(Rest(ps)) > Cap PROVE ~Fits(ps)
      OBVIOUS
    <2>. DEFINE last == [text |-> Rest(ps), ended |-> FALSE]
    <2>2. Rest(ps) # <<>>
      BY <2>1, StreamAssumption
    <2>3. ps = Append(Ended(ps), last) /\ Ended(ps) \in Seq(Line) /\ Rest(ps) \in Seq(Units)
      BY <1>1, <2>2 DEF Shaped
    <2>4. last \in Part /\ Line \subseteq Part /\ last.text = Rest(ps)
      BY <2>3 DEF Part, Line
    <2>5. Ended(ps) \in Seq(Part)
      BY <2>3, <2>4, SeqOfMore
    <2>. HIDE DEF last, ps
    <2>6. Fits(Append(Ended(ps), last)) => ~ (Len(last.text) > Cap)
      BY <2>4, <2>5, FitsOfMore
    <2>. QED BY <2>1, <2>3, <2>4, <2>6
  <1>4. PICK p \in Seq(Units), d \in BOOLEAN, f \in BOOLEAN, o \in Outcomes, g \in BOOLEAN,
             u \in 0..MaxUsage, w \in BOOLEAN : told = Made(p, d, f, o, g, u, w)
    BY <1>2, StreamIs
  <1>5. (IF Yes THEN ps ELSE Ended(ps)) = ps
    BY DEF Yes
  <1>6. /\ Len(Rest(ps)) > Cap => st = Reported(told, Yes, Nothing, Yes, Yes, No)
        /\ ~ (Len(Rest(ps)) > Cap) =>
             st = Reported(told, Yes, Nothing, No, told.diagnostic \/ No, told.whole /\ Yes)
    BY <1>5, OfLinesIs, ZenonT(30)
  <1>. HIDE DEF ps, told, st
  <1>7. CASE Len(Rest(ps)) > Cap
    <2>1. st = Made(Nothing, Yes, Yes, o, Yes, u, No)
      BY <1>4, <1>6, <1>7, MadeReported
    <2>2. told.diagnostic
      BY <1>2, <1>3, <1>7 DEF Sums, Readable
    <2>3. st.diagnostic = Yes /\ st.whole = No /\ st.finished = Yes /\ st.usage = told.usage
          /\ st.ended = told.ended /\ st.failure = told.failure /\ st.stop = told.stop
          /\ st.text = told.text /\ st.awaited = told.awaited
      BY <1>4, <2>1, MadeHas
    <2>4. st.diagnostic /\ ~st.whole
      BY <2>3 DEF Yes, No
    <2>. QED BY <2>2, <2>3, <2>4 DEF HasAnswer, st, told, ps
  <1>8. CASE ~ (Len(Rest(ps)) > Cap)
    <2>1. told.diagnostic = g /\ told.whole = w
      BY <1>4, MadeHas
    <2>2. (told.diagnostic \/ No) = g /\ (told.whole /\ Yes) = w
      BY <2>1, SameBoolean
    <2>3. st = Reported(told, Yes, Nothing, No, g, w)
      BY <1>6, <1>8, <2>2, Zenon
    <2>4. st = Made(Nothing, No, Yes, o, g, u, w)
      BY <1>4, <2>3, MadeReported
    <2>5. st.diagnostic = told.diagnostic /\ st.whole = told.whole /\ st.finished = Yes
          /\ st.usage = told.usage
          /\ st.ended = told.ended /\ st.failure = told.failure /\ st.stop = told.stop
          /\ st.text = told.text /\ st.awaited = told.awaited
      BY <1>4, <2>4, MadeHas
    <2>. QED BY <2>5 DEF HasAnswer, st, told, ps
  <1>. QED BY <1>7, <1>8

(* What the parse of a whole output says.                                   *)
LEMMA PiOutcomeIs ==
  ASSUME NEW text \in Seq(Units), NEW p, NEW st, st = OfLines(text, Yes)
  PROVE  PiOutcome(st, p) = "none"
           <=> ~p.timedOut /\ ~p.exception /\ p.exit = 0 /\ Settled(text)
  <1>. DEFINE told == TellAll(Fresh, Pieces(text))
  <1>1. Settled(text) <=> ~told.diagnostic /\ HasAnswer(told) /\ told.ended
    BY SettledIs
  <1>2. /\ st.finished = Yes /\ st.ended = told.ended /\ (HasAnswer(st) <=> HasAnswer(told))
        /\ (st.diagnostic <=> told.diagnostic)
    BY EndOfLines
  <1>. HIDE DEF told
  <1>3. Settled(text) <=> ~st.diagnostic /\ HasAnswer(st) /\ st.ended
    BY <1>1, <1>2
  <1>4. st.finished
    BY <1>2 DEF Yes
  <1>. QED BY <1>3, <1>4 DEF PiOutcome, HasAnswer

-----------------------------------------------------------------------------
(* What is kept, and what the processes of a call do.                       *)

LEMMA FirstOfIs ==
  ASSUME NEW text \in Seq(Units), NEW n \in Nat
  PROVE  /\ FirstOf(text, n) \in Seq(Units)
         /\ Len(FirstOf(text, n)) = IF Len(text) > n THEN n ELSE Len(text)
         /\ ~ (Len(text) > n) => FirstOf(text, n) = text
  BY DEF FirstOf

LEMMA LastOfIs ==
  ASSUME NEW text \in Seq(Units), NEW n \in Nat
  PROVE  /\ LastOf(text, n) \in Seq(Units) /\ Len(LastOf(text, n)) <= n
         /\ \E i \in 0..Len(text) :
              /\ LastOf(text, n) = SubSeq(text, i + 1, Len(text))
              /\ Len(LastOf(text, n)) = Len(text) - i
  <1>. DEFINE i == IF Len(text) > n THEN Len(text) - n ELSE 0
  <1>1. i \in 0..Len(text) /\ Len(text) - i <= n /\ Len(text) \in Nat
    OBVIOUS
  <1>2. (IF Len(text) > n THEN Len(text) - n + 1 ELSE 1) = i + 1
    OBVIOUS
  <1>3. LastOf(text, n) = SubSeq(text, i + 1, Len(text))
    BY <1>2, Zenon DEF LastOf
  <1>. HIDE DEF i
  <1>4. /\ SubSeq(text, i + 1, Len(text)) \in Seq(Units)
        /\ Len(SubSeq(text, i + 1, Len(text))) = Len(text) - i
    BY <1>1
  <1>. QED BY <1>1, <1>3, <1>4

LEMMA FeedIs ==
  ASSUME NEW st \in Reading, NEW chunk
  PROVE  Feed(st, chunk) = Feeds(st, chunk)
  <1>1. ~st.finished
    BY DEF Reading
  <1>. QED BY <1>1, Zenon DEF Feed, Feeds, ReadAll

LEMMA AtEndKeeps ==
  ASSUME NEW st \in Streams
  PROVE  AtEnd(st) \in Streams
  <1>1. ASSUME NEW x \in Streams PROVE Closed(x, Yes, Nothing) \in Streams
    <2>1. PICK p \in Seq(Units), d \in BOOLEAN, f \in BOOLEAN, o \in Outcomes, g \in BOOLEAN,
               u \in 0..MaxUsage, w \in BOOLEAN : x = Made(p, d, f, o, g, u, w)
      BY StreamIs
    <2>2. Closed(x, Yes, Nothing) = Made(Nothing, d, Yes, o, g, u, w)
      BY <2>1, MadeClosed
    <2>3. Nothing \in Seq(Units) /\ Yes \in BOOLEAN
      BY DEF Nothing, Yes
    <2>. QED BY <2>2, <2>3, MadeIsStream
  <1>2. Record(st, st.pending) \in Streams
    BY RecordIs
  <1>. QED BY <1>1, <1>2, AtEndIs

(* The line that a tail starts in is dropped.                               *)
LEMMA TailFromLineIs ==
  ASSUME kept \in Seq(Units)
  PROVE  /\ TailFromLine \in Seq(Units) /\ Len(TailFromLine) <= Len(kept)
         /\ \/ TailFromLine = <<>>
            \/ \E i \in 1..Len(kept) :
                 kept[i] = Newline /\ TailFromLine = SubSeq(kept, i + 1, Len(kept))
  <1>1. CASE ~ \E i \in DOMAIN kept : kept[i] = Newline
    <2>1. TailFromLine = <<>>
      BY <1>1 DEF TailFromLine
    <2>. QED BY <2>1
  <1>2. CASE \E i \in DOMAIN kept : kept[i] = Newline
    <2>. DEFINE N == {i \in Nat : i \in DOMAIN kept /\ kept[i] = Newline}
                first(i) == kept[i] = Newline /\ \A j \in 1..(i - 1) : kept[j] # Newline
                c == CHOOSE i \in DOMAIN kept : first(i)
    <2>1. N # {} /\ DOMAIN kept = 1..Len(kept)
      BY <1>2
    <2>2. PICK n \in N : \A m \in N : n <= m
      BY <2>1, Splits!LeastNumber
    <2>3. n \in DOMAIN kept /\ first(n)
      <3>1. \A j \in 1..(n - 1) : kept[j] # Newline
        BY <2>1, <2>2
      <3>. QED BY <2>2, <3>1
    <2>. HIDE DEF N, first
    <2>4. c \in DOMAIN kept /\ first(c)
      BY <2>3
    <2>5. TailFromLine = SubSeq(kept, 1 + c, Len(kept))
      BY <1>2, Zenon DEF TailFromLine, first
    <2>. HIDE DEF c
    <2>6. c \in 1..Len(kept) /\ kept[c] = Newline /\ 1 + c = c + 1
      BY <2>1, <2>4 DEF first
    <2>. QED BY <2>5, <2>6
  <1>. QED BY <1>1, <1>2

Lives == {"unborn", "alive", "dying", "gone"}

(* The processes of a call, taken together: they write, only while they are *)
(* watched, and none comes back.                                            *)
RunsOn ==
  /\ \E t \in Seq(Units) : output' = output \o t /\ (t = <<>> \/ Watched)
  /\ steps' \in 0..MaxSteps
  /\ life' \in [Family -> Lives] /\ Open
  /\ \A p \in Family : life[p] = "gone" => life'[p] = "gone"
  /\ \/ code' = code /\ (life'["child"] = "gone" <=> life["child"] = "gone")
     \/ code = -1 /\ code' \in {-9, 0, 1} /\ life'["child"] = "gone"
  /\ UNCHANGED <<caller, at, drained, errors, parent, faults>>

WorldOK ==
  /\ caller \in Callers /\ life \in [Family -> Lives] /\ output \in Seq(Units)
  /\ code \in {-9, -1, 0, 1} /\ (code # -1 <=> life["child"] = "gone")
  /\ steps \in 0..MaxSteps

LEMMA WrittenAre ==
  ASSUME WorldOK, NEW p \in Family
  PROVE  /\ Written(p) \subseteq Kinds
         /\ Written(p) # {} => Watched /\ steps + 1 \in 0..MaxSteps
  <1>1. Said[caller][p] \subseteq Kinds
    BY CallAssumption DEF WorldOK
  <1>2. steps \in 0..MaxSteps /\ MaxSteps \in Nat
    BY CallAssumption DEF WorldOK
  <1>. QED BY <1>1, <1>2 DEF Written

LEMMA TailsAre ==
  ASSUME WorldOK, NEW p \in Family, NEW t \in Tails(p)
  PROVE  t \in Seq(Units) /\ (t = <<>> \/ (Watched /\ steps + 1 \in 0..MaxSteps))
  <1>1. CASE t = <<>>
    BY <1>1
  <1>2. CASE t # <<>>
    <2>1. PICK k \in Written(p) : \E n \in 1..Size[k] : t = SubSeq(Whole(k), 1, n)
      BY <1>2 DEF Tails
    <2>2. k \in Kinds /\ Watched /\ steps + 1 \in 0..MaxSteps
      BY <2>1, WrittenAre
    <2>3. Whole(k) \in Seq(Units) /\ Len(Whole(k)) = Size[k] /\ Size[k] \in Nat
      BY <2>2, UnitsAre, StreamAssumption
    <2>4. PICK n \in 1..Size[k] : t = SubSeq(Whole(k), 1, n)
      BY <2>1
    <2>5. t \in Seq(Units)
      BY <2>3, <2>4
    <2>. QED BY <2>2, <2>5
  <1>. QED BY <1>1, <1>2

LEMMA GoneRunsOn ==
  ASSUME WorldOK, NEW p \in Family, NEW how \in {-9, 0, 1}, Living(p), Gone(p, how)
  PROVE  RunsOn
  <1>1. PICK t \in Tails(p) : output' = output \o t
                              /\ steps' = IF t = <<>> THEN steps ELSE steps + 1
    BY DEF Gone
  <1>2. t \in Seq(Units) /\ (t = <<>> \/ (Watched /\ steps + 1 \in 0..MaxSteps))
    BY TailsAre
  <1>3. steps' \in 0..MaxSteps
    BY <1>1, <1>2 DEF WorldOK
  <1>4. Open
    BY DEF Open
  <1>5. /\ life' = [life EXCEPT ![p] = "gone"] /\ life \in [Family -> Lives]
        /\ code' = (IF p = "child" THEN how ELSE code)
        /\ (code # -1 <=> life["child"] = "gone") /\ code \in {-9, -1, 0, 1}
    BY DEF Gone, WorldOK
  <1>6. life' \in [Family -> Lives] /\ \A q \in Family : life[q] = "gone" => life'[q] = "gone"
    BY <1>5 DEF Lives
  <1>7. \/ code' = code /\ (life'["child"] = "gone" <=> life["child"] = "gone")
        \/ code = -1 /\ code' \in {-9, 0, 1} /\ life'["child"] = "gone"
    <2>1. CASE p = "child"
      BY <1>5, <2>1 DEF Living, Family
    <2>2. CASE p # "child"
      BY <1>5, <2>2 DEF Family
    <2>. QED BY <2>1, <2>2
  <1>8. UNCHANGED <<caller, at, drained, errors, parent, faults>>
    BY DEF Gone
  <1>9. \E x \in Seq(Units) : output' = output \o x /\ (x = <<>> \/ Watched)
    BY <1>1, <1>2
  <1>. QED BY <1>3, <1>4, <1>6, <1>7, <1>8, <1>9 DEF RunsOn

LEMMA RunningRunsOn ==
  ASSUME WorldOK, Running
  PROVE  RunsOn
  <1>1. PICK p \in Family : Speak(p) \/ Leave(p) \/ Die(p) \/ (p # "child" /\ Fork(p))
    BY DEF Running
  <1>2. CASE Speak(p)
    <2>1. PICK k \in Written(p) : output' = output \o Whole(k) \o <<Newline>>
      BY <1>2 DEF Speak
    <2>2. k \in Kinds /\ Watched /\ steps + 1 \in 0..MaxSteps
      BY <2>1, WrittenAre
    <2>3. /\ Whole(k) \o <<Newline>> \in Seq(Units)
          /\ output \o Whole(k) \o <<Newline>> = output \o (Whole(k) \o <<Newline>>)
      <3>1. Whole(k) \in Seq(Units) /\ Newline \in Units /\ output \in Seq(Units)
        BY <2>2, UnitsAre DEF WorldOK
      <3>2. ASSUME NEW a \in Seq(Units), NEW b \in Seq(Units), NEW u \in Units
            PROVE  b \o <<u>> \in Seq(Units) /\ a \o b \o <<u>> = a \o (b \o <<u>>)
        OBVIOUS
      <3>. QED BY <3>1, <3>2
    <2>4. \E x \in Seq(Units) : output' = output \o x /\ (x = <<>> \/ Watched)
      BY <2>1, <2>2, <2>3
    <2>5. /\ steps' \in 0..MaxSteps /\ Open
          /\ UNCHANGED <<caller, at, life, code, drained, errors, parent, faults>>
      BY <1>2, <2>2 DEF Speak, Open, Living
    <2>. QED BY <2>4, <2>5 DEF RunsOn, WorldOK
  <1>3. CASE Leave(p)
    <2>1. Living(p) /\ \E how \in {-9, 0, 1} : Gone(p, how)
      BY <1>3 DEF Leave, Living
    <2>. QED BY <2>1, GoneRunsOn
  <1>4. CASE Die(p)
    <2>1. Living(p) /\ Gone(p, -9)
      BY <1>4 DEF Die, Living
    <2>. QED BY <2>1, GoneRunsOn
  <1>5. CASE p # "child" /\ Fork(p)
    <2>1. Open
      BY <1>5 DEF Fork, Open, Living, Family
    <2>2. /\ life' = [life EXCEPT ![p] = "alive"] /\ life[p] = "unborn"
          /\ life \in [Family -> Lives]
      BY <1>5 DEF Fork, WorldOK
    <2>3. /\ life' \in [Family -> Lives]
          /\ \A q \in Family : life[q] = "gone" => life'[q] = "gone"
          /\ life'["child"] = life["child"]
      BY <1>5, <2>2 DEF Lives, Family
    <2>4. steps' \in 0..MaxSteps
      BY <1>5, CallAssumption DEF Fork, WorldOK
    <2>5. output' = output \o <<>> /\ <<>> \in Seq(Units)
      BY <1>5 DEF Fork, WorldOK
    <2>6. code' = code /\ UNCHANGED <<caller, at, drained, errors, parent, faults>>
      BY <1>5 DEF Fork
    <2>7. \E x \in Seq(Units) : output' = output \o x /\ (x = <<>> \/ Watched)
      BY <2>5
    <2>. QED BY <2>1, <2>3, <2>4, <2>6, <2>7 DEF RunsOn
  <1>. QED BY <1>1, <1>2, <1>3, <1>4, <1>5

-----------------------------------------------------------------------------
(* Types. *)

DrainOK ==
  /\ taken \in 0..Len(output)
  /\ thread \in {"none", "reading", "ended", "failed"}
  /\ stream \in Streams /\ (thread # "ended" => stream \in Reading)
  /\ kept \in Seq(Units)
  /\ Len(kept) <= IF caller = "suite" THEN TailLimit ELSE KeepCap
  /\ deaf \in BOOLEAN /\ cut \in BOOLEAN

Statuses == {"none", "completed", "failed", "timed_out", "unresolved"}
Classes  == {"none", "timeout", "transport", "capacity", "output"}
Usages   == {"unknown", "partial", "complete"}

CallOK ==
  /\ at \in {"launching", "waiting", "reaping", "joining", "answering", "returned"}
  /\ errors \in BOOLEAN /\ timedOut \in BOOLEAN /\ faults \in 0..MaxFaults
  /\ exit \in {-1, code}
  /\ process \in [exit : {-1, exit}, timedOut : BOOLEAN, exception : BOOLEAN,
                  truncated : BOOLEAN]
  /\ answer \in [status : Statuses, class : Classes, usage : Usages]

AllOK == WorldOK /\ DrainOK /\ CallOK

-----------------------------------------------------------------------------
(* The inductive invariant.  What the drain holds is of the output that has *)
(* been taken, until the thread has ended and of all of it then; the        *)
(* process that is answered from has been joined; and what went wrong has   *)
(* been noted.                                                              *)

Fed == Feeds(Fresh, SubSeq(output, 1, taken))

StreamIsFed ==
  (caller = "pi" /\ ~deaf) => stream = IF thread = "ended" THEN AtEnd(Fed) ELSE Fed

SeatKeeps ==
  caller # "suite" =>
    /\ kept = SubSeq(output, 1, IF taken > KeepCap THEN KeepCap ELSE taken)
    /\ cut <=> taken > KeepCap

SuiteKeeps ==
  (caller = "suite" /\ thread # "ended") =>
    \E i \in 0..taken : kept = SubSeq(output, i + 1, taken) /\ (i # 0 => cut)

DrainEnds == thread = "ended" => taken = Len(output) /\ ~Open

\* Nothing has run.
Unborn ==
  thread = "none" =>
    /\ life = [p \in Family |-> "unborn"] /\ output = <<>> /\ taken = 0 /\ stream = Fresh
    /\ at \in {"joining", "answering"} => errors
    /\ at \notin {"waiting", "reaping"}

Launching == at = "launching" => thread = "none"

Noted ==
  /\ deaf \/ thread = "failed" => errors
  /\ errors => faults > 0

Reaped ==
  (at \in {"joining", "answering", "returned"} /\ faults = 0) =>
    exit = code /\ life["child"] = "gone"

Refused ==
  /\ answer = [status |-> "failed", class |-> "output", usage |-> "unknown"]
  /\ at = "returned" /\ thread = "none" /\ faults > 0

Joined ==
  /\ process.exit = exit /\ process.timedOut = timedOut
  /\ ~process.exception => thread = "ended" /\ ~errors /\ process.truncated = cut

AnswerOf ==
  CASE caller = "suite"  -> SuiteAnswer
    [] caller = "pi"     -> LET class == PiOutcome(stream, process)
                            IN SeatAnswer(class, PiUsage(stream, class))
    [] caller = "claude" -> LET class == ClaudeOutcome(kept, process)
                            IN SeatAnswer(class, ClaudeUsage(kept, class))

Answered ==
  /\ at # "returned" => answer = NoAnswer
  /\ at = "answering" => Joined
  /\ at = "returned" => Refused \/ (Joined /\ answer = AnswerOf)

Inv ==
  /\ StreamIsFed /\ SeatKeeps /\ SuiteKeeps /\ TailIsWholeLines /\ DrainEnds /\ Unborn
  /\ Launching /\ Noted /\ Reaped /\ Answered

LEMMA TypesAre ==
  ASSUME AllOK
  PROVE  TypeOK
  BY DEF AllOK, WorldOK, DrainOK, CallOK, TypeOK, Lives, Statuses, Classes, Usages

LEMMA ChunkIs ==
  ASSUME NEW s \in Seq(Units), NEW m \in 0..Len(s), NEW n \in 1..(Len(s) - m)
  PROVE  /\ SubSeq(s, m + 1, m + n) \in Seq(Units) /\ Len(SubSeq(s, m + 1, m + n)) = n
         /\ SubSeq(s, 1, m) \o SubSeq(s, m + 1, m + n) = SubSeq(s, 1, m + n)
         /\ SubSeq(s, 1, m) \in Seq(Units) /\ Len(SubSeq(s, 1, m)) = m
         /\ m + n \in 0..Len(s) /\ m \in Nat /\ n \in Nat
  OBVIOUS

LEMMA WrittenOn ==
  ASSUME NEW s \in Seq(Units), NEW t \in Seq(Units)
  PROVE  /\ s \o t \in Seq(Units) /\ Len(s \o t) = Len(s) + Len(t)
         /\ \A i, n \in 0..Len(s) : SubSeq(s \o t, i + 1, n) = SubSeq(s, i + 1, n)
         /\ s \o <<>> = s
  <1>1. /\ s \o t \in Seq(Units) /\ Len(s \o t) = Len(s) + Len(t)
        /\ Len(s) \in Nat /\ Len(t) \in Nat /\ s \o <<>> = s
    OBVIOUS
  <1>2. ASSUME NEW i \in 0..Len(s), NEW n \in 0..Len(s)
        PROVE  SubSeq(s \o t, i + 1, n) = SubSeq(s, i + 1, n)
    OBVIOUS
  <1>. QED BY <1>1, <1>2

(* A thread that reads: what it keeps, and what its stream does.            *)
LEMMA ReadIs ==
  ASSUME AllOK, Read
  PROVE  \E n \in 1..(Len(output) - taken) :
           /\ taken' = taken + n /\ thread = "reading" /\ at # "returned"
           /\ Retain(SubSeq(output, taken + 1, taken + n))
           /\ \/ stream' = (IF Consumer THEN Feeds(stream, SubSeq(output, taken + 1, taken + n))
                                        ELSE stream)
                 /\ UNCHANGED <<deaf, errors, faults>>
              \/ /\ Consumer /\ Fault /\ deaf' = TRUE /\ errors' = TRUE /\ UNCHANGED stream
           /\ UNCHANGED <<caller, at, outside, thread, parent>>
  <1>1. stream \in Reading /\ thread = "reading" /\ at # "returned"
    BY DEF Read, Watched, AllOK, DrainOK
  <1>2. \A chunk : Feed(stream, chunk) = Feeds(stream, chunk)
    BY <1>1, FeedIs
  <1>. QED BY <1>1, <1>2, Zenon DEF Read

LEMMA RetainKeeps ==
  ASSUME AllOK, NEW chunk \in Seq(Units), Retain(chunk)
  PROVE  /\ kept' \in Seq(Units) /\ cut' \in BOOLEAN
         /\ Len(kept') <= IF caller = "suite" THEN TailLimit ELSE KeepCap
  <1>1. /\ kept \in Seq(Units) /\ cut \in BOOLEAN
        /\ Len(kept) <= IF caller = "suite" THEN TailLimit ELSE KeepCap
    BY DEF AllOK, DrainOK
  <1>2. TailLimit \in Nat /\ KeepCap \in Nat /\ Len(kept) \in Nat /\ kept \o chunk \in Seq(Units)
    BY <1>1, CallAssumption, StreamAssumption
  <1>3. cut' \in BOOLEAN
    BY <1>1 DEF Retain
  <1>4. CASE caller = "suite"
    <2>1. kept' = LastOf(kept \o chunk, TailLimit)
      BY <1>4 DEF Retain
    <2>. QED BY <1>2, <1>3, <1>4, <2>1, LastOfIs
  <1>5. CASE caller # "suite"
    <2>. DEFINE first == FirstOf(chunk, KeepCap - Len(kept))
    <2>1. kept' = kept \o first
      BY <1>5 DEF Retain
    <2>2. KeepCap - Len(kept) \in Nat
      BY <1>1, <1>2, <1>5
    <2>3. first \in Seq(Units) /\ Len(first) <= KeepCap - Len(kept)
      BY <2>2, FirstOfIs
    <2>. HIDE DEF first
    <2>4. kept' \in Seq(Units) /\ Len(kept') = Len(kept) + Len(first) /\ Len(first) \in Nat
      BY <1>1, <2>1, <2>3
    <2>. QED BY <1>2, <1>3, <1>5, <2>3, <2>4
  <1>. QED BY <1>4, <1>5

LEMMA FaultIs ==
  ASSUME CallOK, Fault
  PROVE  faults' \in 0..MaxFaults /\ faults' > 0
  BY CallAssumption DEF CallOK, Fault

LEMMA AnswersAre ==
  ASSUME AllOK
  PROVE  AnswerOf \in [status : Statuses, class : Classes, usage : Usages]
  <1>1. caller \in {"pi", "claude", "suite"} /\ stream \in Streams
    BY CallAssumption DEF AllOK, WorldOK, DrainOK
  <1>2. SuiteAnswer \in [status : Statuses, class : Classes, usage : Usages]
    BY DEF SuiteAnswer, Statuses, Classes, Usages
  <1>3. ASSUME NEW class \in Classes, NEW usage \in Usages
        PROVE  SeatAnswer(class, usage) \in [status : Statuses, class : Classes, usage : Usages]
    BY DEF SeatAnswer, Statuses
  <1>4. /\ PiOutcome(stream, process) \in Classes
        /\ \A class : PiUsage(stream, class) \in Usages
    BY <1>1 DEF PiOutcome, PiUsage, Classes, Usages, Streams
  <1>5. /\ ClaudeOutcome(kept, process) \in Classes
        /\ \A class : ClaudeUsage(kept, class) \in Usages
    BY DEF ClaudeOutcome, ClaudeUsage, Classes, Usages
  <1>6. caller = "suite" => AnswerOf = SuiteAnswer
    BY DEF AnswerOf
  <1>7. caller = "pi" =>
          AnswerOf = SeatAnswer(PiOutcome(stream, process),
                                PiUsage(stream, PiOutcome(stream, process)))
    BY DEF AnswerOf
  <1>8. caller = "claude" =>
          AnswerOf = SeatAnswer(ClaudeOutcome(kept, process),
                                ClaudeUsage(kept, ClaudeOutcome(kept, process)))
    BY DEF AnswerOf
  <1>9. CASE caller = "suite"
    BY <1>2, <1>6, <1>9
  <1>10. CASE caller = "pi"
    BY <1>3, <1>4, <1>7, <1>10
  <1>11. CASE caller = "claude"
    BY <1>3, <1>5, <1>8, <1>11
  <1>. QED BY <1>1, <1>9, <1>10, <1>11

LEMMA TypesStart ==
  ASSUME Init
  PROVE  AllOK
  <1>1. Fresh \in Streams /\ Fresh \in Reading
    BY FreshIsClear DEF Clear, Reading
  <1>2. WorldOK
    BY CallAssumption DEF Init, WorldOK, Lives, Family
  <1>3. DrainOK
    <2>1. Len(<<>>) = 0 /\ <<>> \in Seq(Units)
      OBVIOUS
    <2>2. /\ taken = 0 /\ thread = "none" /\ stream = Fresh /\ kept = <<>> /\ output = <<>>
          /\ deaf = FALSE /\ cut = FALSE
      BY DEF Init
    <2>3. 0 <= (IF caller = "suite" THEN TailLimit ELSE KeepCap)
      BY CallAssumption, StreamAssumption
    <2>4. taken \in 0..Len(output) /\ kept \in Seq(Units)
          /\ Len(kept) <= IF caller = "suite" THEN TailLimit ELSE KeepCap
      BY <2>1, <2>2, <2>3
    <2>5. stream \in Streams /\ stream \in Reading
      BY <1>1, <2>2
    <2>. QED BY <2>2, <2>4, <2>5 DEF DrainOK
  <1>4. CallOK
    <2>1. process \in [exit : {-1, exit}, timedOut : BOOLEAN, exception : BOOLEAN,
                       truncated : BOOLEAN]
      BY DEF Init, NoProcess
    <2>2. answer \in [status : Statuses, class : Classes, usage : Usages]
      BY DEF Init, NoAnswer, Statuses, Classes, Usages
    <2>3. /\ at = "launching" /\ errors = FALSE /\ timedOut = FALSE /\ faults = 0 /\ exit = -1
          /\ 0 <= MaxFaults
      BY CallAssumption DEF Init
    <2>4. errors \in BOOLEAN /\ timedOut \in BOOLEAN
      BY <2>3
    <2>5. faults \in 0..MaxFaults
      BY <2>3, CallAssumption
    <2>. QED BY <2>1, <2>2, <2>3, <2>4, <2>5 DEF CallOK
  <1>. QED BY <1>2, <1>3, <1>4 DEF AllOK

LEMMA TypesRun ==
  ASSUME AllOK, RunsOn
  PROVE  AllOK'
  <1>1. WorldOK /\ DrainOK /\ CallOK
    BY DEF AllOK
  <1>2. PICK t \in Seq(Units) : output' = output \o t
    BY DEF RunsOn
  <1>3. output' \in Seq(Units) /\ Len(output') = Len(output) + Len(t) /\ Len(t) \in Nat
        /\ Len(output) \in Nat
    BY <1>1, <1>2, WrittenOn DEF WorldOK
  <1>4. WorldOK'
    BY <1>1, <1>3 DEF RunsOn, WorldOK
  <1>5. UNCHANGED <<drained, caller, at, errors, parent, faults>>
    BY DEF RunsOn
  <1>6. DrainOK'
    BY <1>1, <1>3, <1>5 DEF drained, DrainOK
  <1>7. exit' \in {-1, code'}
    BY <1>1, <1>5 DEF RunsOn, parent, CallOK
  <1>8. CallOK'
    BY <1>1, <1>5, <1>7 DEF parent, CallOK
  <1>. QED BY <1>4, <1>6, <1>8 DEF AllOK

LEMMA TypesDrain ==
  ASSUME AllOK, Draining
  PROVE  AllOK'
  <1>1. WorldOK /\ DrainOK /\ CallOK
    BY DEF AllOK
  <1>2. UNCHANGED <<caller, at, outside, parent>>
    BY DEF Draining, Read, ReadEnd, DrainFails
  <1>3. WorldOK'
    BY <1>1, <1>2 DEF outside, WorldOK
  <1>4. errors' \in BOOLEAN /\ faults' \in 0..MaxFaults
    <2>1. (errors' = errors \/ errors' = TRUE) /\ (faults' = faults \/ Fault)
      BY DEF Draining, Read, ReadEnd, DrainFails
    <2>. QED BY <1>1, <2>1, FaultIs DEF CallOK
  <1>5. CallOK'
    BY <1>1, <1>2, <1>4 DEF outside, parent, CallOK
  <1>6. CASE Read
    <2>1. PICK n \in 1..(Len(output) - taken) :
            /\ taken' = taken + n /\ thread = "reading"
            /\ Retain(SubSeq(output, taken + 1, taken + n))
            /\ \/ stream' = (IF Consumer THEN Feeds(stream, SubSeq(output, taken + 1, taken + n))
                                         ELSE stream)
                  /\ UNCHANGED <<deaf, errors, faults>>
               \/ /\ Consumer /\ Fault /\ deaf' = TRUE /\ errors' = TRUE /\ UNCHANGED stream
            /\ UNCHANGED <<caller, at, outside, thread, parent>>
      BY <1>6, ReadIs
    <2>. DEFINE chunk == SubSeq(output, taken + 1, taken + n)
    <2>2. output \in Seq(Units) /\ taken \in 0..Len(output) /\ stream \in Reading
      BY <1>1, <2>1 DEF WorldOK, DrainOK
    <2>3. chunk \in Seq(Units) /\ taken + n \in 0..Len(output)
      BY <2>2, ChunkIs
    <2>. HIDE DEF chunk
    <2>4. Retain(chunk)
      BY <2>1 DEF chunk
    <2>5. /\ kept' \in Seq(Units) /\ cut' \in BOOLEAN
          /\ Len(kept') <= IF caller = "suite" THEN TailLimit ELSE KeepCap
      BY <2>3, <2>4, RetainKeeps
    <2>6. stream' \in Reading
      <3>1. Feeds(stream, chunk) \in Reading
        BY <2>2, <2>3, FeedsKeeps
      <3>2. stream' = stream \/ stream' = Feeds(stream, chunk)
        BY <2>1, Zenon DEF chunk
      <3>. QED BY <2>2, <3>1, <3>2
    <2>7. stream' \in Streams
      BY <2>6 DEF Reading
    <2>8. deaf' \in BOOLEAN /\ thread' = thread /\ output' = output /\ caller' = caller
      BY <1>1, <2>1 DEF outside, DrainOK
    <2>9. DrainOK'
      BY <1>1, <2>1, <2>3, <2>5, <2>6, <2>7, <2>8 DEF DrainOK
    <2>. QED BY <1>3, <1>5, <2>9 DEF AllOK
  <1>7. CASE ReadEnd
    <2>1. /\ thread' = "ended" /\ output' = output /\ caller' = caller
          /\ UNCHANGED <<taken, deaf, cut>>
          /\ stream' = (IF Consumer THEN AtEnd(stream) ELSE stream)
          /\ kept' = IF caller = "suite" /\ cut THEN TailFromLine ELSE kept
      BY <1>7 DEF ReadEnd, outside
    <2>2. stream' \in Streams
      <3>1. AtEnd(stream) \in Streams /\ stream \in Streams
        BY <1>1, AtEndKeeps DEF DrainOK
      <3>. QED BY <2>1, <3>1
    <2>3. kept' \in Seq(Units) /\ Len(kept') <= IF caller = "suite" THEN TailLimit ELSE KeepCap
      <3>1. /\ kept \in Seq(Units)
            /\ Len(kept) <= IF caller = "suite" THEN TailLimit ELSE KeepCap
        BY <1>1 DEF DrainOK
      <3>2. TailFromLine \in Seq(Units) /\ Len(TailFromLine) <= Len(kept)
        BY <3>1, TailFromLineIs
      <3>. QED BY <2>1, <3>1, <3>2, CallAssumption
    <2>4. DrainOK'
      BY <1>1, <2>1, <2>2, <2>3 DEF DrainOK
    <2>. QED BY <1>3, <1>5, <2>4 DEF AllOK
  <1>8. CASE DrainFails
    <2>1. DrainOK'
      BY <1>1, <1>8 DEF DrainFails, outside, Watched, DrainOK
    <2>. QED BY <1>3, <1>5, <2>1 DEF AllOK
  <1>. QED BY <1>6, <1>7, <1>8 DEF Draining

LEMMA TypesCall ==
  ASSUME AllOK, Launching, Unborn, Calling
  PROVE  AllOK'
  <1>1. WorldOK /\ DrainOK /\ CallOK
    BY DEF AllOK
  <1>2. CASE Launch
    <2>1. WorldOK'
      <3>1. life["child"] = "unborn"
        BY <1>2 DEF Launch, Launching, Unborn, Family
      <3>2. code = -1
        BY <1>1, <3>1 DEF WorldOK
      <3>. QED BY <1>1, <1>2, <3>2 DEF Launch, WorldOK, Lives, Family
    <2>2. DrainOK'
      BY <1>1, <1>2 DEF Launch, Launching, DrainOK
    <2>3. CallOK'
      BY <1>1, <1>2 DEF Launch, parent, CallOK
    <2>. QED BY <2>1, <2>2, <2>3 DEF AllOK
  <1>3. CASE LaunchFails \/ Unprepared \/ Reap \/ ReapFails \/ Join \/ Answer
    <2>1. UNCHANGED <<caller, outside, drained>>
      BY <1>3 DEF LaunchFails, Unprepared, Reap, ReapFails, Join, Answer
    <2>2. WorldOK' /\ DrainOK'
      BY <1>1, <2>1 DEF outside, drained, WorldOK, DrainOK
    <2>3. CallOK'
      <3>1. CASE LaunchFails
        BY <1>1, <3>1, FaultIs DEF LaunchFails, outside, parent, CallOK
      <3>2. CASE Unprepared
        BY <1>1, <3>2, FaultIs DEF Unprepared, outside, CallOK, Statuses, Classes, Usages
      <3>3. CASE Reap
        BY <1>1, <3>3 DEF Reap, outside, CallOK
      <3>4. CASE ReapFails
        BY <1>1, <3>4, FaultIs DEF ReapFails, outside, parent, CallOK
      <3>5. CASE Join
        BY <1>1, <3>5 DEF Join, outside, CallOK, DrainOK, Exception
      <3>6. CASE Answer
        <4>1. answer' = AnswerOf
          BY <3>6, Zenon DEF Answer, AnswerOf
        <4>2. answer' \in [status : Statuses, class : Classes, usage : Usages]
          BY <4>1, AnswersAre
        <4>3. /\ at' = "returned"
              /\ UNCHANGED <<caller, outside, drained, errors, exit, timedOut, process, faults>>
          BY <3>6 DEF Answer
        <4>. QED BY <1>1, <4>2, <4>3 DEF outside, CallOK
      <3>. QED BY <1>3, <3>1, <3>2, <3>3, <3>4, <3>5, <3>6
    <2>. QED BY <2>2, <2>3 DEF AllOK
  <1>4. CASE WaitEnds \/ Deadline
    <2>1. Kill /\ (timedOut' = timedOut \/ timedOut' = TRUE)
      BY <1>4 DEF WaitEnds, Deadline
    <2>2. WorldOK'
      BY <1>1, <2>1 DEF Kill, WorldOK, Lives, Session, Family
    <2>3. DrainOK'
      BY <1>1, <2>1 DEF Kill, drained, DrainOK
    <2>4. CallOK'
      BY <1>1, <2>1 DEF Kill, CallOK
    <2>. QED BY <2>2, <2>3, <2>4 DEF AllOK
  <1>. QED BY <1>2, <1>3, <1>4 DEF Calling

LEMMA TypesStutter ==
  ASSUME AllOK, UNCHANGED vars
  PROVE  AllOK'
  BY DEF AllOK, WorldOK, DrainOK, CallOK, vars

-----------------------------------------------------------------------------
(* The invariant is kept.                                                   *)

LEMMA FeedsOfNone == Feeds(Fresh, <<>>) = Fresh
  BY PiecesOfNone, AllOfNone, Zenon DEF Feeds

LEMMA AnswerStays ==
  ASSUME UNCHANGED <<caller, stream, kept, process>>
  PROVE  AnswerOf' = AnswerOf
  BY DEF AnswerOf, SeatAnswer, SuiteAnswer

LEMMA InvStarts ==
  ASSUME Init
  PROVE  Inv
  <1>1. /\ at = "launching" /\ thread = "none" /\ output = <<>> /\ taken = 0 /\ stream = Fresh
        /\ kept = <<>> /\ cut = FALSE /\ deaf = FALSE /\ errors = FALSE /\ answer = NoAnswer
        /\ life = [p \in Family |-> "unborn"]
    BY DEF Init
  <1>2. SubSeq(output, 1, 0) = <<>> /\ SubSeq(output, 0 + 1, 0) = <<>>
    BY <1>1
  <1>3. StreamIsFed
    <2>1. Fed = Fresh
      BY <1>1, <1>2, FeedsOfNone, Zenon DEF Fed
    <2>. QED BY <1>1, <2>1 DEF StreamIsFed
  <1>4. SeatKeeps
    <2>1. ~ (0 > KeepCap)
      BY StreamAssumption
    <2>. QED BY <1>1, <1>2, <2>1 DEF SeatKeeps
  <1>5. SuiteKeeps
    <2>1. 0 \in 0..taken
      BY <1>1
    <2>. QED BY <1>1, <1>2, <2>1, Zenon DEF SuiteKeeps
  <1>6. /\ TailIsWholeLines /\ DrainEnds /\ Unborn /\ Launching /\ Noted /\ Reaped /\ Answered
    BY <1>1 DEF TailIsWholeLines, DrainEnds, Unborn, Launching, Noted, Reaped, Answered
  <1>. QED BY <1>3, <1>4, <1>5, <1>6 DEF Inv

LEMMA InvRuns ==
  ASSUME AllOK, Inv, RunsOn
  PROVE  Inv'
  <1>1. UNCHANGED <<caller, at, taken, thread, deaf, stream, kept, cut, errors, exit, timedOut,
                    process, answer, faults>>
    BY DEF RunsOn, drained, parent
  <1>2. PICK t \in Seq(Units) : output' = output \o t
    BY DEF RunsOn
  <1>3. output \in Seq(Units) /\ taken \in 0..Len(output) /\ 0 \in 0..Len(output)
    BY DEF AllOK, WorldOK, DrainOK
  <1>4. \A i, n \in 0..Len(output) : SubSeq(output', i + 1, n) = SubSeq(output, i + 1, n)
    BY <1>2, <1>3, WrittenOn
  <1>5. Open
    BY DEF RunsOn
  <1>6. thread # "ended" /\ thread # "none"
    <2>1. thread # "ended"
      BY <1>5 DEF Inv, DrainEnds
    <2>2. thread # "none"
      BY <1>5 DEF Inv, Unborn, Open, Living
    <2>. QED BY <2>1, <2>2
  <1>7. SubSeq(output', 1, taken) = SubSeq(output, 1, taken)
    <2>1. SubSeq(output', 0 + 1, taken) = SubSeq(output, 0 + 1, taken) /\ 0 + 1 = 1
      BY <1>3, <1>4
    <2>. QED BY <2>1, Zenon
  <1>8. StreamIsFed'
    <2>1. Fed' = Fed
      BY <1>1, <1>7, Zenon DEF Fed
    <2>. QED BY <1>1, <2>1 DEF Inv, StreamIsFed
  <1>9. SeatKeeps'
    <2>. DEFINE n == IF taken > KeepCap THEN KeepCap ELSE taken
    <2>1. n \in 0..Len(output)
      BY <1>3, StreamAssumption
    <2>2. SubSeq(output', 1, n) = SubSeq(output, 1, n)
      <3>. HIDE DEF n
      <3>1. SubSeq(output', 0 + 1, n) = SubSeq(output, 0 + 1, n) /\ 0 + 1 = 1
        BY <1>3, <1>4, <2>1
      <3>. QED BY <3>1, Zenon
    <2>. QED BY <1>1, <2>2 DEF Inv, SeatKeeps
  <1>10. SuiteKeeps'
    <2>1. SUFFICES ASSUME caller = "suite"
                   PROVE  \E i \in 0..taken : kept = SubSeq(output', i + 1, taken) /\ (i # 0 => cut)
      BY <1>1 DEF SuiteKeeps
    <2>2. PICK i \in 0..taken : kept = SubSeq(output, i + 1, taken) /\ (i # 0 => cut)
      BY <1>6, <2>1 DEF Inv, SuiteKeeps
    <2>3. i \in 0..Len(output)
      BY <1>3
    <2>4. SubSeq(output', i + 1, taken) = SubSeq(output, i + 1, taken)
      BY <1>3, <1>4, <2>3
    <2>. QED BY <2>2, <2>4
  <1>11. TailIsWholeLines' /\ DrainEnds' /\ Unborn'
    BY <1>1, <1>6 DEF TailIsWholeLines, DrainEnds, Unborn
  <1>12. Launching' /\ Noted'
    BY <1>1 DEF Inv, Launching, Noted
  <1>13. Reaped'
    BY <1>1 DEF Inv, Reaped, RunsOn, AllOK, WorldOK, Family
  <1>14. Answered'
    <2>1. AnswerOf' = AnswerOf
      BY <1>1, AnswerStays
    <2>. QED BY <1>1, <2>1 DEF Inv, Answered, Refused, Joined
  <1>. QED BY <1>8, <1>9, <1>10, <1>11, <1>12, <1>13, <1>14 DEF Inv

(* Of a seat the beginning is kept.                                         *)
LEMMA BeginningIs ==
  ASSUME NEW s \in Seq(Units), NEW m \in 0..Len(s), NEW n \in 1..(Len(s) - m), NEW c \in Nat,
         NEW k, k = SubSeq(s, 1, IF m > c THEN c ELSE m)
  PROVE  LET chunk == SubSeq(s, m + 1, m + n)
             k2    == k \o FirstOf(chunk, c - Len(k))
         IN /\ k2 = SubSeq(s, 1, IF m + n > c THEN c ELSE m + n)
            /\ (m > c \/ Len(k2) < Len(k) + Len(chunk)) <=> m + n > c
  <1>. DEFINE chunk == SubSeq(s, m + 1, m + n)
  <1>1. chunk \in Seq(Units) /\ Len(chunk) = n /\ m \in Nat /\ n \in Nat /\ m + n \in 0..Len(s)
        /\ SubSeq(s, 1, m) \o chunk = SubSeq(s, 1, m + n) /\ Len(SubSeq(s, 1, m)) = m
        /\ SubSeq(s, 1, m) \in Seq(Units)
    BY ChunkIs
  <1>2. \A i \in 1..n : chunk[i] = s[m + i]
    BY <1>1
  <1>. HIDE DEF chunk
  <1>3. CASE m > c
    <2>1. k \in Seq(Units) /\ Len(k) = c /\ k = SubSeq(s, 1, c)
      BY <1>1, <1>3
    <2>2. FirstOf(chunk, 0) \in Seq(Units) /\ Len(FirstOf(chunk, 0)) = 0
      BY <1>1, FirstOfIs
    <2>3. c - Len(k) = 0
      BY <2>1
    <2>4. k \o FirstOf(chunk, c - Len(k)) = k
      <3>1. \A e \in Seq(Units) : Len(e) = 0 => k \o e = k
        BY <2>1
      <3>. QED BY <2>2, <2>3, <3>1
    <2>5. m + n > c
      BY <1>1, <1>3
    <2>. QED BY <1>3, <2>1, <2>4, <2>5 DEF chunk
  <1>4. CASE ~ (m > c)
    <2>1. k = SubSeq(s, 1, m) /\ Len(k) = m /\ c - m \in Nat
      BY <1>1, <1>4
    <2>2. CASE m + n > c
      <3>1. Len(chunk) > c - m
        BY <1>1, <2>1, <2>2
      <3>2. FirstOf(chunk, c - Len(k)) = SubSeq(chunk, 1, c - m)
        BY <2>1, <3>1 DEF FirstOf
      <3>3. SubSeq(chunk, 1, c - m) = SubSeq(s, m + 1, c)
        BY <1>1, <1>2, <2>1, <2>2, <3>1
      <3>4. SubSeq(s, 1, m) \o SubSeq(s, m + 1, c) = SubSeq(s, 1, c) /\ Len(SubSeq(s, 1, c)) = c
        BY <1>1, <2>1, <2>2
      <3>5. k \o FirstOf(chunk, c - Len(k)) = SubSeq(s, 1, c)
        BY <2>1, <3>2, <3>3, <3>4, Zenon
      <3>6. Len(k \o FirstOf(chunk, c - Len(k))) < Len(k) + Len(chunk)
        BY <1>1, <2>1, <2>2, <3>4, <3>5
      <3>. QED BY <1>4, <2>2, <3>5, <3>6 DEF chunk
    <2>3. CASE ~ (m + n > c)
      <3>1. ~ (Len(chunk) > c - m)
        BY <1>1, <2>1, <2>3
      <3>2. FirstOf(chunk, c - m) = chunk
        BY <1>1, <2>1, <3>1, FirstOfIs
      <3>3. k \o FirstOf(chunk, c - Len(k)) = SubSeq(s, 1, m + n)
        BY <1>1, <2>1, <3>2, Zenon
      <3>4. Len(SubSeq(s, 1, m + n)) = m + n
        BY <1>1
      <3>5. ~ (Len(k \o FirstOf(chunk, c - Len(k))) < Len(k) + Len(chunk))
        BY <1>1, <2>1, <3>3, <3>4
      <3>. QED BY <1>4, <2>3, <3>3, <3>5 DEF chunk
    <2>. QED BY <2>2, <2>3
  <1>. QED BY <1>3, <1>4

(* Of a suite the end.                                                      *)
LEMMA EndingIs ==
  ASSUME NEW s \in Seq(Units), NEW i \in 0..Len(s), NEW m \in i..Len(s), NEW j \in 0..(m - i)
  PROVE  /\ SubSeq(s, i + 1, m) \in Seq(Units) /\ Len(SubSeq(s, i + 1, m)) = m - i
         /\ SubSeq(SubSeq(s, i + 1, m), j + 1, m - i) = SubSeq(s, (i + j) + 1, m)
         /\ i + j \in 0..m
         /\ \A x \in 1..(m - i) : SubSeq(s, i + 1, m)[x] = s[i + x]
  OBVIOUS

LEMMA LongerIs ==
  ASSUME NEW s \in Seq(Units), NEW i \in 0..Len(s), NEW m \in i..Len(s), NEW n \in 1..(Len(s) - m)
  PROVE  SubSeq(s, i + 1, m) \o SubSeq(s, m + 1, m + n) = SubSeq(s, i + 1, m + n)
  OBVIOUS

LEMMA StreamReads ==
  ASSUME AllOK, StreamIsFed, Read
  PROVE  StreamIsFed'
  <1>1. PICK n \in 1..(Len(output) - taken) :
          /\ taken' = taken + n /\ thread = "reading"
          /\ \/ stream' = (IF Consumer THEN Feeds(stream, SubSeq(output, taken + 1, taken + n))
                                       ELSE stream)
                /\ UNCHANGED <<deaf, errors, faults>>
             \/ /\ Consumer /\ Fault /\ deaf' = TRUE /\ errors' = TRUE /\ UNCHANGED stream
          /\ UNCHANGED <<caller, at, outside, thread, parent>>
    BY ReadIs
  <1>. DEFINE chunk  == SubSeq(output, taken + 1, taken + n)
              before == SubSeq(output, 1, taken)
  <1>2. output \in Seq(Units) /\ taken \in 0..Len(output)
    BY DEF AllOK, WorldOK, DrainOK
  <1>3. /\ chunk \in Seq(Units) /\ before \in Seq(Units)
        /\ before \o chunk = SubSeq(output, 1, taken + n)
    BY <1>2, ChunkIs
  <1>4. SUFFICES ASSUME caller = "pi", ~deaf'
                 PROVE  stream' = Fed' /\ thread' # "ended"
    BY <1>1 DEF StreamIsFed
  <1>5. Consumer /\ stream' = Feeds(stream, chunk) /\ thread' # "ended" /\ output' = output
    BY <1>1, <1>4 DEF Consumer, outside
  <1>6. stream = Fed
    BY <1>1, <1>4, <1>5 DEF StreamIsFed, Consumer
  <1>. HIDE DEF chunk, before
  <1>7. Fresh \in Reading
    BY FreshIsClear DEF Clear
  <1>8. Feeds(Fresh, before \o chunk) = Feeds(Feeds(Fresh, before), chunk)
    BY <1>3, <1>7, FeedsOfConcat
  <1>9. Fed = Feeds(Fresh, before) /\ Fed' = Feeds(Fresh, SubSeq(output, 1, taken + n))
    BY <1>1, <1>5, Zenon DEF Fed, before
  <1>10. stream' = Fed'
    BY <1>3, <1>5, <1>6, <1>8, <1>9, Zenon
  <1>. QED BY <1>5, <1>10

LEMMA SeatReads ==
  ASSUME AllOK, SeatKeeps, Read
  PROVE  SeatKeeps'
  <1>1. PICK n \in 1..(Len(output) - taken) :
          /\ taken' = taken + n
          /\ Retain(SubSeq(output, taken + 1, taken + n))
          /\ UNCHANGED <<caller, at, outside, thread, parent>>
    BY ReadIs
  <1>. DEFINE chunk == SubSeq(output, taken + 1, taken + n)
  <1>2. /\ output \in Seq(Units) /\ taken \in 0..Len(output) /\ KeepCap \in Nat
        /\ cut \in BOOLEAN
    BY StreamAssumption DEF AllOK, WorldOK, DrainOK
  <1>3. SUFFICES ASSUME caller # "suite"
                 PROVE  /\ kept' = SubSeq(output, 1, IF taken + n > KeepCap THEN KeepCap
                                                                           ELSE taken + n)
                        /\ cut' <=> taken + n > KeepCap
    BY <1>1 DEF SeatKeeps, outside
  <1>4. /\ kept = SubSeq(output, 1, IF taken > KeepCap THEN KeepCap ELSE taken)
        /\ cut <=> taken > KeepCap
    BY <1>3 DEF SeatKeeps
  <1>. DEFINE more == kept \o FirstOf(chunk, KeepCap - Len(kept))
  <1>5. kept' = more /\ cut' = (cut \/ Len(more) < Len(kept) + Len(chunk))
    BY <1>1, <1>3 DEF Retain
  <1>6. /\ more = SubSeq(output, 1, IF taken + n > KeepCap THEN KeepCap ELSE taken + n)
        /\ (taken > KeepCap \/ Len(more) < Len(kept) + Len(chunk)) <=> taken + n > KeepCap
    BY <1>2, <1>4, BeginningIs
  <1>. HIDE DEF more, chunk
  <1>. QED BY <1>4, <1>5, <1>6

LEMMA SuiteReads ==
  ASSUME AllOK, SuiteKeeps, Read
  PROVE  SuiteKeeps'
  <1>1. PICK n \in 1..(Len(output) - taken) :
          /\ taken' = taken + n /\ thread = "reading"
          /\ Retain(SubSeq(output, taken + 1, taken + n))
          /\ UNCHANGED <<caller, at, outside, thread, parent>>
    BY ReadIs
  <1>. DEFINE chunk == SubSeq(output, taken + 1, taken + n)
  <1>2. output \in Seq(Units) /\ taken \in 0..Len(output) /\ TailLimit \in Nat
        /\ cut \in BOOLEAN
    BY CallAssumption DEF AllOK, WorldOK, DrainOK
  <1>3. SUFFICES ASSUME caller = "suite"
                 PROVE  \E i \in 0..(taken + n) :
                          kept' = SubSeq(output, i + 1, taken + n) /\ (i # 0 => cut')
    BY <1>1 DEF SuiteKeeps, outside
  <1>4. PICK i \in 0..taken : kept = SubSeq(output, i + 1, taken) /\ (i # 0 => cut)
    BY <1>1, <1>3 DEF SuiteKeeps
  <1>. DEFINE both == kept \o chunk
  <1>5. kept' = LastOf(both, TailLimit) /\ cut' = (cut \/ Len(kept') < Len(kept) + Len(chunk))
    BY <1>1, <1>3 DEF Retain
  <1>6. /\ i \in 0..Len(output) /\ taken \in i..Len(output) /\ taken + n \in i..Len(output)
        /\ taken \in Nat /\ i \in Nat /\ n \in Nat
    BY <1>2
  <1>7. both = SubSeq(output, i + 1, taken + n)
    BY <1>2, <1>4, <1>6, LongerIs
  <1>8. both \in Seq(Units) /\ Len(both) = (taken + n) - i
    <2>1. /\ SubSeq(output, i + 1, taken + n) \in Seq(Units)
          /\ Len(SubSeq(output, i + 1, taken + n)) = (taken + n) - i
      <3>. DEFINE m == taken + n
      <3>1. m \in i..Len(output) /\ 0 \in 0..(m - i)
        BY <1>6
      <3>. HIDE DEF m
      <3>2. SubSeq(output, i + 1, m) \in Seq(Units) /\ Len(SubSeq(output, i + 1, m)) = m - i
        BY <1>2, <1>6, <3>1, EndingIs
      <3>. QED BY <3>2 DEF m
    <2>. QED BY <1>7, <2>1
  <1>9. Len(both) = Len(kept) + Len(chunk)
    <2>1. kept \in Seq(Units) /\ chunk \in Seq(Units)
      BY <1>2, ChunkIs DEF AllOK, DrainOK
    <2>. HIDE DEF chunk
    <2>. QED BY <2>1
  <1>. HIDE DEF chunk, both
  <1>10. PICK j \in 0..Len(both) : /\ LastOf(both, TailLimit) = SubSeq(both, j + 1, Len(both))
                                   /\ Len(LastOf(both, TailLimit)) = Len(both) - j
    BY <1>2, <1>8, LastOfIs
  <1>11. /\ SubSeq(both, j + 1, Len(both)) = SubSeq(output, (i + j) + 1, taken + n)
         /\ i + j \in 0..(taken + n)
    <2>. DEFINE m == taken + n
    <2>1. m \in i..Len(output) /\ Len(both) = m - i /\ j \in 0..(m - i)
      BY <1>6, <1>8
    <2>2. both = SubSeq(output, i + 1, m)
      BY <1>7
    <2>. HIDE DEF m
    <2>3. /\ SubSeq(SubSeq(output, i + 1, m), j + 1, m - i) = SubSeq(output, (i + j) + 1, m)
          /\ i + j \in 0..m
      BY <1>2, <1>6, <2>1, EndingIs
    <2>4. /\ SubSeq(both, j + 1, Len(both)) = SubSeq(output, (i + j) + 1, m)
          /\ i + j \in 0..m
      BY <2>1, <2>2, <2>3
    <2>. QED BY <2>4 DEF m
  <1>12. i + j # 0 => cut'
    <2>1. i # 0 => cut'
      BY <1>4, <1>5
    <2>2. j # 0 => Len(kept') < Len(kept) + Len(chunk)
      BY <1>5, <1>8, <1>9, <1>10
    <2>3. j # 0 => cut'
      BY <1>5, <2>2, Zenon
    <2>4. i + j # 0 => i # 0 \/ j # 0
      BY <1>6
    <2>. QED BY <2>1, <2>3, <2>4
  <1>. QED BY <1>5, <1>10, <1>11, <1>12

(* The thread ends at the end of the output.                                *)
LEMMA TailEnds ==
  ASSUME AllOK, SuiteKeeps, ReadEnd
  PROVE  TailIsWholeLines'
  <1>1. /\ thread = "reading" /\ taken = Len(output) /\ output' = output /\ caller' = caller
        /\ kept' = IF caller = "suite" /\ cut THEN TailFromLine ELSE kept
    BY DEF ReadEnd, Watched, outside
  <1>2. output \in Seq(Units) /\ Len(output) \in Nat /\ kept \in Seq(Units) /\ cut \in BOOLEAN
    BY DEF AllOK, WorldOK, DrainOK
  <1>3. SUFFICES ASSUME caller = "suite"
                 PROVE  \E i \in 0..Len(output) :
                          /\ kept' = SubSeq(output, i + 1, Len(output))
                          /\ i = 0 \/ output[i] = Newline \/ kept' = <<>>
    BY <1>1, Zenon DEF TailIsWholeLines
  <1>4. PICK i \in 0..taken : kept = SubSeq(output, i + 1, taken) /\ (i # 0 => cut)
    BY <1>1, <1>3 DEF SuiteKeeps
  <1>5. CASE ~cut
    <2>1. kept' = SubSeq(output, 0 + 1, Len(output)) /\ 0 \in 0..Len(output)
      BY <1>1, <1>2, <1>4, <1>5
    <2>. QED BY <2>1
  <1>6. CASE cut
    <2>1. kept' = TailFromLine
      BY <1>1, <1>3, <1>6
    <2>2. CASE TailFromLine = <<>>
      <3>1. SubSeq(output, Len(output) + 1, Len(output)) = <<>> /\ Len(output) \in 0..Len(output)
        BY <1>2
      <3>. QED BY <2>1, <2>2, <3>1
    <2>3. CASE \E j \in 1..Len(kept) :
                 kept[j] = Newline /\ TailFromLine = SubSeq(kept, j + 1, Len(kept))
      <3>1. PICK j \in 1..Len(kept) :
              kept[j] = Newline /\ TailFromLine = SubSeq(kept, j + 1, Len(kept))
        BY <2>3
      <3>. DEFINE m == Len(output)
      <3>2. i \in 0..Len(output) /\ m \in i..Len(output) /\ kept = SubSeq(output, i + 1, m)
        BY <1>1, <1>2, <1>4
      <3>3. m - i \in Nat /\ i \in Nat
        BY <3>2
      <3>. HIDE DEF m
      <3>4. 0 \in 0..(m - i)
        BY <3>3
      <3>5. Len(kept) = m - i
        BY <1>2, <3>2, <3>4, EndingIs
      <3>6. j \in 0..(m - i) /\ j \in 1..(m - i) /\ j \in Nat
        BY <3>1, <3>5
      <3>7. /\ SubSeq(SubSeq(output, i + 1, m), j + 1, m - i) = SubSeq(output, (i + j) + 1, m)
            /\ i + j \in 0..m /\ SubSeq(output, i + 1, m)[j] = output[i + j]
        BY <1>2, <3>2, <3>6, EndingIs
      <3>8. kept' = SubSeq(output, (i + j) + 1, m) /\ output[i + j] = Newline /\ i + j \in 0..m
        BY <2>1, <3>1, <3>2, <3>5, <3>7
      <3>. QED BY <3>8 DEF m
    <2>. QED BY <1>2, <2>2, <2>3, TailFromLineIs
  <1>. QED BY <1>2, <1>5, <1>6

LEMMA InvDrains ==
  ASSUME AllOK, Inv, Draining
  PROVE  Inv'
  <1>1. /\ thread = "reading" /\ at # "returned" /\ output' = output /\ life' = life
        /\ code' = code /\ UNCHANGED <<caller, at, exit, timedOut, process, answer>>
    BY DEF Draining, Read, ReadEnd, DrainFails, Watched, outside, parent
  <1>2. /\ Unborn' /\ Launching'
    <2>1. thread' # "none" /\ at # "launching"
      BY <1>1 DEF Draining, Read, ReadEnd, DrainFails, Inv, Launching
    <2>. QED BY <1>1, <2>1 DEF Unborn, Launching
  <1>3. Answered'
    BY <1>1 DEF Inv, Answered, Joined
  <1>4. Reaped'
    <2>1. faults' = 0 => faults = 0
      BY DEF Draining, Read, ReadEnd, DrainFails, Fault, AllOK, CallOK
    <2>. QED BY <1>1, <2>1 DEF Inv, Reaped
  <1>5. Noted'
    <2>1. \/ faults' = faults /\ errors' = errors /\ deaf' = deaf /\ thread' # "failed"
          \/ errors' = TRUE /\ Fault
      BY <1>1 DEF Draining, Read, ReadEnd, DrainFails
    <2>2. Fault => faults' > 0
      BY FaultIs DEF AllOK
    <2>. QED BY <2>1, <2>2 DEF Inv, Noted
  <1>6. CASE Read
    <2>1. StreamIsFed' /\ SeatKeeps' /\ SuiteKeeps'
      BY <1>6, StreamReads, SeatReads, SuiteReads DEF Inv
    <2>2. TailIsWholeLines' /\ DrainEnds'
      BY <1>1, <1>6 DEF Read, TailIsWholeLines, DrainEnds
    <2>. QED BY <1>2, <1>3, <1>4, <1>5, <2>1, <2>2 DEF Inv
  <1>7. CASE ReadEnd
    <2>1. /\ thread' = "ended" /\ taken' = taken /\ cut' = cut /\ deaf' = deaf
          /\ taken = Len(output) /\ ~Open
          /\ stream' = (IF Consumer THEN AtEnd(stream) ELSE stream)
          /\ kept' = IF caller = "suite" /\ cut THEN TailFromLine ELSE kept
      BY <1>7 DEF ReadEnd
    <2>2. StreamIsFed'
      <3>1. Fed' = Fed
        BY <1>1, <2>1, Zenon DEF Fed
      <3>. QED BY <1>1, <2>1, <3>1 DEF Inv, StreamIsFed, Consumer
    <2>3. SeatKeeps' /\ SuiteKeeps'
      BY <1>1, <2>1 DEF Inv, SeatKeeps, SuiteKeeps
    <2>4. TailIsWholeLines'
      BY <1>7, TailEnds DEF Inv
    <2>5. DrainEnds'
      BY <1>1, <2>1 DEF DrainEnds, Open, Living
    <2>. QED BY <1>2, <1>3, <1>4, <1>5, <2>2, <2>3, <2>4, <2>5 DEF Inv
  <1>8. CASE DrainFails
    <2>1. thread' # "ended" /\ UNCHANGED <<taken, deaf, stream, kept, cut>>
      BY <1>1, <1>8 DEF DrainFails
    <2>2. StreamIsFed'
      <3>1. Fed' = Fed
        BY <1>1, <2>1, Zenon DEF Fed
      <3>. QED BY <1>1, <2>1, <3>1 DEF Inv, StreamIsFed
    <2>3. SeatKeeps' /\ SuiteKeeps' /\ TailIsWholeLines' /\ DrainEnds'
      BY <1>1, <2>1 DEF Inv, SeatKeeps, SuiteKeeps, TailIsWholeLines, DrainEnds
    <2>. QED BY <1>2, <1>3, <1>4, <1>5, <2>2, <2>3 DEF Inv
  <1>. QED BY <1>6, <1>7, <1>8 DEF Draining

(* The steps of run_process and of its caller, which leave the drain alone. *)
LEMMA DrainStays ==
  ASSUME Inv, UNCHANGED <<caller, output, drained>>, life' = life \/ Kill
  PROVE  /\ StreamIsFed' /\ SeatKeeps' /\ SuiteKeeps' /\ TailIsWholeLines' /\ DrainEnds'
  <1>1. UNCHANGED <<caller, output, taken, thread, deaf, stream, kept, cut>>
    BY DEF drained
  <1>2. StreamIsFed'
    <2>1. Fed' = Fed
      BY <1>1, Zenon DEF Fed
    <2>. QED BY <1>1, <2>1 DEF Inv, StreamIsFed
  <1>3. SeatKeeps' /\ SuiteKeeps' /\ TailIsWholeLines'
    BY <1>1 DEF Inv, SeatKeeps, SuiteKeeps, TailIsWholeLines
  <1>4. ~Open => ~Open'
    BY DEF Open, Living, Kill
  <1>5. DrainEnds'
    BY <1>1, <1>4 DEF Inv, DrainEnds
  <1>. QED BY <1>2, <1>3, <1>5

LEMMA InvCalls ==
  ASSUME AllOK, Inv, Calling
  PROVE  Inv'
  <1>1. CallOK /\ DrainOK
    BY DEF AllOK
  <1>2. CASE Launch
    <2>1. /\ thread = "none" /\ thread' = "reading" /\ at = "launching" /\ at' = "waiting"
          /\ UNCHANGED <<caller, output, taken, deaf, stream, kept, cut, errors, exit, timedOut,
                         process, answer, faults>>
      BY <1>2 DEF Launch, Inv, Launching, parent
    <2>2. StreamIsFed'
      <3>1. Fed' = Fed
        BY <2>1, Zenon DEF Fed
      <3>. QED BY <2>1, <3>1 DEF Inv, StreamIsFed
    <2>3. SeatKeeps' /\ SuiteKeeps' /\ TailIsWholeLines' /\ DrainEnds'
      BY <2>1 DEF Inv, SeatKeeps, SuiteKeeps, TailIsWholeLines, DrainEnds
    <2>4. Unborn' /\ Launching' /\ Noted' /\ Reaped' /\ Answered'
      BY <2>1 DEF Inv, Unborn, Launching, Noted, Reaped, Answered
    <2>. QED BY <2>2, <2>3, <2>4 DEF Inv
  <1>3. CASE LaunchFails
    <2>1. /\ at = "launching" /\ at' = "joining" /\ errors' = TRUE /\ thread = "none"
          /\ Fault /\ UNCHANGED <<caller, outside, drained, parent>>
      BY <1>3 DEF LaunchFails, Inv, Launching
    <2>2. faults' > 0 /\ thread' = "none" /\ life' = life /\ answer' = answer
          /\ UNCHANGED <<caller, output, drained>>
      BY <1>1, <2>1, FaultIs DEF drained, outside, parent
    <2>3. StreamIsFed' /\ SeatKeeps' /\ SuiteKeeps' /\ TailIsWholeLines' /\ DrainEnds'
      BY <2>2, DrainStays
    <2>4. Unborn' /\ Launching' /\ Noted' /\ Reaped'
      BY <2>1, <2>2 DEF Inv, Unborn, Launching, Noted, Reaped, drained
    <2>5. Answered'
      BY <2>1, <2>2 DEF Inv, Answered
    <2>. QED BY <2>3, <2>4, <2>5 DEF Inv
  <1>4. CASE Unprepared
    <2>1. /\ at = "launching" /\ at' = "returned" /\ errors' = errors /\ thread = "none"
          /\ answer' = [status |-> "failed", class |-> "output", usage |-> "unknown"]
          /\ Fault /\ UNCHANGED <<caller, outside, drained, exit, timedOut, process>>
      BY <1>4 DEF Unprepared, Inv, Launching
    <2>2. faults' > 0 /\ thread' = "none" /\ life' = life /\ UNCHANGED <<caller, output, drained>>
      BY <1>1, <2>1, FaultIs DEF drained, outside
    <2>3. StreamIsFed' /\ SeatKeeps' /\ SuiteKeeps' /\ TailIsWholeLines' /\ DrainEnds'
      BY <2>2, DrainStays
    <2>4. Unborn' /\ Launching' /\ Noted' /\ Reaped'
      BY <2>1, <2>2 DEF Inv, Unborn, Launching, Noted, Reaped, drained
    <2>5. Answered'
      BY <2>1, <2>2 DEF Answered, Refused
    <2>. QED BY <2>3, <2>4, <2>5 DEF Inv
  <1>5. CASE WaitEnds \/ Deadline
    <2>1. /\ at = "waiting" /\ at' = "reaping" /\ Kill
          /\ UNCHANGED <<caller, output, drained, errors, exit, process, answer, faults>>
      BY <1>5 DEF WaitEnds, Deadline, Kill
    <2>2. thread # "none" /\ thread' = thread /\ deaf' = deaf
      BY <2>1 DEF Inv, Unborn, drained
    <2>3. StreamIsFed' /\ SeatKeeps' /\ SuiteKeeps' /\ TailIsWholeLines' /\ DrainEnds'
      BY <2>1, DrainStays
    <2>4. Unborn' /\ Launching' /\ Noted' /\ Reaped' /\ Answered'
      BY <2>1, <2>2 DEF Inv, Unborn, Launching, Noted, Reaped, Answered
    <2>. QED BY <2>3, <2>4 DEF Inv
  <1>6. CASE Reap
    <2>1. /\ at = "reaping" /\ at' = "joining" /\ life["child"] = "gone" /\ exit' = code
          /\ UNCHANGED <<caller, outside, drained, errors, timedOut, process, answer, faults>>
      BY <1>6 DEF Reap
    <2>2. /\ thread # "none" /\ thread' = thread /\ deaf' = deaf /\ life' = life /\ code' = code
          /\ UNCHANGED <<caller, output, drained>>
      BY <2>1 DEF Inv, Unborn, drained, outside
    <2>3. StreamIsFed' /\ SeatKeeps' /\ SuiteKeeps' /\ TailIsWholeLines' /\ DrainEnds'
      BY <2>2, DrainStays
    <2>4. Unborn' /\ Launching' /\ Noted' /\ Reaped' /\ Answered'
      BY <2>1, <2>2 DEF Inv, Unborn, Launching, Noted, Reaped, Answered
    <2>. QED BY <2>3, <2>4 DEF Inv
  <1>7. CASE ReapFails
    <2>1. /\ at = "reaping" /\ at' = "joining" /\ errors' = TRUE /\ Fault
          /\ UNCHANGED <<caller, outside, drained, parent>>
      BY <1>7 DEF ReapFails
    <2>2. /\ faults' > 0 /\ thread # "none" /\ thread' = thread /\ life' = life
          /\ answer' = answer /\ UNCHANGED <<caller, output, drained>>
      BY <1>1, <2>1, FaultIs DEF Inv, Unborn, drained, outside, parent
    <2>3. StreamIsFed' /\ SeatKeeps' /\ SuiteKeeps' /\ TailIsWholeLines' /\ DrainEnds'
      BY <2>2, DrainStays
    <2>4. Unborn' /\ Launching' /\ Noted' /\ Reaped' /\ Answered'
      BY <2>1, <2>2 DEF Inv, Unborn, Launching, Noted, Reaped, Answered
    <2>. QED BY <2>3, <2>4 DEF Inv
  <1>8. CASE Join
    <2>1. /\ at = "joining" /\ at' = "answering"
          /\ process' = [exit |-> exit, timedOut |-> timedOut, exception |-> Exception,
                         truncated |-> cut]
          /\ UNCHANGED <<caller, outside, drained, errors, exit, timedOut, answer, faults>>
      BY <1>8 DEF Join
    <2>2. /\ UNCHANGED <<life, code, thread, cut, deaf, stream, taken>>
          /\ UNCHANGED <<caller, output, drained>>
      BY <2>1 DEF drained, outside
    <2>3. StreamIsFed' /\ SeatKeeps' /\ SuiteKeeps' /\ TailIsWholeLines' /\ DrainEnds'
      BY <2>2, DrainStays
    <2>4. Unborn' /\ Launching' /\ Noted' /\ Reaped'
      BY <2>1, <2>2 DEF Inv, Unborn, Launching, Noted, Reaped
    <2>5. ~Exception => thread = "ended" /\ ~errors
      BY <1>1, <2>1 DEF Exception, Inv, Unborn, Noted, DrainOK
    <2>6. Joined'
      BY <2>1, <2>2, <2>5 DEF Joined
    <2>7. Answered'
      BY <2>1, <2>6 DEF Inv, Answered
    <2>. QED BY <2>3, <2>4, <2>7 DEF Inv
  <1>9. CASE Answer
    <2>1. /\ at = "answering" /\ at' = "returned" /\ answer' = AnswerOf
          /\ UNCHANGED <<caller, outside, drained, errors, exit, timedOut, process, faults>>
      BY <1>9, Zenon DEF Answer, AnswerOf
    <2>2. /\ UNCHANGED <<life, code, thread, cut, deaf, stream, kept, taken>>
          /\ UNCHANGED <<caller, output, drained>>
      BY <2>1 DEF drained, outside
    <2>3. StreamIsFed' /\ SeatKeeps' /\ SuiteKeeps' /\ TailIsWholeLines' /\ DrainEnds'
      BY <2>2, DrainStays
    <2>4. Unborn' /\ Launching' /\ Noted' /\ Reaped'
      BY <2>1, <2>2 DEF Inv, Unborn, Launching, Noted, Reaped
    <2>5. AnswerOf' = AnswerOf
      BY <2>1, <2>2, AnswerStays
    <2>6. Joined'
      BY <2>1, <2>2 DEF Inv, Answered, Joined
    <2>7. Answered'
      BY <2>1, <2>5, <2>6 DEF Answered
    <2>. QED BY <2>3, <2>4, <2>7 DEF Inv
  <1>. QED BY <1>2, <1>3, <1>4, <1>5, <1>6, <1>7, <1>8, <1>9 DEF Calling

LEMMA InvStutters ==
  ASSUME Inv, UNCHANGED vars
  PROVE  Inv'
  <1>1. UNCHANGED <<caller, at, life, code, output, taken, thread, deaf, stream, kept, cut,
                    errors, exit, timedOut, process, answer, faults>>
    BY DEF vars
  <1>2. UNCHANGED <<caller, output, drained>>
    BY <1>1 DEF drained
  <1>3. StreamIsFed' /\ SeatKeeps' /\ SuiteKeeps' /\ TailIsWholeLines' /\ DrainEnds'
    BY <1>1, <1>2, DrainStays
  <1>4. AnswerOf' = AnswerOf
    BY <1>1, AnswerStays
  <1>5. Unborn' /\ Launching' /\ Noted' /\ Reaped'
    BY <1>1 DEF Inv, Unborn, Launching, Noted, Reaped
  <1>6. Answered'
    BY <1>1, <1>4 DEF Inv, Answered, Refused, Joined
  <1>. QED BY <1>3, <1>5, <1>6 DEF Inv

LEMMA Inductive == Spec => [](AllOK /\ Inv)
  <1>1. Init => AllOK /\ Inv
    BY TypesStart, InvStarts
  <1>2. ASSUME AllOK /\ Inv, [Next]_vars PROVE (AllOK /\ Inv)'
    <2>1. AllOK /\ Inv /\ WorldOK /\ Launching /\ Unborn
      BY <1>2 DEF AllOK, Inv
    <2>2. CASE Running
      <3>1. RunsOn
        BY <2>1, <2>2, RunningRunsOn
      <3>. QED BY <2>1, <3>1, TypesRun, InvRuns
    <2>3. CASE Draining
      BY <2>1, <2>3, TypesDrain, InvDrains
    <2>4. CASE Calling
      BY <2>1, <2>4, TypesCall, InvCalls
    <2>5. CASE UNCHANGED vars
      BY <2>1, <2>5, TypesStutter, InvStutters
    <2>. QED BY <1>2, <2>2, <2>3, <2>4, <2>5 DEF Next
  <1>. QED BY <1>1, <1>2, PTL DEF Spec

-----------------------------------------------------------------------------
(* What the answers say.                                                    *)

LEMMA StreamStands ==
  ASSUME AllOK, Inv
  PROVE  StreamIsOfLines
  <1>. DEFINE text == SubSeq(output, 1, taken)
              done == thread = "ended"
  <1>1. SUFFICES ASSUME caller = "pi", ~deaf PROVE stream = OfLines(text, done)
    BY Zenon DEF StreamIsOfLines, OfLines, OfTold, TellAll
  <1>2. text \in Seq(Units)
    BY DEF AllOK, WorldOK, DrainOK
  <1>3. stream = IF done THEN AtEnd(Feeds(Fresh, text)) ELSE Feeds(Fresh, text)
    BY <1>1 DEF Inv, StreamIsFed, Fed
  <1>. HIDE DEF text
  <1>4. Feeds(Fresh, text) = OfLines(text, No) /\ AtEnd(Feeds(Fresh, text)) = OfLines(text, Yes)
    BY <1>2, FedIsOfLines
  <1>5. CASE done
    <2>1. done = Yes
      BY <1>5 DEF Yes
    <2>. HIDE DEF done
    <2>. QED BY <1>3, <1>4, <1>5, <2>1, Zenon
  <1>6. CASE ~done
    <2>1. done = No
      BY <1>6 DEF No
    <2>. HIDE DEF done
    <2>. QED BY <1>3, <1>4, <1>6, <2>1, Zenon
  <1>. QED BY <1>5, <1>6

(* A process that was joined without an exception has been read to its end. *)
LEMMA ReadWhole ==
  ASSUME AllOK, Inv, Joined, ~process.exception
  PROVE  /\ SubSeq(output, 1, taken) = output /\ output \in Seq(Units) /\ ~Open
         /\ caller = "pi" => stream = OfLines(output, Yes)
         /\ caller = "claude" => /\ process.truncated <=> Len(output) > KeepCap
                                 /\ ~ (Len(output) > KeepCap) => kept = output
  <1>1. thread = "ended" /\ ~errors /\ process.truncated = cut
    BY DEF Joined
  <1>2. taken = Len(output) /\ ~Open /\ ~deaf /\ output \in Seq(Units)
    BY <1>1 DEF Inv, DrainEnds, Noted, AllOK, WorldOK
  <1>3. SubSeq(output, 1, taken) = output
    BY <1>2
  <1>4. caller = "pi" => stream = OfLines(output, Yes)
    <2>1. caller = "pi" => stream = AtEnd(Fed)
      BY <1>1, <1>2 DEF Inv, StreamIsFed
    <2>2. Fed = Feeds(Fresh, output)
      BY <1>3, Zenon DEF Fed
    <2>3. AtEnd(Feeds(Fresh, output)) = OfLines(output, Yes)
      BY <1>2, FedIsOfLines
    <2>. QED BY <2>1, <2>2, <2>3, Zenon
  <1>5. ASSUME caller = "claude"
        PROVE  /\ process.truncated <=> Len(output) > KeepCap
               /\ ~ (Len(output) > KeepCap) => kept = output
    <2>1. /\ kept = SubSeq(output, 1, IF taken > KeepCap THEN KeepCap ELSE taken)
          /\ cut <=> taken > KeepCap
      BY <1>5 DEF Inv, SeatKeeps
    <2>2. ~ (Len(output) > KeepCap) => kept = SubSeq(output, 1, taken)
      BY <1>2, <2>1
    <2>. QED BY <1>1, <1>2, <1>3, <2>1, <2>2
  <1>. QED BY <1>2, <1>3, <1>4, <1>5

LEMMA SeatStatus ==
  ASSUME NEW class, NEW usage
  PROVE  SeatAnswer(class, usage).status = "completed" <=> class = "none"
  BY DEF SeatAnswer

(* An answer says `completed' of exactly the processes that may be.         *)
LEMMA CompletedIs ==
  ASSUME AllOK, Inv, Joined
  PROVE  AnswerOf.status = "completed"
           <=> ~process.exception /\ ~timedOut /\ exit = 0 /\ Says(caller, output)
  <1>1. process.exit = exit /\ process.timedOut = timedOut
    BY DEF Joined
  <1>2. caller \in {"pi", "claude", "suite"}
    BY CallAssumption DEF AllOK, WorldOK
  <1>3. CASE caller = "suite"
    <2>1. AnswerOf = SuiteAnswer /\ Says(caller, output)
      BY <1>3 DEF AnswerOf, Says
    <2>2. SuiteAnswer.status = "completed" <=> ~process.exception /\ ~timedOut /\ exit = 0
      BY <1>1 DEF SuiteAnswer
    <2>. QED BY <2>1, <2>2
  <1>4. CASE caller = "pi"
    <2>. DEFINE class == PiOutcome(stream, process)
    <2>1. AnswerOf = SeatAnswer(class, PiUsage(stream, class)) /\ (Says(caller, output) <=> Settled(output))
      BY <1>4 DEF AnswerOf, Says
    <2>2. class = "none" <=> ~process.exception /\ ~timedOut /\ exit = 0 /\ Settled(output)
      <3>1. CASE process.exception
        BY <3>1 DEF PiOutcome
      <3>2. CASE ~process.exception
        <4>1. stream = OfLines(output, Yes) /\ output \in Seq(Units)
          BY <1>4, <3>2, ReadWhole
        <4>2. class = "none" <=> ~process.timedOut /\ ~process.exception /\ process.exit = 0
                                 /\ Settled(output)
          BY <4>1, PiOutcomeIs
        <4>. QED BY <1>1, <4>2
      <3>. QED BY <3>1, <3>2
    <2>. HIDE DEF class
    <2>3. AnswerOf.status = "completed" <=> class = "none"
      BY <2>1, SeatStatus
    <2>. QED BY <2>1, <2>2, <2>3
  <1>5. CASE caller = "claude"
    <2>. DEFINE class == ClaudeOutcome(kept, process)
    <2>1. /\ AnswerOf = SeatAnswer(class, ClaudeUsage(kept, class))
          /\ Says(caller, output) <=> Len(output) <= KeepCap /\ Document(output) = "answer"
      BY <1>5 DEF AnswerOf, Says
    <2>2. class = "none"
            <=> /\ ~process.timedOut /\ ~process.exception /\ process.exit = 0
                /\ Document(kept) = "answer" /\ ~process.truncated
      BY DEF ClaudeOutcome, Capturable
    <2>. HIDE DEF class
    <2>3. AnswerOf.status = "completed" <=> class = "none"
      BY <2>1, SeatStatus
    <2>4. ASSUME ~process.exception
          PROVE  (Document(kept) = "answer" /\ ~process.truncated) <=> Says(caller, output)
      <3>1. /\ process.truncated <=> Len(output) > KeepCap
            /\ ~ (Len(output) > KeepCap) => kept = output
            /\ output \in Seq(Units)
        BY <1>5, <2>4, ReadWhole
      <3>2. Len(output) <= KeepCap <=> ~ (Len(output) > KeepCap)
        BY <3>1, StreamAssumption
      <3>. QED BY <2>1, <3>1, <3>2
    <2>. QED BY <1>1, <2>2, <2>3, <2>4
  <1>. QED BY <1>2, <1>3, <1>4, <1>5

LEMMA LossHasCause ==
  ASSUME AllOK, Inv
  PROVE  NothingIsLost
  <1>1. SUFFICES ASSUME at = "returned", answer.status # "completed", faults = 0, ~timedOut,
                        code = 0, ~process.exception, Says(caller, output)
                 PROVE  FALSE
    BY DEF NothingIsLost, AllOK, CallOK
  <1>2. Joined /\ answer = AnswerOf
    BY <1>1 DEF Inv, Answered, Refused
  <1>3. exit = 0
    BY <1>1 DEF Inv, Reaped
  <1>. QED BY <1>1, <1>2, <1>3, CompletedIs

LEMMA UsageStands ==
  ASSUME AllOK, Inv
  PROVE  UsageIsHonest
  <1>. DEFINE lines   == Lines(SubSeq(output, 1, taken))
              spent   == {n \in DOMAIN lines : Decoded(lines[n]) \in Counted}
              partial == {n \in DOMAIN lines : Decoded(lines[n]) \in {"helper", "bad"}}
  <1>1. SUFFICES ASSUME at = "returned", caller = "pi"
                 PROVE  /\ answer.usage = "complete" =>
                             /\ answer.status = "completed" /\ partial = {}
                             /\ stream.usage = Cardinality(spent)
                        /\ answer.usage = "unknown" => stream.usage = 0
    BY Zenon DEF UsageIsHonest
  <1>. HIDE DEF lines, spent, partial
  <1>2. CASE Refused
    <2>1. answer.usage = "unknown" /\ stream = Fresh
      BY <1>2 DEF Refused, Inv, Unborn
    <2>2. stream.usage = 0
      BY <2>1 DEF Fresh
    <2>. QED BY <2>1, <2>2
  <1>3. CASE ~Refused
    <2>. DEFINE class == PiOutcome(stream, process)
    <2>1. Joined /\ answer = AnswerOf
      BY <1>1, <1>3 DEF Inv, Answered
    <2>2. AnswerOf = SeatAnswer(class, PiUsage(stream, class))
      BY <1>1 DEF AnswerOf
    <2>3. class = "none" => ~process.exception
      BY DEF PiOutcome
    <2>. HIDE DEF class
    <2>4. /\ answer.usage = PiUsage(stream, class)
          /\ answer.status = "completed" <=> class = "none"
      BY <2>1, <2>2 DEF SeatAnswer
    <2>5. answer.usage = "unknown" => stream.usage = 0
      BY <2>4 DEF PiUsage
    <2>6. ASSUME answer.usage = "complete"
          PROVE  /\ answer.status = "completed" /\ partial = {}
                 /\ stream.usage = Cardinality(spent)
      <3>. DEFINE ps   == Pieces(output)
                  told == TellAll(Fresh, ps)
      <3>1. stream.whole /\ class = "none"
        BY <2>4, <2>6 DEF PiUsage
      <3>2. /\ stream = OfLines(output, Yes) /\ output \in Seq(Units)
            /\ SubSeq(output, 1, taken) = output
        BY <1>1, <2>1, <2>3, <3>1, ReadWhole
      <3>3. Sums(told, ps)
        BY <3>2, PiecesAreShaped, TellAllSums DEF Shaped
      <3>4. stream.usage = told.usage /\ (stream.whole => told.whole)
        BY <3>2, EndOfLines
      <3>5. /\ DOMAIN lines = DOMAIN ps
            /\ \A n \in DOMAIN ps : Decoded(lines[n]) = KindOf(ps, n)
        <4>1. lines = Lines(output)
          BY <3>2, Zenon DEF lines
        <4>. HIDE DEF lines
        <4>. QED BY <4>1 DEF Lines, KindOf
      <3>. HIDE DEF ps, told
      <3>6. told.whole
        BY <3>1, <3>4
      <3>7. /\ ~told.diagnostic /\ Fits(ps) /\ told.usage = Cardinality(CountedIn(ps))
            /\ \A n \in DOMAIN ps : KindOf(ps, n) # "helper"
        BY <3>3, <3>6 DEF Sums, Complete, Readable, Summed
      <3>8. spent = CountedIn(ps)
        BY <3>5 DEF spent, CountedIn
      <3>9. partial = {}
        BY <3>5, <3>7 DEF partial, Fits
      <3>. QED BY <2>4, <3>1, <3>4, <3>7, <3>8, <3>9
    <2>. QED BY <2>5, <2>6
  <1>. QED BY <1>2, <1>3

-----------------------------------------------------------------------------
(* The theorems. *)

(* Every variable has its type, whatever the lines and limits (run_process, *)
(* _Stream).                                                                *)
THEOREM TypesAreCorrect == Spec => []TypeOK
  <1>1. AllOK /\ Inv => TypeOK
    BY TypesAre
  <1>. QED BY <1>1, Inductive, PTL

(* However the output is split into chunks, the stream of the Pi seat is    *)
(* where one that was told whole lines would be (_Stream.feed).             *)
THEOREM StreamIsAlwaysOfLines == Spec => []StreamIsOfLines
  <1>1. AllOK /\ Inv => StreamIsOfLines
    BY StreamStands
  <1>. QED BY <1>1, Inductive, PTL

(* The tail published of a suite is made of whole lines (_drain).           *)
THEOREM TailIsAlwaysWholeLines == Spec => []TailIsWholeLines
  <1>1. AllOK /\ Inv => TailIsWholeLines
    BY DEF Inv
  <1>. QED BY <1>1, Inductive, PTL

(* A call that says so in time, of a child that exits 0, is completed       *)
(* unless an operation failed (PiSeat.run, ClaudeSeat.run, _execute).       *)
THEOREM NothingIsEverLost == Spec => []NothingIsLost
  <1>1. AllOK /\ Inv => NothingIsLost
    BY LossHasCause
  <1>. QED BY <1>1, Inductive, PTL

(* Complete usage counts every line, and no spent usage is called unknown   *)
(* (completeness, _metrics).                                                *)
THEOREM UsageIsAlwaysHonest == Spec => []UsageIsHonest
  <1>1. AllOK /\ Inv => UsageIsHonest
    BY UsageStands
  <1>. QED BY <1>1, Inductive, PTL

-----------------------------------------------------------------------------
(* A call implements the promise of a seat, as far as it says what may not  *)
(* happen; that there is an answer is liveness, and stays with TLC.         *)

Silent == UNCHANGED <<caller, output, life, timedOut, code, answer>>

LEMMA SilentSteps ==
  ASSUME Silent
  PROVE  UNCHANGED Promise!vars
  BY DEF Silent, Promise!vars, Open, Living

LEMMA PromiseRuns ==
  ASSUME AllOK, RunsOn
  PROVE  Promise!Next
  <1>1. PICK t \in Seq(Units) : output' = output \o t
    BY DEF RunsOn
  <1>2. output \in Seq(Units)
    BY DEF AllOK, WorldOK
  <1>3. IsPrefix(output, output')
    <2>1. /\ output \o t \in Seq(Units) /\ Len(output) <= Len(output \o t)
          /\ SubSeq(output \o t, 1, Len(output)) = output
      BY <1>2
    <2>. QED BY <1>1, <1>2, <2>1 DEF IsPrefix
  <1>4. Open /\ (code = -1 \/ code' = code) /\ UNCHANGED <<caller, timedOut, answer>>
    BY DEF RunsOn, parent
  <1>. QED BY <1>3, <1>4 DEF Promise!Next, Promise!Runs, Promise!IsPrefix, IsPrefix

LEMMA PromiseDecides ==
  ASSUME AllOK, Inv, Unprepared \/ Answer
  PROVE  Promise!Next
  <1>1. UNCHANGED <<caller, output, life, timedOut, code>>
    BY DEF Unprepared, Answer, outside
  <1>2. answer.status = "none"
    BY DEF Unprepared, Answer, Inv, Answered, NoAnswer
  <1>3. CASE Unprepared
    <2>1. answer'.status = "failed"
      BY <1>3 DEF Unprepared
    <2>. QED BY <1>1, <1>2, <2>1 DEF Promise!Next, Promise!Decides, Open, Living
  <1>4. CASE Answer
    <2>1. answer' = AnswerOf /\ Joined
      BY <1>4, Zenon DEF Answer, AnswerOf, Inv, Answered
    <2>2. AnswerOf.status # "none"
      <3>1. caller \in {"pi", "claude", "suite"}
        BY CallAssumption DEF AllOK, WorldOK
      <3>2. SuiteAnswer.status # "none" /\ \A class, usage : SeatAnswer(class, usage).status # "none"
        BY DEF SuiteAnswer, SeatAnswer
      <3>3. \/ AnswerOf = SuiteAnswer
            \/ \E class, usage : AnswerOf = SeatAnswer(class, usage)
        <4>1. CASE caller = "suite"
          BY <4>1 DEF AnswerOf
        <4>2. CASE caller = "pi"
          <5>1. AnswerOf = SeatAnswer(PiOutcome(stream, process),
                                      PiUsage(stream, PiOutcome(stream, process)))
            BY <4>2 DEF AnswerOf
          <5>. QED BY <5>1, Zenon
        <4>3. CASE caller = "claude"
          <5>1. AnswerOf = SeatAnswer(ClaudeOutcome(kept, process),
                                      ClaudeUsage(kept, ClaudeOutcome(kept, process)))
            BY <4>3 DEF AnswerOf
          <5>. QED BY <5>1, Zenon
        <4>. QED BY <3>1, <4>1, <4>2, <4>3
      <3>. QED BY <3>2, <3>3
    <2>3. ASSUME AnswerOf.status = "completed"
          PROVE  /\ life["child"] # "unborn" /\ ~Open /\ code = 0 /\ ~timedOut
                 /\ Says(caller, output)
      <3>1. ~process.exception /\ ~timedOut /\ exit = 0 /\ Says(caller, output)
        BY <2>1, <2>3, CompletedIs
      <3>2. ~Open
        BY <2>1, <3>1, ReadWhole
      <3>3. code = 0 /\ life["child"] = "gone"
        BY <3>1 DEF AllOK, CallOK, WorldOK
      <3>. QED BY <3>1, <3>2, <3>3
    <2>. QED BY <1>1, <1>2, <2>1, <2>2, <2>3 DEF Promise!Next, Promise!Decides, Open, Living
  <1>. QED BY <1>3, <1>4

LEMMA PromiseCalls ==
  ASSUME AllOK, Inv, Calling
  PROVE  Promise!Next \/ UNCHANGED Promise!vars
  <1>1. CASE LaunchFails \/ Reap \/ ReapFails \/ Join
    <2>1. Silent
      BY <1>1 DEF LaunchFails, Reap, ReapFails, Join, outside, parent, Silent
    <2>. QED BY <2>1, SilentSteps
  <1>2. CASE Launch
    <2>1. /\ life = [p \in Family |-> "unborn"] /\ life' = [life EXCEPT !["child"] = "alive"]
          /\ UNCHANGED <<caller, output, timedOut, code, answer>>
      BY <1>2 DEF Launch, parent, Inv, Launching, Unborn
    <2>2. life["child"] = "unborn" /\ life'["child"] = "alive" /\ "child" \in Family
      BY <2>1 DEF Family
    <2>3. Open'
      BY <2>2 DEF Open, Living
    <2>. QED BY <2>1, <2>2, <2>3 DEF Promise!vars
  <1>3. CASE Unprepared \/ Answer
    BY <1>3, PromiseDecides
  <1>4. CASE WaitEnds \/ Deadline
    <2>1. /\ at = "waiting" /\ Kill /\ (timedOut' = timedOut \/ timedOut' = TRUE)
      BY <1>4 DEF WaitEnds, Deadline
    <2>2. UNCHANGED <<caller, output, code, answer>>
      BY <2>1 DEF Kill
    <2>3. (Open' <=> Open) /\ (life'["child"] = "unborn" <=> life["child"] = "unborn")
      <3>1. life' = [p \in Family |-> IF p \in Session /\ life[p] = "alive" THEN "dying" ELSE life[p]]
        BY <2>1 DEF Kill
      <3>2. \A p \in Family : /\ life'[p] \in {"alive", "dying"} <=> life[p] \in {"alive", "dying"}
                              /\ life'[p] = "unborn" <=> life[p] = "unborn"
        BY <3>1
      <3>. QED BY <3>2 DEF Open, Living, Family
    <2>4. answer.status = "none"
      BY <2>1 DEF Inv, Answered, NoAnswer
    <2>5. (life'["child"] # "unborn" /\ ~Open') = (life["child"] # "unborn" /\ ~Open)
      BY <2>3
    <2>6. CASE timedOut' = timedOut
      BY <2>2, <2>5, <2>6 DEF Promise!vars
    <2>7. CASE timedOut' = TRUE
      BY <2>2, <2>4, <2>5, <2>7 DEF Promise!Next, Promise!Waits
    <2>. QED BY <2>1, <2>6, <2>7
  <1>. QED BY <1>1, <1>2, <1>3, <1>4 DEF Calling

(* A call answers once, and `completed' only with the whole output of       *)
(* processes that are all gone, of a child that exited 0 in time            *)
(* (run_process, _Stream.outcome): every step of it is one of the promise,  *)
(* or none.                                                                 *)
THEOREM PromiseIsSafe == Spec => Promise!Safety
  <1>1. Init => Promise!Init
    BY DEF Init, Promise!Init, NoAnswer, Open, Living, Family
  <1>2. ASSUME AllOK /\ Inv, [Next]_vars PROVE [Promise!Next]_(Promise!vars)
    <2>1. CASE Running
      <3>1. RunsOn
        BY <1>2, <2>1, RunningRunsOn DEF AllOK
      <3>. QED BY <1>2, <3>1, PromiseRuns
    <2>2. CASE Draining
      <3>1. Silent
        BY <2>2 DEF Draining, Read, ReadEnd, DrainFails, outside, parent, Silent
      <3>. QED BY <3>1, SilentSteps
    <2>3. CASE Calling
      BY <1>2, <2>3, PromiseCalls
    <2>4. CASE UNCHANGED vars
      <3>1. Silent
        BY <2>4 DEF vars, Silent
      <3>. QED BY <3>1, SilentSteps
    <2>. QED BY <1>2, <2>1, <2>2, <2>3, <2>4 DEF Next
  <1>. QED BY <1>1, <1>2, Inductive, PTL DEF Spec, Promise!Safety
=============================================================================
