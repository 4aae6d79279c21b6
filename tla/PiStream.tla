------------------------------- MODULE PiStream -------------------------------
(***************************************************************************)
(* What a seat writes on its standard output and what its adapter reads    *)
(* from it (src/src/frutlups/seats/pi.py, claude.py).  Pi writes a line of *)
(* JSON for every event; _Stream is fed with the chunks as a thread reads  *)
(* them, which split a line anywhere, and keeps one line, a few flags and  *)
(* the running usage, never the history.  Claude writes one document,      *)
(* which is read from the captured file.                                   *)
(*                                                                         *)
(* A line is told by its kind and is as many units as Size says.  Left     *)
(* out: argument lists, the texts, and the amounts of usage (each message  *)
(* that reports one counts 1).                                             *)
(***************************************************************************)
EXTENDS Integers, Sequences, FiniteSets, SequencesExt

CONSTANTS
  Size,      \* units of a line of each kind
  Cap,       \* units of the longest line read (record_cap)
  KeepCap,   \* units of the output that are captured (STREAM_CAP)
  MaxUsage   \* largest total of usage (2^63 - 1)

\* `answer` is an assistant message that stops with a text, `long` one whose
\* text is over the limit, `tooluse` one that stops for a tool, `refused` one
\* of a provider's error; `retry` says that the provider was given up, `turn`
\* that a message begins, `helper` reports a delegation with partial usage,
\* `note` is any other event and `bad` is not JSON.
Kinds == {"start", "turn", "answer", "long", "tooluse", "refused", "retry", "settled",
          "helper", "note", "bad"}

ASSUME StreamAssumption ==
  /\ Size \in [Kinds -> Nat \ {0}]
  /\ Cap \in Nat /\ KeepCap \in Nat /\ MaxUsage \in Nat

Newline  == <<"newline", 0>>
Whole(k) == [i \in 1..Size[k] |-> <<k, i>>]
Units    == {Newline} \cup UNION {{Whole(k)[i] : i \in 1..Size[k]} : k \in Kinds}

\* A part of a line, two lines in one and an empty line are not JSON.
Decoded(raw) ==
  IF \E k \in Kinds : raw = Whole(k) THEN CHOOSE k \in Kinds : raw = Whole(k) ELSE "bad"

\* The pieces of a text between its newlines; a last one without is not ended.
Unended(pieces) == pieces # <<>> /\ ~Last(pieces).ended
Ended(pieces)   == IF Unended(pieces) THEN Front(pieces) ELSE pieces
Rest(pieces)    == IF Unended(pieces) THEN Last(pieces).text ELSE <<>>

Split(pieces, u) ==
  Append(Ended(pieces),
         IF u = Newline THEN [text |-> Rest(pieces), ended |-> TRUE]
                        ELSE [text |-> Append(Rest(pieces), u), ended |-> FALSE])

Pieces(text) == FoldLeft(Split, <<>>, text)

Replies == {"answer", "long", "tooluse", "refused"}
Counted == Replies \cup {"helper"}

-----------------------------------------------------------------------------
(* The stream of a call.                                                   *)

Streams ==
  [pending : Seq(Units), discarding : BOOLEAN, finished : BOOLEAN, ended : BOOLEAN,
   awaited : BOOLEAN, stop : {"none", "stop", "toolUse", "error"}, text : BOOLEAN,
   failure : {"none", "transport", "capacity"}, diagnostic : BOOLEAN,
   usage : 0..MaxUsage, whole : BOOLEAN]

Fresh ==
  [pending |-> <<>>, discarding |-> FALSE, finished |-> FALSE, ended |-> FALSE,
   awaited |-> FALSE, stop |-> "none", text |-> FALSE, failure |-> "none",
   diagnostic |-> FALSE, usage |-> 0, whole |-> TRUE]

Error(st) == [st EXCEPT !.diagnostic = TRUE, !.whole = FALSE]

\* The last reply decides: an earlier failure of the provider is forgotten.
Heard(st, kind) ==
  [st EXCEPT
     !.ended   = IF kind \in {"start"} \cup Replies THEN FALSE ELSE @ \/ kind = "settled",
     !.awaited = IF kind \in Replies THEN FALSE ELSE @ \/ kind = "turn",
     !.failure = CASE kind = "retry" -> "transport"
                   [] kind = "refused" -> "capacity"
                   [] kind \in Replies \ {"refused"} -> "none"
                   [] OTHER -> @,
     !.stop    = CASE kind \in {"answer", "long"} -> "stop"
                   [] kind = "tooluse" -> "toolUse"
                   [] kind = "refused" -> "error"
                   [] OTHER -> @,
     !.text    = IF kind \in Replies THEN kind # "long" ELSE @]

Spent(st, kind) ==
  IF kind \notin Counted THEN st
  ELSE IF st.usage = MaxUsage THEN Error(st)
  ELSE [st EXCEPT !.usage = @ + 1, !.whole = @ /\ kind # "helper"]

Record(st, raw) ==
  LET kind == Decoded(raw)
      told == Spent(Heard(st, kind), kind)
  IN IF kind \in {"bad", "long"} THEN Error(told) ELSE told

\* A line over the cap is discarded up to its newline.
OverflowsAlone(st, text) == Len(text) > Cap
Overflows(st, text)      == Len(st.pending) + Len(text) > Cap

Gather(st, text) ==
  IF st.discarding THEN st
  ELSE IF Overflows(st, text) THEN [Error(st) EXCEPT !.pending = <<>>, !.discarding = TRUE]
  ELSE [st EXCEPT !.pending = @ \o text]

Piece(st, piece) ==
  LET got  == Gather(st, piece.text)
      read == IF got.discarding THEN got ELSE Record(got, got.pending)
  IN IF piece.ended THEN [read EXCEPT !.pending = <<>>, !.discarding = FALSE] ELSE got

Feed(st, chunk) == IF st.finished THEN st ELSE FoldLeft(Piece, st, Pieces(chunk))

\* The end of the output ends its last line too.
AtEndUnread(st) == [st EXCEPT !.finished = TRUE, !.pending = <<>>]
AtEnd(st) ==
  LET read == IF st.pending # <<>> /\ ~st.discarding THEN Record(st, st.pending) ELSE st
  IN [read EXCEPT !.finished = TRUE, !.pending = <<>>]

-----------------------------------------------------------------------------
(* What the adapters make of a finished process and its output.  A process *)
(* is [exit, timedOut, exception, truncated], exit 0, 1 or -1 for none.    *)

\* The parse of Pi's stream (_Stream.outcome): the class of failure, or "none".
PiOutcome(st, p) ==
  IF p.timedOut THEN "timeout"
  ELSE IF p.exception THEN "transport"
  ELSE IF st.failure # "none" THEN st.failure
  ELSE IF p.exit # 0 THEN "transport"
  ELSE IF st.diagnostic THEN "output"
  ELSE IF ~st.finished \/ ~st.ended \/ st.awaited THEN "output"
  ELSE IF st.stop # "stop" \/ ~st.text THEN "output"
  ELSE "none"

PiUsageSoFar(st, class) ==
  IF st.usage = 0 THEN "unknown" ELSE IF st.whole THEN "complete" ELSE "partial"

PiUsage(st, class) ==
  IF st.usage = 0 THEN "unknown"
  ELSE IF st.whole /\ class = "none" THEN "complete" ELSE "partial"

\* A captured document: JSON may end with white space, and nothing else.
Document(kept) ==
  LET text == {i \in DOMAIN kept : kept[i] # Newline}
      n    == Cardinality(text)
  IN IF text = 1..n THEN Decoded(SubSeq(kept, 1, n)) ELSE "bad"

\* Claude's document (_parse, _classify and the run of its seat).
AnyCapture(p) == TRUE
Capturable(p) == ~p.truncated

ClaudeOutcome(kept, p) ==
  LET kind == Document(kept)
  IN IF p.timedOut THEN "timeout"
     ELSE IF p.exception THEN "transport"
     ELSE IF kind \notin {"answer", "long", "refused"} THEN "output"
     ELSE IF kind = "refused" THEN "capacity"
     ELSE IF p.exit # 0 THEN "transport"
     ELSE IF kind = "long" \/ ~Capturable(p) THEN "output"
     ELSE "none"

ClaudeUsage(kept, class) ==
  IF Document(kept) \notin {"answer", "long", "refused"} THEN "unknown"
  ELSE IF class = "none" THEN "complete" ELSE "partial"

-----------------------------------------------------------------------------
(* The reference: what an output says as a whole, without a stream.        *)

Lines(output) ==
  LET pieces == Pieces(output) IN [n \in DOMAIN pieces |-> pieces[n].text]

\* Every line can be read, the last reply is a text, nothing after it begins
\* another or gives the provider up, and the agent has settled since.
Settled(output) ==
  LET lines   == Lines(output)
      kind(n) == Decoded(lines[n])
      later(n, kinds) == \E m \in DOMAIN lines : m > n /\ kind(m) \in kinds
  IN /\ \A n \in DOMAIN lines : Len(lines[n]) <= Cap /\ kind(n) \notin {"bad", "long"}
     /\ Cardinality({n \in DOMAIN lines : kind(n) \in Counted}) <= MaxUsage
     /\ \E a, s \in DOMAIN lines :
          /\ kind(a) = "answer" /\ ~later(a, Replies \cup {"turn", "retry"})
          /\ kind(s) = "settled" /\ s > a /\ ~later(s, {"start"})

\* One answer, captured whole; a test suite may print anything.
Says(caller, output) ==
  CASE caller = "pi"     -> Settled(output)
    [] caller = "claude" -> Len(output) <= KeepCap /\ Document(output) = "answer"
    [] OTHER             -> TRUE
=============================================================================
