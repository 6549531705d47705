------------------------------ MODULE ToolWire ------------------------------
(***************************************************************************)
(* The decoders of a region of Qwen tool calls: the incremental session of *)
(* a request whose output is constrained (tool_wire/engine.py,             *)
(* ProductionToolWireSession), and the decoder of complete text that       *)
(* decides which of several closes ends an argument where nothing          *)
(* constrains the output (decode_tool_wire_compatibility_region,           *)
(* tool_wire/controls/qwen.py, QwenToolRegionDecoder).                     *)
(*                                                                         *)
(* "fn" and "/fn" stand for the tags of a function the request exposes,    *)
(* "par" and "/par" for those of its one argument, whose value is any      *)
(* text: the close of an argument, of a call, or a quote may be part of    *)
(* it.  A call is represented by the value of its argument.                *)
(***************************************************************************)
EXTENDS DialectOutput
LOCAL INSTANCE SequencesExt
LOCAL INSTANCE FiniteSetsExt

ToolOpen == <<"<", "tool_call>">>
ToolClose == <<"<", "/tool_call>">>

(* _skip_structural_ws: the next place that is not white space.            *)
Skip(q, i) == Min({k \in i..Len(q) + 1 : k > Len(q) \/ q[k] \notin Spaces})

GlyphAt(q, i, g) == i <= Len(q) /\ q[i] = g

(* A quoted span of a text holds place k: it is opened before k and closed *)
(* behind it (_balanced_delimiter_contains, from place i on).              *)
Balanced(q, i, k, d) ==
    /\ Cardinality({j \in i..k - 1 : q[j] = d}) % 2 = 1
    /\ \E j \in k + 1..Len(q) : q[j] = d

Quoted(q, k) == \E d \in {"tick", "dq"} : Balanced(q, 1, k, d)

(* _qwen_has_unclosed_source_literal.                                      *)
Unclosed(q) ==
    "none" # FoldLeft(LAMBDA d, g : CASE d = "none" /\ g \in {"tick", "dq"} -> g
                                      [] d = g -> "none"
                                      [] OTHER -> d, "none", q)

-----------------------------------------------------------------------------
(* The end of an argument.                                                 *)

(* _qwen_full_close_chain_end, _full_raw_tool_close_end: place k closes    *)
(* the argument, and its function and the call close right behind.         *)
FullClose(q, k) ==
    LET f == Skip(q, k + 1)
    IN  GlyphAt(q, k, "/par") /\ GlyphAt(q, f, "/fn") /\ IsAt(q, Skip(q, f + 1), ToolClose)

(* _compatibility_raw_close_candidate.                                     *)
Accepted(q, k) == FullClose(q, k) \/ GlyphAt(q, Skip(q, k + 1), "par")

ClosesFrom(q, i) == {k \in i..Len(q) : q[k] = "/par"}

(* Under a grammar the first close ends the argument, whatever is quoted.  *)
FirstClose(q, i) ==
    IF ClosesFrom(q, i) = {} THEN [at |-> 0, issue |-> "broken"]
    ELSE [at |-> Min(ClosesFrom(q, i)), issue |-> "none"]

(* _scan_raw_until: where the argument that begins at place i ends.  A     *)
(* schema that admits every string accepts each of the full closes.        *)
ChooseClose(q, quoted, candidates) ==
    LET first == Min(candidates)
        opened == {j \in Places(q, {ToolOpen}) : j > first}
        rivals == {k \in candidates : FullClose(q, k) /\ \A j \in opened : k < j}
    IN  CASE candidates = {} -> [at |-> 0, issue |-> "broken"]
          [] candidates # {} /\ \/ \E k \in quoted : FullClose(q, k)
                                \/ FullClose(q, first) /\ Cardinality(rivals) > 1 ->
                 [at |-> 0, issue |-> "ambiguous"]
          [] OTHER -> [at |-> first, issue |-> "none"]

RawClose(q, i, compatible) ==
    LET quoted == {k \in ClosesFrom(q, i) : Balanced(q, i, k, "dq")}
    IN  IF ~compatible THEN FirstClose(q, i)
        ELSE ChooseClose(q, quoted, {k \in ClosesFrom(q, i) \ quoted :
                                        Accepted(q, k) /\ ~Balanced(q, i, k, "tick")})

(* _parse_sequence: the call at the beginning of q, and where it ends.  f  *)
(* is the place of its function, a of what is in it, which ends before     *)
(* place z.                                                                *)
Broken(issue) == [issue |-> issue, value |-> <<>>, end |-> 0]

CloseCall(q, z, value) ==
    IF ~GlyphAt(q, z, "/fn") \/ ~IsAt(q, Skip(q, z + 1), ToolClose) THEN Broken("broken")
    ELSE [issue |-> "none", end |-> Skip(q, z + 1) + Len(ToolClose) - 1, value |-> value]

CloseArgument(q, a, close) ==
    IF close.issue # "none" THEN Broken(close.issue)
    ELSE CloseCall(q, Skip(q, close.at + 1), SubSeq(q, a + 1, close.at - 1))

Body(q, a, compatible) ==
    IF GlyphAt(q, a, "par") THEN CloseArgument(q, a, RawClose(q, a + 1, compatible))
    ELSE CloseCall(q, a, <<>>)

Envelope(q, compatible) ==
    LET f == Skip(q, Skip(q, 1) + Len(ToolOpen))
    IN  IF ~IsAt(q, Skip(q, 1), ToolOpen) \/ ~GlyphAt(q, f, "fn") THEN Broken("broken")
        ELSE Body(q, Skip(q, f + 1), compatible)

(* classify_compatibility_function_opener: what stands behind an opener.   *)
Opener(q, i) ==
    LET f == Skip(q, i + Len(ToolOpen))
    IN  CASE f > Len(q) -> "incomplete" [] GlyphAt(q, f, "fn") -> "complete"
          [] OTHER -> "malformed"

-----------------------------------------------------------------------------
(* The region of calls in a complete text.                                 *)

Failed(q, issue) ==
    [complete |-> FALSE, issue |-> issue, calls |-> <<>>, remainder |-> <<>>, raw |-> q]

(* decode_tool_wire_compatibility_region, from place i behind the calls    *)
(* that are decoded.                                                       *)
RECURSIVE Region(_, _, _, _)
RegionFrom(q, i, one, calls, limit) ==
    LET end == i + one.end - 1
        next == Skip(q, end + 1)
        all == Append(calls, one.value)
        decoded == [complete |-> TRUE, issue |-> "none", calls |-> all,
                    remainder |-> From(q, end + 1), raw |-> Upto(q, end)]
    IN  IF one.issue # "none" THEN Failed(q, one.issue)
        ELSE IF ~IsAt(q, next, ToolOpen) \/ Opener(q, next) = "malformed" THEN decoded
        ELSE IF Opener(q, next) = "complete" /\ Len(all) >= limit THEN Failed(q, "broken")
        ELSE Region(q, next, all, limit)
Region(q, i, calls, limit) == RegionFrom(q, i, Envelope(From(q, i), TRUE), calls, limit)

(* _compatibility_suffix_disposition: "clean" when nothing behind the      *)
(* region, from place i on, may have belonged to it.                       *)
RECURSIVE Suffix(_, _, _)
BehindProbe(q, k, probe, rejected) ==
    IF probe.complete THEN Suffix(q, k + Len(probe.raw), rejected) ELSE "ambiguous"
SuffixAt(q, k, rejected) ==
    LET opens == {j \in Places(q, {ToolOpen}) : j > k}
    IN  IF Quoted(q, k) \/ (q[k] = "/par" /\ ~FullClose(q, k)) THEN Suffix(q, k + 1, rejected)
        ELSE IF q[k] = "/par" THEN "ambiguous"
        ELSE CASE Opener(q, k) = "incomplete" -> IF rejected THEN "broken" ELSE "ambiguous"
               [] Opener(q, k) = "malformed" ->
                      IF opens = {} THEN "clean" ELSE Suffix(q, Min(opens), TRUE)
               [] OTHER -> BehindProbe(q, k, Region(From(q, k), 1, <<>>, Len(q)), rejected)
Suffix(q, i, rejected) ==
    LET marks == {k \in i..Len(q) : q[k] = "/par" \/ IsAt(q, k, ToolOpen)}
    IN  IF marks = {} THEN "clean" ELSE SuffixAt(q, Min(marks), rejected)

(* finish() of the decoder of complete text.                               *)
Checked(q, region, suffix) ==
    IF region.complete /\ suffix # "clean" THEN Failed(q, suffix) ELSE region
DecodeFrom(q, region) == Checked(q, region, Suffix(region.remainder, 1, FALSE))
Decode(q, limit) == DecodeFrom(q, Region(q, 1, <<>>, limit))

(* probe_compatibility_finish: the calls so far can end here.              *)
CanEnd(region) ==
    region.complete /\ Strip(region.remainder) = <<>> /\ ~Unclosed(region.raw)

(* _compatibility_literal_tool_open_offsets: the openers of a remainder    *)
(* that are no openers, up to the first that is one.                       *)
LiteralOpens(q) ==
    LET opens == Places(q, {ToolOpen})
        literal(k) == Quoted(q, k) \/ Opener(q, k) = "malformed"
    IN  {k \in opens : \A j \in opens : j <= k => literal(j)}

-----------------------------------------------------------------------------
(* The incremental session.                                                *)

NewSession ==
    [state |-> "envelope", inside |-> FALSE, envelope |-> <<>>, tail |-> <<>>,
     between |-> <<>>, rest |-> <<>>, calls |-> <<>>]

(* _consume_envelope: up to the close of the call that is outside of an    *)
(* argument; what may be the beginning of a tag waits.                     *)
Token(s) == IF s.inside THEN {<<"/par">>} ELSE {<<"par">>, ToolClose}

(* Faulty variant: nothing is held back for a tag that is cut.             *)
BugHeldBack(s, source) == 0

(* _safe_prefix_length.                                                    *)
HeldBack(s, source) == Min({Len(source), IF s.inside THEN 0 ELSE Len(ToolClose) - 1})

(* _parse_completed_envelope.                                              *)
AddCall(s, one, limit) ==
    IF Len(s.calls) >= limit \/ one.issue # "none" \/ one.end # Len(s.envelope)
    THEN [s EXCEPT !.state = "error"]
    ELSE [s EXCEPT !.state = "between", !.calls = Append(@, one.value), !.envelope = <<>>]
CloseEnvelope(s, limit) == AddCall(s, Envelope(s.envelope, FALSE), limit)

(* The text q with the next tag at place at.                               *)
RECURSIVE SessionFeed(_, _, _)
InEnvelope(s, q, at, limit) ==
    LET end == at + Len(MarkerAt(q, at, Token(s))) - 1
        took == [s EXCEPT !.tail = <<>>, !.envelope = @ \o Upto(q, end)]
        safe == Len(q) - HeldBack(s, q)
    IN  IF at = 0 THEN [s EXCEPT !.envelope = @ \o Upto(q, safe), !.tail = From(q, safe + 1)]
        ELSE SessionFeed(IF IsAt(q, at, ToolClose) /\ ~s.inside THEN CloseEnvelope(took, limit)
                         ELSE [took EXCEPT !.inside = ~@], From(q, end + 1), limit)
SessionFeed(s, q, limit) ==
    LET gap == s.between \o q
        next == LStrip(gap)
    IN  CASE q = <<>> \/ s.state = "error" -> s
          [] s.state = "tail" -> [s EXCEPT !.rest = @ \o q]
          [] s.state = "envelope" -> InEnvelope(s, s.tail \o q, Find(s.tail \o q, Token(s)), limit)
          [] s.state = "between" /\ IsAt(next, 1, ToolOpen) ->
                 IF Len(s.calls) >= limit THEN [s EXCEPT !.state = "error"]
                 ELSE SessionFeed([s EXCEPT !.state = "envelope", !.between = <<>>], next, limit)
          [] s.state = "between" /\ IsPrefix(next, ToolOpen) /\ next # ToolOpen ->
                 [s EXCEPT !.between = gap]
          [] OTHER -> [s EXCEPT !.state = "tail", !.between = <<>>, !.rest = gap]

(* finish() of the session; q is all that it was fed.                      *)
SessionFinish(s, q) ==
    IF \/ s.state \in {"envelope", "error"}
       \/ s.state = "between" /\ LStrip(s.between) # <<>>
    THEN Failed(q, "broken")
    ELSE LET rest == IF s.state = "tail" THEN s.rest ELSE s.between
         IN  [complete |-> TRUE, issue |-> "none", calls |-> s.calls, remainder |-> rest,
              raw |-> Upto(q, Len(q) - Len(rest))]
=============================================================================
