----------------------------- MODULE QwenParser -----------------------------
(***************************************************************************)
(* The incremental parser of Qwen (model/qwen.py, QwenIncrementalParser).  *)
(* tracked: the runtime can tell control tokens, though not for every      *)
(* chunk; decoder: "session" for a constrained output, whose calls are     *)
(* decoded as they come, "text" otherwise; choice: what the request says   *)
(* about calls; limit: how many it may have.  region is what tool mode fed *)
(* to the decoder, held the chunks behind a barrier, staged the text that  *)
(* an ambiguous barrier became, literal the openers in the buffer that are *)
(* known to be text, cut a "<" whose provenance is unknown.                *)
(***************************************************************************)
EXTENDS QwenBoundary
LOCAL INSTANCE SequencesExt
LOCAL INSTANCE FiniteSetsExt

New(mode, tracked, decoder, choice, limit) ==
    NewParser("qwen", mode) @@
    [tracked |-> tracked, decoder |-> decoder, choice |-> choice, limit |-> limit,
     trk |-> NewTracker, region |-> <<>>, session |-> NewSession, held |-> <<>>,
     staged |-> <<>>, literal |-> {}, cut |-> FALSE, fallback |-> FALSE]

Text(q) == Spell(q, Natives)
NameOf(m) == CHOOSE n \in DOMAIN Natives : Natives[n] = m

Raised(p) == p.issue = "provenance"
Held(p) == p.trk.barrier.marker # "none"

(* _emit_content, _consume_buffer_prefix.                                  *)
Emit(p, q) == [EmitContent(p, Text(q)) EXCEPT !.trk = ObserveContent(@, Text(q))]
Consume(p, k) == [Drop(p, k) EXCEPT !.literal = {i - k : i \in {j \in @ : j > k}}]

-----------------------------------------------------------------------------
(* Tool mode.                                                              *)

FeedTool(p, q) ==
    [p EXCEPT !.region = @ \o q,
              !.session = IF p.decoder = "session"
                          THEN SessionFeed(@, Text(q), p.limit - p.calls) ELSE @]

(* _enter_tool: a constrained output needs a control token for it.         *)
EnterTool(p, verified) ==
    IF p.decoder = "session" /\ ~verified THEN Raise(p)
    ELSE FeedTool([CloseChannel(p) EXCEPT !.back = p.mode, !.mode = "tool", !.literal = {},
                                          !.region = <<>>, !.session = NewSession], ToolOpen)

(* _process_tool.                                                          *)
ProcessTool(p) == [FeedTool(p, p.buf) EXCEPT !.buf = <<>>]

(* _restore_after_tool.                                                    *)
Restore(p) == [p EXCEPT !.mode = p.back, !.region = <<>>, !.buf = <<>>, !.literal = {}]

-----------------------------------------------------------------------------
(* Text without word of its tokens: feed().                                *)

(* _process_plain, at a marker that counts.                                *)
PlainMarked(p, m) ==
    LET behind == LStrip(From(p.buf, 3))
        q == Consume(p, 2)
    IN  CASE m = ThinkOpen -> IF p.mode = "reasoning" THEN q ELSE SwitchTo(q, "reasoning")
          [] m = ThinkClose -> IF p.mode = "reasoning" THEN SwitchTo(q, "text") ELSE q
          [] m = ToolOpen /\ behind # <<>> /\ Head(behind) = "fn" -> EnterTool(q, FALSE)
          [] m = ToolOpen /\ behind \in {<<>>, <<"<">>} -> p
          [] OTHER -> Consume(Emit(p, m), 2)

EmitUpto(p, k) == Consume(Emit(p, Upto(p.buf, k)), k)

(* _process_plain, at a marker, which classify_plain_marker judges.        *)
PlainJudged(p, m, verdict) ==
    CASE verdict = "pending" -> p
      [] verdict = "literal" -> EmitUpto(p, 2)
      [] OTHER -> PlainMarked(p, m)

PlainMarker(p, m, c) ==
    IF m = ToolOpen /\ 1 \in p.literal THEN EmitUpto(p, 2)
    ELSE PlainJudged([p EXCEPT !.trk = c.tracker], m, c.verdict)

(* _process_plain, with the first marker at place at.                      *)
PlainAt(p, at, final) ==
    CASE at = 0 -> EmitUpto(p, Len(p.buf) - PartialSuffix(p.buf, PlainMarkers))
      [] at > 1 -> EmitUpto(p, at - 1)
      [] OTHER -> PlainMarker(p, MarkerAt(p.buf, 1, PlainMarkers), ClassifyPlain(p.trk, p.buf, final))

PlainStep(p, final) == PlainAt(p, Find(p.buf, PlainMarkers), final)

(* _process_plain, as long as it gets on: q is the parser after a step.    *)
RECURSIVE DrainPlain(_)
DrainOn(p, q) == IF q = p THEN p ELSE DrainPlain(q)
DrainPlain(p) ==
    IF p.mode = "tool" THEN ProcessTool(p)
    ELSE IF Raised(p) THEN p ELSE DrainOn(p, PlainStep(p, FALSE))

-----------------------------------------------------------------------------
(* Text with its control tokens.                                           *)

(* _apply_native_marker, _apply_marker_disposition.                        *)
ApplyNative(p, marker) ==
    CASE marker = "<tool_call>" -> EnterTool(p, TRUE)
      [] marker = "<think>" -> IF p.mode = "reasoning" THEN Emit(p, <<marker>>)
                               ELSE SwitchTo(p, "reasoning")
      [] marker = "</think>" -> IF p.mode = "reasoning" THEN SwitchTo(p, "text")
                                ELSE Emit(p, <<marker>>)
      [] OTHER -> p

(* Faulty variant: a marker without word of its token counts.              *)
BugApply(p, marker, verdict) ==
    CASE verdict = "pending" -> p [] verdict = "literal" -> Emit(p, <<marker>>)
      [] OTHER -> ApplyNative(p, marker)

Apply(p, marker, verdict) ==
    CASE verdict = "pending" -> p [] verdict = "literal" -> Emit(p, <<marker>>)
      [] verdict = "fail_closed" -> Raise(p) [] OTHER -> ApplyNative(p, marker)

(* _handle_marker_candidate: q is the text behind the marker.              *)
Judged(p, marker, c) == Apply([p EXCEPT !.trk = c.tracker], marker, c.verdict)
Candidate(p, marker, q, verified) ==
    Judged(p, marker, ClassifyNative(p.trk, marker, q, verified, p.mode = "reasoning"))

(* _outside_tool_literal_fallback_allowed and the commit of the fallback;  *)
(* q is the text behind the chunks that are held.                          *)
HeldText(p) == FlattenSeq([i \in DOMAIN p.held |-> Text(p.held[i].q)])
GiveUp(p, marker, q) ==
    LET all == Text(<<marker>>) \o HeldText(p) \o q
    IN  [p EXCEPT !.issue = "ambiguity", !.held = <<>>,
                  !.staged = IF p.calls = 0 /\ p.mode # "tool" /\ p.choice \notin {"required", "named"}
                             THEN all ELSE <<>>]

(* A control token became a barrier, with q behind it.                     *)
HoldBack(p, marker, q, v) ==
    IF p.trk.limit THEN GiveUp(p, marker, Text(q))
    ELSE IF q = <<>> THEN p ELSE [p EXCEPT !.held = Append(@, [q |-> q, v |-> v])]

(* _shared_remainder_replay_segments, _drain_pending_native_replay: what   *)
(* stood behind the calls is read again, control tokens as such; opens are *)
(* the places of openers that are text.                                    *)
RECURSIVE Replay(_, _, _)
Later(opens, n) == {i - n : i \in {j \in opens : j > n}}
ReplayPlain(p, q, opens) ==
    IF p.mode = "tool" THEN FeedTool(p, q)
    ELSE DrainPlain([p EXCEPT !.buf = @ \o q,
                              !.literal = @ \cup {i + Len(p.buf) : i \in opens \cap DOMAIN q}])
ReplayBehind(p, q, opens) ==
    CASE Held(p) /\ p.trk.limit -> p
      [] Held(p) /\ ~p.trk.limit -> HoldBack(p, Head(q), Tail(q), TRUE)
      [] OTHER -> Replay(p, Tail(q), Later(opens, 1))
Replay(p, q, opens) ==
    LET native == {i \in DOMAIN q : q[i] \in DOMAIN Natives}
        k == IF native = {} THEN Len(q) ELSE Min(native) - 1
    IN  CASE q = <<>> \/ Raised(p) -> p
          [] q # <<>> /\ ~Raised(p) /\ k = 0 /\ p.mode # "tool" ->
                 ReplayBehind(Candidate(p, Head(q), Text(Tail(q)), TRUE), q, opens)
          [] OTHER -> LET n == IF k = 0 THEN 1 ELSE k
                      IN  Replay(ReplayPlain(p, Upto(q, n), opens), From(q, n + 1), Later(opens, n))

RECURSIVE EmitCalls(_, _)
EmitCalls(p, calls) ==
    IF calls = <<>> THEN p ELSE EmitCalls(EmitCall(p, Head(calls)), Tail(calls))

(* _publish_shared_tool_result.                                            *)
PublishRegion(p, result) ==
    LET k == CHOOSE i \in 0..Len(p.region) :
                 Len(Text(From(p.region, i + 1))) = Len(result.remainder)
        rest == From(p.region, k + 1)
        open == IF p.decoder = "text" THEN LiteralOpens(result.remainder) ELSE {}
        opens == {i \in DOMAIN rest : Len(Text(Upto(rest, i - 1))) + 1 \in open /\ rest[i] = "<"}
        published == Restore(EmitCalls(p, result.calls))
    IN  IF \A i \in DOMAIN rest : rest[i] \notin DOMAIN Natives
        THEN [published EXCEPT !.buf = rest, !.literal = opens]
        ELSE Replay(published, rest, opens)

(* _try_finish_shared_before_verified_opener: region is what the calls so  *)
(* far come to.                                                            *)
DrainRest(p) == IF p.buf = <<>> THEN p ELSE DrainPlain(p)
FinishRegion(p, region) ==
    IF p.decoder = "text" /\ CanEnd(region) THEN DrainRest(PublishRegion(p, region)) ELSE p
TryFinish(p) == FinishRegion(p, Region(Text(p.region), 1, <<>>, p.limit - p.calls))

(* feed_with_native_tokens, a chunk whose tokens are known: glyph g, and q *)
(* behind it.                                                              *)
RECURSIVE FeedVerified(_, _)
FeedBehind(p, g, q) == IF Held(p) THEN HoldBack(p, g, q, TRUE) ELSE FeedVerified(p, q)
FeedGlyph(p, g, q) ==
    CASE p.mode = "tool" -> FeedVerified(FeedTool(p, <<g>>), q)
      [] p.mode # "tool" /\ g \notin DOMAIN Natives \ {"</tool_call>"} ->
             FeedVerified(Emit(p, <<g>>), q)
      [] OTHER -> FeedBehind(Candidate(p, g, Text(q), TRUE), g, q)
FeedVerified(p, q) ==
    IF q = <<>> \/ Raised(p) THEN p
    ELSE FeedGlyph(IF p.mode = "tool" /\ Head(q) = "<tool_call>" THEN TryFinish(p) ELSE p,
                   Head(q), Tail(q))

(* _feed_unverified_text: a marker outside of code and quotes is refused.  *)
RECURSIVE FeedUnverified(_, _)
FeedUnverified(p, q) ==
    LET at == Find(q, PlainMarkers)
        k == Len(q) - PartialSuffix(q, PlainMarkers)
        before == Emit(p, Upto(q, at - 1))
        behind == From(q, at + 2)
    IN  IF q = <<>> \/ Raised(p) THEN p
        ELSE IF p.mode = "tool" THEN FeedTool(p, q)
        ELSE IF at = 0 THEN [Emit(p, Upto(q, k)) EXCEPT !.cut = k < Len(q)]
        ELSE FeedUnverified(
                 Candidate(before, NameOf(MarkerAt(q, at, PlainMarkers)), behind, FALSE), behind)

EmitAnywhere(p, q) == IF p.mode = "tool" THEN FeedTool(p, q) ELSE Emit(p, q)

(* _resolve_pending_native_marker, _resolve_unverified_marker_prefix.      *)
ResolveQuote(p, q) ==
    IF p.trk.waiting.marker = "none" THEN p
    ELSE Apply([p EXCEPT !.trk.waiting = NoMark], p.trk.waiting.marker,
               ResolveWaiting(p.trk, Text(q)))

ResolveCut(p, q) ==
    LET joined == <<"<", Head(q)>>
        whole == [p EXCEPT !.cut = FALSE]
    IN  IF ~p.cut \/ Raised(p) THEN [p |-> p, q |-> q]
        ELSE IF joined \notin PlainMarkers THEN [p |-> EmitAnywhere(whole, <<"<">>), q |-> q]
        ELSE [p |-> IF p.mode = "tool" THEN FeedTool(whole, joined)
                    ELSE Candidate(whole, NameOf(joined), Text(Tail(q)), FALSE),
              q |-> Tail(q)]

(* _resolve_pending_inline_native_marker: a barrier meets the chunk q.  If *)
(* that closes the span, what was held is text, and the chunk is read      *)
(* from its beginning, since the barrier was cleared with the place of the *)
(* close (last_scan_consumed_characters is 0 by then).                     *)
RECURSIVE FeedNative(_, _, _), FeedAll(_, _)
BarrierMeets(p, q, v, c) ==
    LET marker == p.trk.barrier.marker
        judged == [p EXCEPT !.trk = c.tracker]
        chunk == IF q = <<>> THEN <<>> ELSE <<[q |-> q, v |-> v]>>
        freed == [judged EXCEPT !.held = <<>>]
    IN  CASE c.verdict = "literal" ->
                 FeedNative(Emit(freed, Text(<<marker>>) \o HeldText(p)), q, v)
          [] c.verdict = "structural" -> FeedAll(ApplyNative(freed, marker), p.held \o chunk)
          [] c.verdict = "ambiguous" \/ c.tracker.limit -> GiveUp(judged, marker, Text(q))
          [] OTHER -> [judged EXCEPT !.held = @ \o chunk]
ResolveBarrier(p, q, v, final) == BarrierMeets(p, q, v, Resolve(p.trk, Text(q), final))

(* feed_with_native_tokens.                                                *)
FeedRest(r, v) == IF v THEN FeedVerified(r.p, r.q) ELSE FeedUnverified(r.p, r.q)
FeedNative(p, q, v) ==
    CASE q = <<>> \/ Raised(p) -> p
      [] q # <<>> /\ ~Raised(p) /\ p.staged # <<>> -> [p EXCEPT !.staged = @ \o Text(q)]
      [] q # <<>> /\ ~Raised(p) /\ p.staged = <<>> /\ Held(p) -> ResolveBarrier(p, q, v, FALSE)
      [] OTHER -> FeedRest(ResolveCut(ResolveQuote(p, q), q), v)

FeedAll(p, chunks) ==
    IF chunks = <<>> THEN p
    ELSE FeedAll(FeedNative(p, Head(chunks).q, Head(chunks).v), Tail(chunks))

(* What the serving session calls for a chunk.                             *)
Feed(p, q, v) ==
    IF p.tracked \/ p.decoder = "session" THEN FeedNative(p, IF v THEN q ELSE Text(q), v)
    ELSE DrainPlain([p EXCEPT !.buf = @ \o Text(q)])

-----------------------------------------------------------------------------
(* The end of the output.                                                  *)

Ended(p) == Finished([CloseChannel(p) EXCEPT !.incomplete = @ /\ p.issue = "none"])

(* _tool_scope_literal_fallback_allowed.                                   *)
TextInstead(p) == p.calls = 0 /\ p.decoder = "text" /\ p.choice = "auto"

(* _finish_tool, with what the decoder makes of the region.                *)
FinishWith(p, result) ==
    LET ambiguous == [Restore(p) EXCEPT !.issue = "ambiguity", !.fallback = TextInstead(p)]
    IN  CASE result.complete -> PublishRegion(p, result)
          [] ~result.complete /\ result.issue = "ambiguous" ->
                 IF TextInstead(p) THEN Emit(ambiguous, result.raw) ELSE ambiguous
          [] OTHER -> Incomplete(Restore(p))
FinishFed(p) ==
    FinishWith(p, IF p.decoder = "session" THEN SessionFinish(p.session, Text(p.region))
                  ELSE Decode(Text(p.region), p.limit - p.calls))
FinishTool(p) == FinishFed(ProcessTool(p))

(* What is still held when nothing follows.  A "<" is the only beginning   *)
(* of a marker that these glyphs can spell; "<th", which nothing completes *)
(* and finish() drops, they cannot.                                        *)
FinishBuffer(p) ==
    LET behind == LStrip(From(p.buf, 3))
        quoted == p.trk.last \in {"tick", "dq"} /\ IsPrefixOfOne(p.buf, PlainMarkers)
        opener == IsAt(p.buf, 1, ToolOpen) /\ behind \in {<<>>, <<"<">>}
    IN  IF p.buf = <<>> THEN p
        ELSE IF ~quoted /\ (p.buf = <<"<">> \/ opener) THEN [Incomplete(p) EXCEPT !.buf = <<>>]
        ELSE Emit(p, p.buf)

(* finish.                                                                 *)
RECURSIVE FinishLoop(_)
AfterBarrier(p) ==
    IF p.issue = "ambiguity" /\ p.staged = <<>> THEN Ended(p) ELSE FinishLoop(p)
AfterTool(p) == IF p.issue # "none" \/ p.incomplete THEN Ended(p) ELSE FinishLoop(p)
AfterStep(p, next) ==
    IF p.buf # <<>> /\ next # p THEN FinishLoop(next) ELSE Ended(FinishBuffer(p))
FinishLoop(p) ==
    CASE Raised(p) -> p
      [] ~Raised(p) /\ p.staged # <<>> -> Ended([Emit(p, p.staged) EXCEPT !.fallback = TRUE])
      [] ~Raised(p) /\ p.staged = <<>> /\ Held(p) -> AfterBarrier(ResolveBarrier(p, <<>>, TRUE, TRUE))
      [] ~Raised(p) /\ ~Held(p) /\ p.mode = "tool" -> AfterTool(FinishTool(p))
      [] OTHER -> AfterStep(p, PlainStep(p, TRUE))

Finish(p) ==
    LET whole == IF p.cut THEN [EmitAnywhere(p, <<"<">>) EXCEPT !.cut = FALSE] ELSE p
    IN  FinishLoop(IF p.staged # <<>> THEN p ELSE ResolveQuote(whole, <<>>))
=============================================================================
