---------------------------- MODULE QwenBoundary ----------------------------
(***************************************************************************)
(* Which markers of Qwen's output are text (model/qwen.py,                 *)
(* _MarkdownCodeContext and _QwenMarkerBoundaryTracker): those in Markdown *)
(* code and those in quotes.  A control token inside a code span that is   *)
(* still open is held back together with everything behind it, until the   *)
(* span's close shows that all of it is text.                              *)
(***************************************************************************)
EXTENDS ToolWire
LOCAL INSTANCE SequencesExt
LOCAL INSTANCE FiniteSetsExt

CONSTANT
    HoldLimit   \* _HOLD_LIMIT_BYTES, in glyphs

ThinkOpen == <<"<", "think>">>
ThinkClose == <<"<", "/think>">>
PlainMarkers == {ThinkOpen, ThinkClose, ToolOpen}

Natives == "<think>" :> ThinkOpen @@ "</think>" :> ThinkClose
           @@ "<tool_call>" :> ToolOpen @@ "</tool_call>" :> ToolClose

-----------------------------------------------------------------------------
(* _MarkdownCodeContext: the backticks that opened a span (0: none), and   *)
(* the run of backticks that is not over yet.                              *)

NoCode == [width |-> 0, fence |-> FALSE, crossed |-> FALSE, run |-> 0,
           atStart |-> FALSE, fresh |-> TRUE]

NoSpan(c) == [c EXCEPT !.width = 0, !.fence = FALSE, !.crossed = FALSE]

(* _commit_pending_backticks: what the run before glyph g was.             *)
Commit(c, g) ==
    LET d == [c EXCEPT !.run = 0, !.atStart = FALSE]
    IN  CASE c.run = 0 -> c
          [] c.run > 0 /\ c.width = 0 ->
                 [d EXCEPT !.width = c.run, !.fence = c.atStart /\ c.run >= 3, !.crossed = FALSE]
          [] c.run > 0 /\ c.width > 0 /\ c.fence ->
                 IF c.atStart /\ c.run >= c.width /\ g = "n" THEN NoSpan(d) ELSE d
          [] OTHER -> IF c.run = c.width THEN NoSpan(d) ELSE d

(* observe.                                                                *)
ObserveGlyph(c, g) ==
    LET d == Commit(c, g)
    IN  IF g = "tick"
        THEN [c EXCEPT !.run = @ + 1, !.fresh = FALSE,
                       !.atStart = IF c.run = 0 THEN c.fresh ELSE @]
        ELSE [d EXCEPT !.fresh = g = "n",
                       !.crossed = @ \/ (g = "n" /\ d.width > 0 /\ ~d.fence)]
Observe(c, q) == FoldLeft(ObserveGlyph, c, q)

(* The runs of backticks in q, as <<first, last>>.                         *)
TickRuns(q) ==
    {r \in (DOMAIN q) \X (DOMAIN q) :
        /\ r[1] <= r[2] /\ \A i \in r[1]..r[2] : q[i] = "tick"
        /\ ~GlyphAt(q, r[2] + 1, "tick") /\ (r[1] = 1 \/ q[r[1] - 1] # "tick")}

(* The close of the span in q: a fence may be closed by more backticks, an *)
(* inline span only by as many, and once the run is over.                  *)
ClosesSpan(c, q, final) ==
    \E r \in TickRuns(q) :
        LET width == r[2] - r[1] + 1
        IN  IF c.fence THEN width >= c.width ELSE width = c.width /\ (final \/ r[2] < Len(q))

-----------------------------------------------------------------------------
(* The tracker: the code context, the glyph last published, a marker that  *)
(* waits for the glyph behind a quote, and the barrier, a control token    *)
(* with all that is held behind it.  A barrier of kind "close" is the end  *)
(* of reasoning inside a span that crossed a line.                         *)

NoMark == [marker |-> "none", verified |-> FALSE]
NoBarrier == [marker |-> "none", kind |-> "none"]
NoScan == [run |-> 0, atStart |-> FALSE, fresh |-> FALSE, size |-> 0]

NewTracker ==
    [code |-> NoCode, last |-> "none", waiting |-> NoMark, barrier |-> NoBarrier,
     scan |-> NoScan, limit |-> FALSE]

ObserveContent(t, q) ==
    IF q = <<>> THEN t ELSE [t EXCEPT !.code = Observe(@, q), !.last = Last(q)]

(* classify_plain_marker: the marker stands at the beginning of q.  Once   *)
(* the output has ended, a span without an end is none.                    *)
ClassifyPlain(t, q, final) ==
    LET code == Commit(t.code, "<")
        rest == From(q, 3)
        closes == code.width > 0 /\ ClosesSpan(code, rest, final)
        over == IF final /\ code.width > 0 /\ ~code.fence THEN NoSpan(code) ELSE code
        asks == t.last \in {"tick", "dq"}
        verdict == IF code.width > 0 /\ (closes \/ ~final)
                   THEN IF closes THEN "literal" ELSE "pending"
                   ELSE IF asks /\ rest = <<>> /\ ~final THEN "pending"
                   ELSE IF asks /\ GlyphAt(rest, 1, t.last) THEN "literal" ELSE "structural"
    IN  [verdict |-> verdict,
         tracker |-> [t EXCEPT !.code = IF closes \/ ~final THEN code ELSE over]]

(* _scan_pending_close over the text q behind a barrier, from place i on.  *)
RECURSIVE Scan(_, _, _, _)
Scan(t, q, i, final) ==
    LET s == t.scan
        width == t.code.width
        fence == t.code.fence
        end == s.run > 0 /\ s.atStart /\ s.run >= width
        next == [s EXCEPT !.size = @ + 1]
        closed(u) == [found |-> TRUE, tracker |-> [t EXCEPT !.scan = u]]
        open(u) == Scan([t EXCEPT !.scan = u], q, i + 1, final)
    IN  IF i > Len(q) THEN [found |-> final /\ ~t.limit /\ (IF fence THEN end ELSE s.run = width),
                            tracker |-> t]
        ELSE IF ~fence /\ q[i] # "tick" /\ s.run = width THEN closed(s)
        ELSE IF s.size >= HoldLimit THEN [found |-> FALSE, tracker |-> [t EXCEPT !.limit = TRUE]]
        ELSE IF q[i] = "tick"
        THEN open([next EXCEPT !.atStart = IF s.run = 0 THEN s.fresh ELSE @,
                               !.run = @ + 1, !.fresh = FALSE])
        ELSE IF fence /\ end /\ q[i] = "n" THEN closed(next)
        ELSE open([next EXCEPT !.run = 0, !.atStart = FALSE, !.fresh = q[i] = "n"])

ScanText(t, q, final) == Scan(t, q, 1, final)

(* _start_unresolved, _clear_unresolved: whatever the scan knows, the      *)
(* place of the close included, is forgotten with the barrier.             *)
Start(t, marker, kind) ==
    [t EXCEPT !.barrier = [marker |-> marker, kind |-> kind], !.limit = 1 > HoldLimit,
              !.scan = [NoScan EXCEPT !.size = 1]]
Clear(t) == [t EXCEPT !.barrier = NoBarrier, !.scan = NoScan]

(* resolve_pending_inline_native_marker, for a barrier that is no end of   *)
(* reasoning: at the end of the output it stays ambiguous.                 *)
ResolveHeld(t, q, final) ==
    LET scanned == ScanText(t, q, final)
    IN  IF scanned.found THEN [verdict |-> "literal", tracker |-> Clear(scanned.tracker)]
        ELSE IF final /\ ~scanned.tracker.limit
        THEN [verdict |-> "ambiguous", tracker |-> Clear(scanned.tracker)]
        ELSE [verdict |-> "pending", tracker |-> scanned.tracker]

(* _resolve_pending_reasoning_close: a new line before the close of the    *)
(* span ends the reasoning.                                                *)
ResolveReasoningClose(t, q, final) ==
    LET scanned == ScanText(t, q, final)
        over == Clear(scanned.tracker)
    IN  IF scanned.found THEN [verdict |-> "literal", tracker |-> over]
        ELSE IF ~scanned.tracker.limit /\ (final \/ "n" \in ToSet(q))
        THEN [verdict |-> "structural",
              tracker |-> [over EXCEPT !.last = "none",
                                       !.code = IF @.fence THEN @ ELSE NoSpan(@)]]
        ELSE [verdict |-> "pending", tracker |-> scanned.tracker]

Resolve(t, q, final) ==
    IF t.limit THEN [verdict |-> "pending", tracker |-> t]
    ELSE IF t.barrier.kind = "close" THEN ResolveReasoningClose(t, q, final)
    ELSE ResolveHeld(t, q, final)

(* resolve_provisional_reasoning_close and classify_native_marker: the     *)
(* control token, or its text, with q behind it.                           *)
ClassifyNative(t, marker, q, verified, reasoning) ==
    LET early == t.code.width > 0 /\ ~t.code.fence /\ t.code.crossed
        code == Commit(t.code, "<")
        s == [t EXCEPT !.code = code]
        bare == IF verified THEN "structural" ELSE "fail_closed"
    IN  IF verified /\ marker = "</think>" /\ reasoning /\ early
        THEN ResolveReasoningClose(Start(t, marker, "close"), q, FALSE)
        ELSE IF code.width > 0 /\ ~verified THEN [verdict |-> "literal", tracker |-> s]
        ELSE IF code.width > 0 THEN ResolveHeld(Start(s, marker, "held"), q, FALSE)
        ELSE IF t.last = "dq" /\ q = <<>>
        THEN [verdict |-> "pending",
              tracker |-> [s EXCEPT !.waiting = [marker |-> marker, verified |-> verified]]]
        ELSE [verdict |-> IF t.last = "dq" /\ Head(q) = "dq" THEN "literal" ELSE bare,
              tracker |-> s]

(* resolve_pending_native_marker: the quote behind the marker.             *)
ResolveWaiting(t, q) ==
    IF q # <<>> /\ Head(q) = "dq" THEN "literal"
    ELSE IF t.waiting.verified THEN "structural" ELSE "fail_closed"
=============================================================================
