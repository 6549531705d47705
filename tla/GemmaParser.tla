----------------------------- MODULE GemmaParser -----------------------------
(***************************************************************************)
(* The incremental parser of Gemma 4 (model/gemma4.py,                     *)
(* Gemma4IncrementalParser).  Markers inside Markdown code are text, and a *)
(* tool opener counts only once a call follows it.  "call{" stands for the *)
(* name and the object of a call up to a value, "q" for the delimiter of a *)
(* native string, in which markers are data, "}" for the end of the        *)
(* object.                                                                 *)
(***************************************************************************)
EXTENDS DialectOutput
LOCAL INSTANCE SequencesExt
LOCAL INSTANCE FiniteSetsExt

ThinkOpen == <<"<", "|think">>
ThinkClose == <<"<", "think|">>
ToolOpen == <<"<", "|tool">>
ToolClose == <<"<", "tool|">>
Markers == {ThinkOpen, ThinkClose, ToolOpen}

(* Code spans: the width of the run of backticks that opened an inline     *)
(* span or a fence (0: none), whether a run may have closed the fence, and *)
(* whether the line is still empty.                                        *)
NoCode == [inline |-> 0, fence |-> 0, closing |-> FALSE, fresh |-> TRUE]

New(mode) == NewParser("gemma4", mode) @@ [code |-> NoCode]

InCode(p) == p.code.inline > 0 \/ p.code.fence > 0

-----------------------------------------------------------------------------
(* _GemmaPresentationTracker.                                              *)

Newline(c) == [NoCode EXCEPT !.fence = IF c.closing THEN 0 ELSE c.fence]

(* A run of backticks: it opens, closes or is part of a span.              *)
Backticks(c, width) ==
    LET d == [c EXCEPT !.fresh = FALSE]
    IN  IF c.fence > 0 THEN [d EXCEPT !.closing = c.fresh /\ width >= c.fence]
        ELSE IF c.inline > 0 THEN [d EXCEPT !.inline = IF width = @ THEN 0 ELSE @]
        ELSE IF c.fresh /\ width >= 3 THEN [d EXCEPT !.fence = width]
        ELSE [d EXCEPT !.inline = width]

RunAt(q) == IF \A i \in DOMAIN q : q[i] = "tick" THEN Len(q)
            ELSE Min({i \in DOMAIN q : q[i] # "tick"}) - 1

RECURSIVE Consume(_, _)
Consume(c, q) ==
    IF q = <<>> THEN c
    ELSE IF Head(q) = "n" THEN Consume(Newline(c), Tail(q))
    ELSE LET d == IF c.closing THEN [c EXCEPT !.closing = FALSE, !.fresh = FALSE] ELSE c
         IN  IF Head(q) = "tick" THEN Consume(Backticks(d, RunAt(q)), From(q, RunAt(q) + 1))
             ELSE Consume([d EXCEPT !.fresh = FALSE], Tail(q))

(* _emit_plain_content.                                                    *)
EmitPlain(p, q) == EmitContent([p EXCEPT !.code = Consume(@, q)], q)

TrailingBackticks(q) == RunAt(Reverse(q))

-----------------------------------------------------------------------------
(* A tool call.                                                            *)

(* A native string is the value of the call: where it begins, 0 if the     *)
(* value is something else, and where it ends.                             *)
StringAt(q) ==
    LET value == {i \in 2..Len(q) : q[i] \notin Spaces}
    IN  IF value # {} /\ q[1] = "call{" /\ q[Min(value)] = "q" THEN Min(value) ELSE 0
StringEnd(q) == Min({Len(q) + 1} \cup {i \in DOMAIN q : i > StringAt(q) /\ q[i] = "q"})

(* _find_tool_close: the first close that is not inside a string.          *)
CloseAt(q) ==
    LET b == LStrip(q)
        data == IF StringAt(b) > 0 THEN StringAt(b)..StringEnd(b) ELSE {}
        at == Places(b, {ToolClose}) \ data
    IN  IF at = {} THEN 0 ELSE Min(at) + Len(q) - Len(b)

(* _parse_tool_body: one string value.                                     *)
IsCall(body) ==
    LET b == Strip(body)
    IN  StringAt(b) > 0 /\ StringEnd(b) <= Len(b) /\ LStrip(From(b, StringEnd(b) + 1)) = <<"}">>

(* _tool_candidate_decision: what follows an opener begins a call, does    *)
(* not, or does not tell yet.                                              *)
Candidate(q) ==
    LET b == LStrip(q)
    IN  CASE b = <<>> -> "waiting" [] b # <<>> /\ b[1] = "call{" -> "committed"
          [] OTHER -> "disqualified"

(* _process_tool_candidate: text that only looked like a call is replayed  *)
(* up to the place that decided it.                                        *)
ProcessCandidate(p) ==
    LET spaces == Len(p.buf) - Len(LStrip(p.buf))
        back == [Drop(p, spaces) EXCEPT !.mode = p.back]
    IN  CASE Candidate(p.buf) = "waiting" -> p
          [] Candidate(p.buf) = "committed" -> SwitchTo([p EXCEPT !.mode = p.back], "tool")
          [] OTHER -> EmitPlain(back, ToolOpen \o Upto(p.buf, spaces))

ProcessTool(p) ==
    LET at == CloseAt(p.buf)
        body == Upto(p.buf, at - 1)
        rest == [Drop(p, at + Len(ToolClose) - 1) EXCEPT !.mode = p.back]
    IN  IF at = 0 THEN p ELSE IF IsCall(body) THEN EmitCall(rest, body) ELSE Incomplete(rest)

-----------------------------------------------------------------------------
(* _process_plain.                                                         *)

Marked(p, m) ==
    LET fresh == [p EXCEPT !.code = NoCode]
    IN  IF InCode(p) THEN EmitPlain(p, m)
        ELSE CASE m = ToolOpen -> [p EXCEPT !.back = p.mode, !.mode = "candidate"]
               [] m = ThinkOpen /\ p.mode # "reasoning" -> SwitchTo(fresh, "reasoning")
               [] m = ThinkClose /\ p.mode = "reasoning" -> SwitchTo(fresh, "text")
               [] OTHER -> fresh

ProcessPlain(p) ==
    LET at == Find(p.buf, Markers)
        m == MarkerAt(p.buf, at, Markers)
        safe == Len(p.buf) - Max({PartialSuffix(p.buf, Markers), TrailingBackticks(p.buf)})
    IN  IF at > 0
        THEN Marked(Drop(EmitPlain(p, Upto(p.buf, at - 1)), at - 1 + Len(m)), m)
        ELSE Drop(EmitPlain(p, Upto(p.buf, safe)), safe)

Step(p) ==
    CASE p.mode = "tool" -> ProcessTool(p)
      [] p.mode = "candidate" -> ProcessCandidate(p)
      [] OTHER -> ProcessPlain(p)

(* An opener that was still undecided is an incomplete call; so is what    *)
(* may be the beginning of one.                                            *)
Finish(p) ==
    IF p.mode \in {"tool", "candidate"}
    THEN Finished(CloseChannel([Incomplete(p) EXCEPT !.mode = p.back]))
    ELSE IF p.buf # <<>> /\ ~InCode(p) /\ IsPrefixOfOne(p.buf, Markers)
    THEN Finished(CloseChannel(IF IsPrefix(p.buf, ToolOpen) THEN Incomplete(p) ELSE p))
    ELSE Finished(CloseChannel(EmitPlain(p, p.buf)))
=============================================================================
