--------------------------- MODULE DeepSeekParser ---------------------------
(***************************************************************************)
(* The incremental parser of DeepSeek-V4 (model/deepseek_v4.py,            *)
(* DeepSeekV4IncrementalParser).  A block of tool calls holds invokes; an  *)
(* invoke without its block and a block with a misspelled opener are       *)
(* recovered.  "call" stands for the name and parameters of an invoke, a   *)
(* run from "{" to "}" for the same with a JSON string in it, in which     *)
(* markers are data.  exposed is the set of the tools the request exposes; *)
(* the model calls "f".                                                    *)
(***************************************************************************)
EXTENDS DialectOutput
LOCAL INSTANCE SequencesExt
LOCAL INSTANCE FiniteSetsExt

ThinkOpen == <<"<", "think>">>
ThinkClose == <<"<", "/think>">>
EndOfText == <<"<", "eos>">>
BlockOpen == <<"<", "calls>">>
BlockClose == <<"<", "/calls>">>
Misspelled == <<"<", "toolcalls>">>
Invoke == <<"<", "invoke">>
InvokeClose == <<"<", "/invoke>">>

New(mode, exposed) ==
    NewParser("deepseek_v4", mode) @@ [exposed |-> exposed, bare |-> FALSE]

Spaced(m) == {m, <<"n", "n">> \o m}

ToolStarts == UNION {Spaced(m) : m \in {BlockOpen, Misspelled, Invoke}}

Markers(p) ==
    {ThinkOpen, ThinkClose, EndOfText} \cup (IF p.exposed = {} THEN {} ELSE ToolStarts)

-----------------------------------------------------------------------------
(* A block of calls.                                                       *)

(* The places of q inside the JSON of an invoke; one without an end goes   *)
(* to the end of q.                                                        *)
Protected(q) ==
    {i \in DOMAIN q : \E o \in 1..i :
        /\ o > Len(Invoke) /\ IsAt(q, o - Len(Invoke), Invoke) /\ q[o] = "{"
        /\ \A k \in o..i - 1 : q[k] # "}"}

(* _find_dsml_close_outside_json_parameters: 0 while there is none.        *)
CloseAt(q, close) ==
    LET at == Places(q, {close}) \ Protected(q) IN IF at = {} THEN 0 ELSE Min(at)

(* _parse_invoke_body: what stands between an opener and its close.        *)
IsInvokeBody(q) ==
    LET b == Strip(q)
    IN  b # <<>> /\ ((Len(b) = 1 /\ b[1] = "call")
                     \/ (b[1] = "{" /\ {i \in DOMAIN b : b[i] \in {"}", "n"}} = {Len(b)}
                         /\ Last(b) = "}"))

(* _parse_tool_block: the invokes of the body of a block, or nothing when  *)
(* it is malformed.                                                        *)
RECURSIVE Invokes(_)
Invokes(q) ==
    LET b == LStrip(q)
        at == CloseAt(b, InvokeClose)
        first == SubSeq(b, Len(Invoke) + 1, at - 1)
        rest == From(b, at + Len(InvokeClose))
    IN  IF b = <<>> \/ ~IsAt(b, 1, Invoke) \/ at = 0 \/ ~IsInvokeBody(first) THEN <<>>
        ELSE IF LStrip(rest) = <<>> THEN <<first>>
        ELSE IF Invokes(rest) = <<>> THEN <<>> ELSE <<first>> \o Invokes(rest)

RECURSIVE EmitCalls(_, _)
EmitCalls(p, bodies) ==
    IF bodies = <<>> THEN p ELSE EmitCalls(EmitCall(p, Head(bodies)), Tail(bodies))

(* Faulty variant: the calls of a block before the one that is malformed   *)
(* are published.                                                          *)
BugEmitToolBlock(p, body) ==
    LET closed == CloseChannel(p)
        at == CloseAt(LStrip(body), InvokeClose)
        first == SubSeq(LStrip(body), Len(Invoke) + 1, at - 1)
    IN  IF "f" \in p.exposed /\ at > 2 /\ IsInvokeBody(first)
        THEN [EmitCall(closed, first) EXCEPT !.mode = "text"]
        ELSE Incomplete(closed)

(* _emit_tool_block: all calls of a block, or none.                        *)
EmitToolBlock(p, body) ==
    LET closed == CloseChannel(p)
    IN  IF "f" \in p.exposed /\ Invokes(body) # <<>>
        THEN [EmitCalls(closed, Invokes(body)) EXCEPT !.mode = "text"]
        ELSE Incomplete(closed)

-----------------------------------------------------------------------------
(* The loop of feed().                                                     *)

(* An opener that is recovered goes, its block is closed by finish() at    *)
(* the latest; the opener of a block stays in the buffer until its close.  *)
EnterTool(p, m) ==
    LET q == IF m[1] = "n" THEN Drop(p, 2) ELSE p
        misspelled == m \in Spaced(Misspelled)
    IN  [SwitchTo(IF misspelled THEN Drop(q, Len(Misspelled)) ELSE q, "tool")
            EXCEPT !.bare = misspelled \/ m \in Spaced(Invoke)]

Marked(p, m) ==
    CASE m = ThinkOpen -> IF p.mode = "reasoning" THEN Drop(p, Len(m))
                          ELSE SwitchTo(Drop(p, Len(m)), "reasoning")
      [] m = ThinkClose -> LET q == Drop(p, Len(m))
                           IN  IF p.mode = "reasoning" THEN SwitchTo(q, "text")
                               ELSE [q EXCEPT !.mode = "text"]
      [] m = EndOfText -> CloseChannel(Drop(p, Len(m)))
      [] OTHER -> EnterTool(p, m)

ProcessTool(p) ==
    LET at == CloseAt(p.buf, BlockClose)
        body == SubSeq(p.buf, IF p.bare THEN 1 ELSE Len(BlockOpen) + 1, at - 1)
        rest == [Drop(p, at + Len(BlockClose) - 1) EXCEPT !.bare = FALSE, !.mode = "text"]
    IN  IF at = 0 THEN p ELSE EmitToolBlock(rest, body)

Step(p) ==
    LET at == Find(p.buf, Markers(p))
        safe == Len(p.buf) - PartialSuffix(p.buf, Markers(p))
    IN  CASE p.mode = "tool" -> ProcessTool(p)
          [] p.mode # "tool" /\ at = 1 -> Marked(p, MarkerAt(p.buf, 1, Markers(p)))
          [] p.mode # "tool" /\ at > 1 -> Drop(EmitContent(p, Upto(p.buf, at - 1)), at - 1)
          [] OTHER -> Drop(EmitContent(p, Upto(p.buf, safe)), safe)

(* A recovered invoke may be complete without the close of a block.  What  *)
(* may be the beginning of a tool call is an incomplete one, newlines      *)
(* included.                                                               *)
Finish(p) ==
    LET partial == IF p.exposed = {} THEN 0 ELSE PartialSuffix(p.buf, ToolStarts)
        kept == EmitContent(p, Upto(p.buf, Len(p.buf) - partial))
    IN  CASE p.mode = "tool" /\ p.bare ->
                 Finished(CloseChannel(EmitToolBlock([p EXCEPT !.mode = "text"], RStrip(p.buf))))
          [] p.mode = "tool" /\ ~p.bare ->
                 Finished(Incomplete([p EXCEPT !.mode = "text"]))
          [] p.mode # "tool" ->
                 Finished(CloseChannel(IF partial > 0 THEN Incomplete(kept) ELSE kept))
=============================================================================
