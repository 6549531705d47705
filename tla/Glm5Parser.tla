----------------------------- MODULE Glm5Parser -----------------------------
(***************************************************************************)
(* The incremental parser of GLM-5 (model/glm5.py, Glm5IncrementalParser). *)
(* "call" stands for a name with its arguments in their tags; a word alone *)
(* is the call of a function without arguments.  tools tells whether the   *)
(* request exposes a tool.                                                 *)
(***************************************************************************)
EXTENDS DialectOutput
LOCAL INSTANCE SequencesExt

ThinkOpen == <<"<", "think>">>
ThinkClose == <<"<", "/think>">>
ToolOpen == <<"<", "tool_call>">>
ToolClose == <<"<", "/tool_call>">>

(* newline: a new line of reasoning is held; trim: the text begins.        *)
New(mode, tools) ==
    NewParser("glm5", mode)
    @@ [tools |-> tools, body |-> <<>>, step |-> FALSE, newline |-> FALSE, trim |-> FALSE]

Markers(p) == {ThinkOpen, ThinkClose} \cup (IF p.tools THEN {ToolOpen} ELSE {})

IsWord(g) == g \in {"a", "b"}

(* _parse_tool_body: a name, and arguments or nothing after it.            *)
IsCall(body) ==
    LET b == Strip(body)
    IN  /\ b # <<>>
        /\ \A i \in DOMAIN b : IsWord(b[i]) \/ (i = Len(b) /\ b[i] = "call")

FinishTool(p) ==
    [(IF IsCall(p.body) THEN EmitCall(p, p.body) ELSE Incomplete(p))
        EXCEPT !.body = <<>>, !.mode = "text"]

(* _emit_content; Step 3.5 drops the new line at either side of the close  *)
(* of its reasoning.                                                       *)
EmitStep(p, q) ==
    LET all == (IF p.newline THEN <<"n">> ELSE <<>>) \o q
        held == Last(all) = "n"
    IN  IF p.mode = "reasoning"
        THEN [EmitContent(p, IF held THEN Front(all) ELSE all) EXCEPT !.newline = held]
        ELSE [EmitContent(p, IF p.trim /\ Head(q) = "n" THEN Tail(q) ELSE q) EXCEPT !.trim = FALSE]

Emit(p, q) == IF p.step /\ q # <<>> THEN EmitStep(p, q) ELSE EmitContent(p, q)

(* _process_plain: the next marker, or what cannot become one any more.    *)
ProcessPlain(p) ==
    LET at == Find(p.buf, Markers(p))
        m == MarkerAt(p.buf, at, Markers(p))
        safe == Len(p.buf) - PartialSuffix(p.buf, Markers(p))
    IN  CASE at > 1 -> Drop(Emit(p, Upto(p.buf, at - 1)), at - 1)
          [] at = 1 -> SwitchTo(Drop(p, Len(m)),
                                CASE m = ThinkOpen -> "reasoning"
                                  [] m = ThinkClose -> "text"
                                  [] OTHER -> "tool")
          [] OTHER -> Drop(Emit(p, Upto(p.buf, safe)), safe)

ProcessTool(p) ==
    LET at == Find(p.buf, {ToolClose})
        safe == Len(p.buf) - PartialSuffix(p.buf, {ToolClose})
        take(k) == [p EXCEPT !.body = @ \o Upto(p.buf, k), !.buf = From(@, k + 1)]
    IN  IF at > 0 THEN FinishTool(Drop(take(at - 1), Len(ToolClose))) ELSE take(safe)

(* _process_plain of Step 3.5.                                             *)
ProcessStep(p) ==
    LET closing == p.step /\ p.mode = "reasoning" /\ IsAt(p.buf, 1, ThinkClose)
        q == ProcessPlain(IF closing THEN [p EXCEPT !.newline = FALSE] ELSE p)
    IN  IF closing /\ q.mode = "text" THEN [q EXCEPT !.trim = TRUE] ELSE q

(* One turn of the loop of feed().                                         *)
Step(p) == IF p.mode = "tool" THEN ProcessTool(p) ELSE ProcessStep(p)

(* The parser of Step 3.5 (model/step3p5.py) always begins with reasoning. *)
NewStep == [New("reasoning", FALSE) EXCEPT !.dialect = "step3p5", !.step = TRUE]

(* The beginning of a think marker is dropped, that of a tool call is an   *)
(* incomplete tool call.                                                   *)
FinishPlain(p) ==
    IF p.mode = "tool" THEN Finished([Incomplete(p) EXCEPT !.mode = "text"])
    ELSE IF p.buf # <<>> /\ IsPrefixOfOne(p.buf, {ThinkOpen, ThinkClose})
    THEN Finished(CloseChannel(p))
    ELSE IF p.buf # <<>> /\ p.tools /\ IsPrefix(p.buf, ToolOpen)
    THEN Finished(CloseChannel(Incomplete(p)))
    ELSE Finished(CloseChannel(Emit(p, p.buf)))

(* Step 3.5 publishes the new line that it held.                           *)
Finish(p) ==
    IF p.newline /\ p.mode = "reasoning"
    THEN FinishPlain(EmitContent([p EXCEPT !.newline = FALSE], <<"n">>))
    ELSE FinishPlain(p)
=============================================================================
