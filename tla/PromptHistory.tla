---------------------------- MODULE PromptHistory ----------------------------
(***************************************************************************)
(* A conversation as the prompt compilers see it: the items of a finished  *)
(* output become items of the next request (state/session.py), or the      *)
(* client sends them back (protocol/openai/responses_request.py), and each *)
(* dialect groups them into turns for its template (the prepare of its     *)
(* prompt compiler) or refuses them.                                       *)
(***************************************************************************)
EXTENDS DialectOutput
LOCAL INSTANCE SequencesExt

-----------------------------------------------------------------------------
(* Items.  segment marks reasoning that begins a new segment of the        *)
(* assistant; the identity of a call is its number in the conversation.    *)

Instruction(q) == [kind |-> "system", text |-> q]
Said(q) == [kind |-> "user", text |-> q]
Answered(q) == [kind |-> "assistant", text |-> q]
Reasoned(q) == [kind |-> "reasoning", text |-> q, segment |-> FALSE]
Called(k, q) == [kind |-> "call", id |-> k, index |-> k, text |-> q]
Result(k, q) == [kind |-> "result", id |-> k, text |-> q]

(* What a finished parser's blocks and calls are stored as.                *)
OutputItems(p) ==
    LET item(e) == CASE e.type = "call" -> Called(e.index, e.value)
                     [] e.type # "call" /\ e.channel = "reasoning" -> Reasoned(e.value)
                     [] OTHER -> Answered(e.value)
        stored == SelectSeq(p.out, LAMBDA e : e.type \in {"completed", "call"})
    IN  [i \in DOMAIN stored |-> item(stored[i])]

Blank(q) == Strip(q) = <<>>

(* _parse_input: calls are numbered anew behind every message of the       *)
(* client and every result; reasoning behind text and before any call      *)
(* begins a new segment.                                                   *)
ParseItem(e, i) ==
    LET over == [e EXCEPT !.items = Append(@, i), !.calls = 0, !.spoken = FALSE, !.called = FALSE]
        segment == e.spoken /\ ~e.called
    IN  CASE i.kind = "assistant" ->
                 [e EXCEPT !.items = Append(@, i), !.spoken = @ \/ ~Blank(i.text)]
          [] i.kind = "reasoning" ->
                 [e EXCEPT !.items = Append(@, [i EXCEPT !.segment = segment]),
                           !.spoken = @ /\ ~segment]
          [] i.kind = "call" ->
                 [e EXCEPT !.items = Append(@, [i EXCEPT !.index = e.calls]),
                           !.calls = @ + 1, !.called = TRUE]
          [] OTHER -> over

ParseInput(items) ==
    FoldLeft(ParseItem, [items |-> <<>>, calls |-> 0, spoken |-> FALSE, called |-> FALSE], items).items

-----------------------------------------------------------------------------
(* Turns.  open is the turn of the assistant that is being collected;      *)
(* pending are DeepSeek's results that wait for more of them.              *)

NoTurn == [reasoning |-> <<>>, text |-> <<>>, calls |-> <<>>, answers |-> <<>>]
Turn(role, q) == [NoTurn EXCEPT !.text = q] @@ [role |-> role, id |-> 0]
NewHistory == [turns |-> <<>>, open |-> NoTurn, known |-> {}, pending |-> <<>>, refused |-> FALSE]

Refuse(h) == [h EXCEPT !.refused = TRUE]
AddTurn(h, t) == [h EXCEPT !.turns = Append(@, t)]

(* flush_assistant.                                                        *)
Flush(h) ==
    IF h.open = NoTurn THEN h
    ELSE [AddTurn(h, h.open @@ [role |-> "assistant", id |-> 0]) EXCEPT !.open = NoTurn]

(* The instructions in front of everything else are one turn; one that     *)
(* comes later is refused.                                                 *)
Leading(items) == {k \in 0..Len(items) : \A j \in 1..k : items[j].kind = "system"}
Lead(items) == CHOOSE k \in Leading(items) : \A j \in Leading(items) : j <= k
Instructed(items) ==
    LET k == Lead(items)
    IN  IF k = 0 THEN NewHistory
        ELSE AddTurn(NewHistory, Turn("system", FlattenSeq([j \in 1..k |-> items[j].text])))

Ask(h, i) == AddTurn(Flush(h), Turn("user", i.text))
Say(h, i) == [h EXCEPT !.open.text = @ \o i.text]

(* A new segment ends the turn.                                            *)
Segment(h, i) ==
    IF i.segment /\ ~Blank(h.open.text) /\ h.open.calls = <<>> /\ h.open.answers = <<>>
    THEN Flush(h) ELSE h

Reason(h, i) ==
    LET s == Segment(h, i)
    IN  IF s.open.text # <<>> \/ s.open.calls # <<>> THEN Refuse(s)
        ELSE [s EXCEPT !.open.reasoning = @ \o i.text]

MakeCall(h, i) ==
    IF i.id \in h.known \/ i.index # Len(h.open.calls) THEN Refuse(h)
    ELSE [h EXCEPT !.open.calls = Append(@, [id |-> i.id, text |-> i.text]), !.known = @ \cup {i.id}]

Answer(h, i) ==
    LET s == Flush(h)
    IN  IF i.id \notin h.known THEN Refuse(s)
        ELSE AddTurn(s, [Turn("tool", i.text) EXCEPT !.id = i.id])

-----------------------------------------------------------------------------
(* One item, in each dialect.                                              *)

Glm5Item(h, i) ==
    CASE i.kind = "system" -> Refuse(h)
      [] i.kind = "user" -> Ask(h, i)
      [] i.kind = "assistant" -> Say(h, i)
      [] i.kind = "reasoning" -> Reason(h, i)
      [] i.kind = "call" -> MakeCall(h, i)
      [] i.kind = "result" -> Answer(h, i)

MuseItem(h, i) == Glm5Item(h, i)

(* Blank text in front of reasoning is dropped.                            *)
QwenItem(h, i) ==
    LET s == Segment(h, i)
    IN  IF i.kind # "reasoning" THEN Glm5Item(h, i)
        ELSE IF ~Blank(s.open.text) \/ s.open.calls # <<>> THEN Refuse(s)
        ELSE [s EXCEPT !.open.reasoning = @ \o i.text, !.open.text = <<>>]

(* Results are part of the turn that called, which ends at the next item   *)
(* of the assistant.                                                       *)
GemmaItem(h, i) ==
    LET s == IF h.open.answers # <<>> THEN Flush(h) ELSE h
        calls == {h.open.calls[k].id : k \in DOMAIN h.open.calls}
        answered == {h.open.answers[k].id : k \in DOMAIN h.open.answers}
    IN  CASE i.kind \in {"assistant", "reasoning", "call"} -> Glm5Item(s, i)
          [] i.kind = "result" ->
                 IF i.id \notin h.known \/ i.id \notin calls \/ i.id \in answered THEN Refuse(h)
                 ELSE [h EXCEPT !.open.answers = Append(@, [id |-> i.id, text |-> i.text])]
          [] OTHER -> Glm5Item(h, i)

(* Faulty variant: in the order the client sent them.                      *)
BugInOrder(results) == results

(* Results are user turns without a name: they are put in the order of     *)
(* their calls, and what the user says behind them joins them.             *)
InOrder(results) == SortSeq(results, LAMBDA r, s : r.id < s.id)

FlushResults(h) ==
    LET results == InOrder(h.pending)
    IN  IF h.pending = <<>> THEN h
        ELSE [AddTurn(h, Turn("results", FlattenSeq([k \in DOMAIN results |-> results[k].text])))
                 EXCEPT !.pending = <<>>]

AppendUser(h, i) ==
    IF h.turns # <<>> /\ Last(h.turns).role = "results"
    THEN [h EXCEPT !.turns[Len(h.turns)].text = @ \o i.text]
    ELSE AddTurn(h, Turn("user", i.text))

DeepSeekItem(h, i) ==
    LET s == IF i.kind = "result" THEN h ELSE FlushResults(h)
    IN  CASE i.kind = "user" -> AppendUser(Flush(s), i)
          [] i.kind = "result" ->
                 IF i.id \notin h.known THEN Refuse(Flush(h))
                 ELSE [Flush(h) EXCEPT !.pending = Append(@, i)]
          [] OTHER -> Glm5Item(s, i)

(* Messages only; those of the assistant in a row are one.                 *)
GenericItem(h, i) ==
    CASE i.kind = "user" -> AddTurn(h, Turn("user", i.text))
      [] i.kind = "assistant" ->
             IF h.turns # <<>> /\ Last(h.turns).role = "assistant"
             THEN [h EXCEPT !.turns[Len(h.turns)].text = @ \o i.text]
             ELSE AddTurn(h, Turn("assistant", i.text))
      [] OTHER -> Refuse(h)

-----------------------------------------------------------------------------
(* prepare: the first item that is refused refuses the request.            *)

Placed(dialect, h, i) ==
    CASE h.refused -> h
      [] ~h.refused /\ dialect = "glm5" -> Glm5Item(h, i)
      [] ~h.refused /\ dialect = "muse_glimmer" -> MuseItem(h, i)
      [] ~h.refused /\ dialect = "qwen" -> QwenItem(h, i)
      [] ~h.refused /\ dialect = "gemma4" -> GemmaItem(h, i)
      [] ~h.refused /\ dialect = "deepseek_v4" -> DeepSeekItem(h, i)
      [] OTHER -> GenericItem(h, i)

(* The generic compiler of a model that always reasons drops reasoning.    *)
WithoutReasoning(items) == SelectSeq(items, LAMBDA i : i.kind # "reasoning")

Prepare(dialect, items) ==
    LET all == IF dialect = "step3p5" THEN WithoutReasoning(items) ELSE items
        rest == From(all, Lead(all) + 1)
        h == FoldLeft(LAMBDA g, i : Placed(dialect, g, i), Instructed(all), rest)
    IN  Flush(FlushResults(h))

-----------------------------------------------------------------------------
(* DeepSeek's prompt, which the repository renders itself.                 *)

ThinkMark(open) == <<"<", IF open THEN "think>" ELSE "/think>">>

(* _encode_call, _encode_calls: a call is its name with its arguments.     *)
EncodeCalls(bodies) ==
    <<"n", "n", "<", "calls>", "n">>
    \o FlattenSeq([k \in DOMAIN bodies |-> <<"<", "invoke">> \o bodies[k] \o <<"<", "/invoke>", "n">>])
    \o <<"<", "/calls>">>

(* _render_prompt: reasoning is shown again where tools are exposed, and   *)
(* behind the last user turn.                                              *)
RenderPrompt(turns, tools, thinking) ==
    LET asked == {k \in DOMAIN turns : turns[k].role \in {"user", "results"}}
        behind(k) == tools \/ \A j \in asked : j < k
        atLast(k) == tools \/ \A j \in asked : j <= k
        bodies(t) == [k \in DOMAIN t.calls |-> t.calls[k].text]
        shown(k) ==
            LET t == turns[k]
            IN  CASE t.role = "system" -> t.text
                  [] t.role = "assistant" ->
                         (IF thinking /\ behind(k) THEN t.reasoning \o ThinkMark(FALSE) ELSE <<>>)
                         \o t.text \o (IF t.calls = <<>> THEN <<>> ELSE EncodeCalls(bodies(t)))
                         \o <<"<", "eos>">>
                  [] OTHER ->
                         <<"user">> \o t.text
                         \o (IF k = Len(turns) \/ turns[k + 1].role = "assistant"
                             THEN <<"assistant">> \o ThinkMark(thinking /\ atLast(k)) ELSE <<>>)
    IN  FlattenSeq([k \in DOMAIN turns |-> shown(k)])
=============================================================================
