---------------------------- MODULE OutputParsing ----------------------------
(***************************************************************************)
(* A request from its plan to its answer, without the queue before it and  *)
(* the delivery behind it (RuntimeSession, ServingSession).  The plan says *)
(* what the output is promised to be; the backend installs the constraint  *)
(* or cannot, and the parser is bound to what it did.  The model writes    *)
(* its output token by token; the runtime hands it over in chunks whose    *)
(* cuts are accidents of scheduling (runtime/exllamav3.py,                 *)
(* _drain_ready_stream_results), and the incremental parser of its dialect *)
(* sorts it into reasoning, text and tool calls while it comes             *)
(* (serving/engine.py, _process_runtime).  Two parsers read the same       *)
(* output here: fine gets every token as a chunk of its own, coarse gets   *)
(* chunks of any length.  The answer is kept, and is part of the next      *)
(* request.                                                                *)
(***************************************************************************)
EXTENDS DialectOutput
LOCAL INSTANCE SequencesExt

CONSTANTS
    Setups,     \* the requests (GenerationPlan) and the bounds: length, tokens, once, known,
                \* tracked (does the runtime tell control tokens?) and answers, of the backend
    HoldLimit   \* what Qwen's parser may hold back, in glyphs

Glm == INSTANCE Glm5Parser
DeepSeek == INSTANCE DeepSeekParser
Gemma == INSTANCE GemmaParser
Muse == INSTANCE MuseParser
Qwen == INSTANCE QwenParser
Planning == INSTANCE GenerationPlan
History == INSTANCE PromptHistory
Grammar == INSTANCE ToolGrammar

VARIABLES
    setup,      \* the request, and the bounds of what the model may write
    plan,       \* what it is promised
    installed,  \* what the backend enforces
    written,    \* the tokens of the output
    fine,       \* the parser that is fed token by token
    coarse,     \* the parser that is fed in chunks
    pending,    \* the chunk that grows: its glyphs and whether its tokens are known
    outcome     \* "none", "completed" or "failed"

vars == <<setup, plan, installed, written, fine, coarse, pending, outcome>>

-----------------------------------------------------------------------------
(* The parsers behind one interface (model/contracts.py, model/registry.py *)
(* create_parser).                                                         *)

(* Only a constrained output has a limit on its calls.                     *)
Create(r, decoder, calls) ==
    LET mode == Planning!StartMode(r)
        exposed == Planning!ExposedNames(r)
        limit == IF decoder = "session" THEN calls ELSE r.length + 1
    IN  CASE r.dialect = "glm5" -> Glm!New(mode, exposed # {})
          [] r.dialect = "step3p5" -> Glm!NewStep
          [] r.dialect = "deepseek_v4" -> DeepSeek!New(mode, exposed)
          [] r.dialect = "gemma4" -> Gemma!New(mode)
          [] r.dialect = "muse_glimmer" -> Muse!New
          [] r.dialect = "qwen" -> Qwen!New(mode, r.tracked, decoder, r.choice, limit)
          [] r.dialect = "generic_hf" -> NewParser("generic_hf", "text")

Step(p) ==
    CASE p.dialect \in {"glm5", "step3p5"} -> Glm!Step(p)
      [] p.dialect = "deepseek_v4" -> DeepSeek!Step(p)
      [] p.dialect = "gemma4" -> Gemma!Step(p)
      [] p.dialect = "muse_glimmer" -> Muse!Step(p)
      [] p.dialect = "generic_hf" -> Drop(EmitContent(p, p.buf), Len(p.buf))

RECURSIVE Drain(_)
DrainOn(p, q) == IF q = p THEN p ELSE Drain(q)
Drain(p) == DrainOn(p, Step(p))

(* A parser that raises publishes nothing of the chunk.                    *)
Returned(p, q) == IF q.issue = "provenance" THEN [q EXCEPT !.out = p.out] ELSE q

(* feed.                                                                   *)
Feed(p, q, v) ==
    Returned(p, CASE p.dialect = "qwen" -> Qwen!Feed(p, q, v)
                  [] p.dialect = "muse_glimmer" -> Drain(Muse!Append_(p, q, v))
                  [] OTHER -> Drain([p EXCEPT !.buf = @ \o q]))

(* finish.                                                                 *)
Done(p) == IF p.issue = "provenance" THEN [p EXCEPT !.finished = TRUE] ELSE p
Finish(p) ==
    Done(Returned(p, CASE p.dialect = "qwen" -> Qwen!Finish(p)
                       [] p.dialect = "muse_glimmer" -> Muse!Finish(p)
                       [] p.dialect \in {"glm5", "step3p5"} -> Glm!Finish(p)
                       [] p.dialect = "deepseek_v4" -> DeepSeek!Finish(p)
                       [] p.dialect = "gemma4" -> Gemma!Finish(p)
                       [] p.dialect = "generic_hf" -> Finished(CloseChannel(p))))

-----------------------------------------------------------------------------
NoChunk == [q |-> <<>>, v |-> TRUE]
Waiting == [state |-> "waiting", guarantee |-> "none"]

Init ==
    /\ setup \in Setups
    /\ plan = Planning!Plan(setup)
    /\ installed = Waiting
    /\ written = <<>>
    /\ fine = NewParser(setup.dialect, "text")
    /\ coarse = fine
    /\ pending = NoChunk
    /\ outcome = "none"

(* The parser of a request whose backend enforces i.                       *)
Bound(i) == Create(setup, Planning!Decoder(plan, i), plan.constraint.calls)

(* The backend takes the request, and the parser is bound to its answer    *)
(* (_prepare_submission, resolve_qwen_parser_context).                     *)
Install(answer) ==
    LET i == Planning!Install(plan, answer.tokens, answer.filter)
        parser == Bound(i)
    IN  /\ ~plan.refused /\ installed = Waiting
        /\ installed' = i
        /\ fine' = parser /\ coarse' = parser
        /\ outcome' = IF i.state = "failed" THEN "failed" ELSE "none"
        /\ UNCHANGED <<setup, plan, written, pending>>

Running == installed # Waiting /\ outcome = "none"

(* The serving session stops the generation when the parser raised or      *)
(* ended in an ambiguity that cannot become text (_process_runtime).       *)
Stopped(p) ==
    \/ p.finished
    \/ p.issue = "provenance"
    \/ p.issue = "ambiguity" /\ p.staged = <<>>

(* One more token.  The runtime can tell the tokens of a chunk only if it  *)
(* tracks them at all, and then of most chunks.                            *)
Write(token, v) ==
    /\ Running
    /\ ~Stopped(fine) /\ ~Stopped(coarse)
    /\ Len(written) < setup.length
    /\ token \in setup.tokens
    /\ token \in setup.once => \A i \in DOMAIN written : written[i].q # token
    /\ v \in setup.known
    /\ pending.q = <<>> \/ pending.v = v
    /\ written' = Append(written, [q |-> token, v |-> v])
    /\ fine' = Feed(fine, token, v)
    /\ pending' = [q |-> pending.q \o token, v |-> v]
    /\ UNCHANGED <<setup, plan, installed, coarse, outcome>>

(* The chunk so far reaches the parser.                                    *)
Deliver ==
    /\ Running
    /\ pending.q # <<>>
    /\ ~Stopped(coarse)
    /\ coarse' = Feed(coarse, pending.q, pending.v)
    /\ pending' = NoChunk
    /\ UNCHANGED <<setup, plan, installed, written, fine, outcome>>

Output == FlattenSeq([i \in DOMAIN written |-> written[i].q])

(* The control token that activates a constraint was written.              *)
Triggered ==
    LET opener == CASE setup.dialect = "qwen" /\ plan.hint -> <<"</think>">>
                    [] setup.dialect = "qwen" /\ ~plan.hint -> <<"<tool_call>">>
                    [] OTHER -> Gemma!ToolOpen
    IN  Find(Output, {opener}) > 0

(* What the checks at the end see of a parser that finished.               *)
Answer(p, eos) ==
    [clean |-> p.issue = "none" /\ ~p.incomplete,
     fallback |-> p.dialect = "qwen" /\ p.issue = "ambiguity" /\ p.fallback,
     calls |-> p.calls, eos |-> eos]

Completes(p, eos) == Planning!Completes(setup, plan, installed, Triggered, Answer(p, eos))

(* The output is over: the model ends it, or the limit on tokens does.     *)
End(eos) ==
    /\ Running
    /\ pending.q = <<>> \/ Stopped(coarse)
    /\ eos \/ Len(written) = setup.length
    /\ fine' = Finish(fine)
    /\ coarse' = Finish(coarse)
    /\ outcome' = IF Completes(coarse', eos) THEN "completed" ELSE "failed"
    /\ UNCHANGED <<setup, plan, installed, written, pending>>

Next ==
    \/ \E answer \in setup.answers : Install(answer)
    \/ \E token \in setup.tokens, v \in BOOLEAN : Write(token, v)
    \/ Deliver
    \/ \E eos \in BOOLEAN : End(eos)

Spec == Init /\ [][Next]_vars

-----------------------------------------------------------------------------
(* Properties.                                                             *)

TypeOK ==
    /\ setup \in Setups
    /\ \A i \in DOMAIN written : written[i].q \in setup.tokens
    /\ installed.state \in {"waiting", "none", "failed", "installed", "active"}
    /\ outcome \in {"none", "completed", "failed"}
    /\ \A p \in {fine, coarse} :
        /\ p.mode \in Channels \cup {"tool", "candidate", "header"}
        /\ p.calls \in Nat
        /\ p.issue \in {"none", "provenance", "ambiguity"}

(* A parser that raises ends the answer; what it published before that     *)
(* depends on the cut, since it publishes nothing of the last chunk.       *)
Result(p) ==
    IF p.issue = "provenance" THEN [issue |-> p.issue]
    ELSE [out |-> p.out, incomplete |-> p.incomplete, issue |-> p.issue]

(* The output up to token i, token by token; and the text behind it.       *)
ReadUpto(i) ==
    FoldLeft(LAMBDA p, w : Feed(p, w.q, w.v), Bound(installed), SubSeq(written, 1, i))
Behind(i) ==
    FlattenSeq([k \in 1..(Len(written) - i) |-> Qwen!Text(written[i + k].q)])

(* A control token that ends Qwen's reasoning inside an inline code span   *)
(* that crossed a line (resolve_provisional_reasoning_close) is judged by  *)
(* as much of the text behind it as its chunk has: by each beginning of    *)
(* that text its verdict may be another.                                   *)
Verdicts(t, text) == [k \in DOMAIN text |-> Qwen!Resolve(t, Upto(text, k), FALSE).verdict]

(* That is too early where a new line makes it count before more of the    *)
(* text would have shown the end of the span, or too much to be held.  And *)
(* backticks right before it, which in truth ended the span, are not       *)
(* counted before the text behind them: once it is text, a marker behind   *)
(* it in the same chunk is outside of code, though the end was found       *)
(* behind that marker.                                                     *)
JudgedEarly(t, text, verdict) ==
    \/ \E j, k \in DOMAIN text : j < k /\ verdict[j] = "structural" /\ verdict[k] # "structural"
    \/ /\ t.code.run = t.code.width
       /\ \E k \in DOMAIN text :
              verdict[k] = "literal" /\ Find(Upto(text, k), Qwen!PlainMarkers) > 0

(* The parser holds such a token and nothing else.                         *)
Provisional(p) == p.trk.barrier.kind = "close" /\ p.held = <<>>
EndsEarly(p, text) ==
    Provisional(p) /\ JudgedEarly(p.trk, text, Verdicts(p.trk, text))

CutDecides ==
    setup.dialect = "qwen" /\ \E i \in DOMAIN written : EndsEarly(ReadUpto(i), Behind(i))

(* Where an output is cut changes neither what is published nor how it     *)
(* ends (except for such a token).                                         *)
CutsDoNotMatter ==
    coarse.finished /\ Result(fine) # Result(coarse) => CutDecides

(* Every block is started once, gets its text and is completed with all of *)
(* it before the next one is started; calls are numbered in their order    *)
(* and come between blocks.                                                *)
TranscriptIsWellFormed ==
    LET out == coarse.out
        open(i) == /\ i > 0 /\ i <= Len(out)
                   /\ out[i].type = "delta" \/ (out[i].type = "started")
        calls == SelectSeq(out, LAMBDA e : e.type = "call")
    IN  /\ \A i \in DOMAIN out :
            CASE out[i].type \in {"started", "call"} -> ~open(i - 1)
              [] out[i].type = "delta" ->
                     i > 1 /\ out[i - 1].type = "started" /\ out[i - 1].channel = out[i].channel
              [] out[i].type = "completed" ->
                     i > 1 /\ out[i - 1] = Delta(out[i].channel, out[i].value)
        /\ \A i \in DOMAIN calls : calls[i].index = i - 1
        /\ coarse.finished /\ coarse.issue # "provenance" => ~open(Len(out))

Words(q) == SelectSeq(q, LAMBDA g : g \in {"a", "b"})
Published(p) ==
    FlattenSeq([i \in DOMAIN p.out |->
        IF p.out[i].type \in {"delta", "call"} THEN Words(p.out[i].value) ELSE <<>>])

(* A word of the name of a recipient, which Muse's parser does not keep.   *)
NamesRecipient(q) ==
    \E i, j \in DOMAIN q : /\ i < j /\ q[i] = " to=" /\ q[j] \in {"a", "b"}
                           /\ \A k \in i..j : q[k] # "<|message|>"

(* Where the runtime can tell control tokens, only one that it vouched for *)
(* ends or begins reasoning, a message or a call: the same text is text,   *)
(* or the parser raises.                                                   *)
Native(token) ==
    \E g \in ToSet(token.q) : g \in DOMAIN Muse!Natives \cup DOMAIN Qwen!Natives

OnlyVouchedTokensControl ==
    LET start == IF setup.dialect = "qwen" THEN Planning!StartMode(setup) ELSE "text"
    IN  /\ setup.dialect = "muse_glimmer" \/ (setup.dialect = "qwen" /\ setup.tracked)
        /\ \A i \in DOMAIN written : written[i].v => ~Native(written[i])
        => \A i \in DOMAIN coarse.out : coarse.out[i].channel = start

(* An answer without an issue holds every word of the output, in order, in *)
(* a block or in a call, and no other.                                     *)
NothingIsLost ==
    coarse.finished /\ ~coarse.incomplete /\ coarse.issue = "none" /\ ~NamesRecipient(Output)
        => Published(coarse) = Words(Output)

-----------------------------------------------------------------------------
(* From the answer to the next request.                                    *)

CallsOf(p) == SelectSeq(p.out, LAMBDA e : e.type = "call")
Bodies(p) == [k \in DOMAIN CallsOf(p) |-> CallsOf(p)[k].value]

Whole(p, q) == Finish(Feed(p, q, TRUE))
Piecewise(p, q) == Finish(FoldLeft(LAMBDA r, g : Feed(r, <<g>>, TRUE), p, q))

(* The calls of a DeepSeek answer as the next prompt shows them to the     *)
(* model.                                                                  *)
ShownAgain(p) ==
    LET shown == <<"a">> \o History!EncodeCalls(Bodies(p))
    IN  {Whole(DeepSeek!New("text", {"f"}), shown), Piecewise(DeepSeek!New("text", {"f"}), shown)}

(* Where the model's first tool call opener stands, and what is behind it. *)
Opening == Find(Output, {<<"<tool_call>">>})
Region == Qwen!Text(From(Output, Opening + 1))

(* The output of a model under a constraint, as the grammar lets it be.    *)
Obeys ==
    /\ setup.dialect = "qwen" /\ plan.constraint.kind = "executable"
    /\ installed.state = "installed" /\ Triggered
    /\ \A i \in DOMAIN written : written[i].v
    /\ ToSet(Upto(Output, Opening - 1)) \subseteq {"a", "n"}
    /\ Grammar!Derive(Region, plan.constraint.calls).derived

(* What the constraint lets a model write is decoded to the very calls it  *)
(* consists of, and what a prompt shows the model as its own calls its     *)
(* parser would read as the same calls.                                    *)
CallsAreDecoded ==
    outcome # "none" =>
        /\ Obeys =>
               /\ Bodies(coarse) = Grammar!Derive(Region, plan.constraint.calls).values
               /\ coarse.issue = "none" /\ ~coarse.incomplete
        /\ setup.dialect = "deepseek_v4" /\ Bodies(coarse) # <<>> =>
               \A p \in ShownAgain(coarse) :
                   Bodies(p) = Bodies(coarse) /\ p.issue = "none" /\ ~p.incomplete

Reply(id) == IF id = 0 THEN <<"a">> ELSE <<"b", "n">>

(* The conversation when a client asks again: its calls are answered, in   *)
(* some order.                                                             *)
Continued(items) ==
    LET calls == {i.id : i \in {j \in ToSet(items) : j.kind = "call"}}
        answers(order) == [k \in DOMAIN order |-> History!Result(order[k], Reply(order[k]))]
    IN  {<<History!Said(<<"a">>)>> \o items \o answers(order) \o <<History!Said(<<"b">>)>> :
            order \in SetToSeqs(calls)}

(* Reasoning that a turn of the assistant has no place for: it comes       *)
(* behind a call or behind text.                                           *)
Unplaced(items, text(_)) ==
    \E i, j \in DOMAIN items :
        /\ i < j /\ items[j].kind = "reasoning"
        /\ items[i].kind = "call" \/ (items[i].kind = "assistant" /\ text(items[i]))

WordsOf(items, kind) ==
    FlattenSeq([i \in DOMAIN items |-> IF items[i].kind = kind THEN Words(items[i].text) ELSE <<>>])

(* The turns hold every word of the items in its place, every call in      *)
(* order, and every answer to it behind it.                                *)
Faithful(turns, items) ==
    LET all(f(_)) == FlattenSeq([k \in DOMAIN turns |-> f(turns[k])])
        mine(t) == t.role = "assistant"
        called == SelectSeq(items, LAMBDA i : i.kind = "call")
        answered == all(LAMBDA t : (IF t.role = "tool" THEN <<t.id>> ELSE <<>>)
                                   \o [k \in DOMAIN t.answers |-> t.answers[k].id])
    IN  /\ setup.dialect # "step3p5" =>
               all(LAMBDA t : Words(t.reasoning)) = WordsOf(items, "reasoning")
        /\ all(LAMBDA t : IF mine(t) THEN Words(t.text) ELSE <<>>) = WordsOf(items, "assistant")
        /\ all(LAMBDA t : t.calls) = [k \in DOMAIN called |-> [id |-> called[k].id, text |-> called[k].text]]
        /\ setup.dialect # "deepseek_v4" =>
               answered = [k \in DOMAIN SelectSeq(items, LAMBDA i : i.kind = "result") |->
                              SelectSeq(items, LAMBDA i : i.kind = "result")[k].id]

(* DeepSeek's turns do not name the call that they answer: its prompt has  *)
(* the answers in the order of the calls, and ends where an output begins. *)
ShownInOrder(turns) ==
    LET thinking == setup.reasoning # "disabled"
        prompt == History!RenderPrompt(turns, Planning!ExposedNames(setup) # {}, thinking)
        replies == FlattenSeq([k \in DOMAIN CallsOf(coarse) |-> Reply(k - 1)])
    IN  /\ IsSuffix(History!ThinkMark(Planning!StartMode(setup) = "reasoning"), prompt)
        /\ CallsOf(coarse) # <<>> => Last(turns).text = replies \o <<"b">>

(* The answer can be continued: stored, its items make a prompt of the     *)
(* next request that says what they said, unless reasoning comes where     *)
(* the dialect's turn has no place for it; so do they when the client      *)
(* sends them back, which may begin a segment of the assistant's turn.     *)
OutputsContinue ==
    LET items == History!OutputItems(coarse)
        blank(i) == History!Blank(i.text)
        solid(i) == ~History!Blank(i.text)
        dialect == setup.dialect
        stored(i) == dialect # "qwen" \/ solid(i)
        dropped == dialect \in {"step3p5", "generic_hf"}
    IN  outcome = "completed" => \A h \in Continued(items) :
            LET prepared == History!Prepare(dialect, h)
                echoed == History!Prepare(dialect, History!ParseInput(h))
            IN  /\ prepared.refused = (~dropped /\ Unplaced(items, stored))
                /\ ~prepared.refused => Faithful(prepared.turns, h)
                /\ ~dropped /\ echoed.refused => Unplaced(items, blank)
                /\ ~echoed.refused => Faithful(echoed.turns, h)
                /\ dialect = "deepseek_v4" /\ ~prepared.refused => ShownInOrder(prepared.turns)

-----------------------------------------------------------------------------
(* What was promised, and what was kept.                                   *)

Executable == ~plan.refused /\ plan.constraint.kind = "executable"
Generated(b) == {i \in DOMAIN b.args : b.args[i].generated}

(* The branch of a tool has every argument that the tool requires, and is  *)
(* worth no more than the arguments in it.                                 *)
BranchIsSound(b, t) ==
    /\ b.name = t.name /\ b.strict = t.strict /\ b.guarantee # "none"
    /\ t.strict => b.guarantee = "schema"
    /\ setup.dialect = "qwen" =>
           /\ b.order = Generated(b)
           /\ \A i \in DOMAIN t.args : t.args[i].required => i \in b.order
           /\ b.guarantee = "schema" =>
                  t.object /\ \A i \in b.order : b.args[i].guarantee = "schema"

(* The request with optional arguments that are never tried: those of tool *)
(* k, or of all tools.                                                     *)
WithoutOptional(a) == IF a.required THEN a ELSE [a EXCEPT !.named = FALSE, !.ref = "none"]
Untried(ks) ==
    [setup EXCEPT !.tools =
        [k \in DOMAIN @ |->
            IF k \notin ks THEN @[k]
            ELSE [@[k] EXCEPT !.args = [i \in DOMAIN @ |-> WithoutOptional(@[i])]]]]
LeftOut(k) == DOMAIN plan.constraint.branches[k].args # plan.constraint.branches[k].order

(* What a plan promises it can afford and can generate; optional arguments *)
(* that did not get into it leave no trace in it, and none of them costs   *)
(* the request its constraint.                                             *)
PlanIsSound ==
    LET c == plan.constraint
        exposed == Planning!Exposed(setup)
    IN  /\ Executable =>
               /\ Len(c.branches) = Len(exposed)
               /\ \A k \in DOMAIN exposed : BranchIsSound(c.branches[k], exposed[k])
               /\ c.spent <= setup.limits.budget
               /\ c.nodes <= setup.limits.nodes /\ c.wire <= setup.limits.wire
        /\ setup.dialect = "qwen" /\ setup.choice # "named" =>
               /\ Planning!Constraint(Untried(DOMAIN setup.tools)).kind = c.kind
               /\ \A k \in DOMAIN c.branches : LeftOut(k) =>
                      Planning!Constraint(Untried({k})).branches = c.branches
        /\ plan.budget # "none" /\ ~plan.refused =>
               ~Executable /\ ~plan.hint /\ Planning!StartMode(setup) = "reasoning"

(* A plan is sound; no word is written without the constraint that a strict *)
(* tool or format was promised, and an answer with a call of a strict tool *)
(* has it from the control token that activated it.                        *)
PlanIsHonest ==
    LET active == Planning!Active(installed, Triggered)
        strict == \E t \in ToSet(setup.tools) : t.name = "f" /\ t.strict
    IN  /\ installed = Waiting => PlanIsSound
        /\ written # <<>> /\ plan.closed => installed.state \in {"installed", "active"}
        /\ coarse.calls > 0 /\ Executable /\ installed.state = "installed" /\ setup.dialect = "qwen"
               => active
        /\ outcome = "completed" /\ plan.closed =>
               /\ coarse.calls > 0 /\ strict => active /\ installed.guarantee # "none"
               /\ coarse.calls = 0 /\ plan.hint => active
=============================================================================
