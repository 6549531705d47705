--------------------------- MODULE MCOutputParsing ---------------------------
(***************************************************************************)
(* A small instance of OutputParsing for TLC: for each dialect what its    *)
(* model may write, with a whole tag or a whole call as one token where    *)
(* the parser reads it as one; and requests whose tools strain the limits  *)
(* of the plan.                                                            *)
(***************************************************************************)
EXTENDS OutputParsing
LOCAL INSTANCE SequencesExt

(* A tool without arguments, and limits that nothing here reaches.         *)
Tool == [name |-> "f", strict |-> FALSE, named |-> TRUE, shaped |-> TRUE, object |-> TRUE,
         bytes |-> 1, root |-> 1, args |-> <<>>]
Ample == [budget |-> 99, nodes |-> 99, wire |-> 99, tools |-> 9, source |-> 99]
Whole1 == [tokens |-> "one", filter |-> "ok"]

Request ==
    [dialect |-> "generic_hf", reasoning |-> "auto", choice |-> "auto", name |-> "f",
     tools |-> <<Tool>>, parallel |-> TRUE, structured |-> "none", budget |-> "default",
     mode |-> "off", width |-> 2, limits |-> Ample, default |-> FALSE, constraints |-> TRUE,
     textOnly |-> FALSE, trigger |-> FALSE,
     length |-> 4, tokens |-> {}, once |-> {}, known |-> {TRUE}, tracked |-> FALSE,
     answers |-> {Whole1}]

(* Both ways to begin an output; one that begins in its reasoning needs a  *)
(* token more to get to the same place.                                    *)
Common(dialect, length, tokens) ==
    LET r == [Request EXCEPT !.dialect = dialect, !.length = length, !.tokens = tokens]
    IN  {[r EXCEPT !.reasoning = "enabled"],
         [r EXCEPT !.reasoning = "disabled", !.length = length - 1]}

GlmSetups ==
    Common("glm5", 4, {<<"a">>, <<"n">>, <<"<">>, <<"think>">>, <<"<", "think>">>,
        <<"<", "/think>">>, <<"<", "tool_call>">>, <<"call", "<", "/tool_call>">>})

StepSetups ==
    {s \in Common("step3p5", 4, {<<"a">>, <<"n">>, <<"<">>, <<"/think>">>, <<"<", "think>">>,
        <<"<", "/think>">>}) : s.reasoning = "enabled"}

DeepSeekSetups ==
    {[s EXCEPT !.once = {<<"<", "invoke", "{">>}, !.tools = t] :
        t \in {<<Tool>>, <<[Tool EXCEPT !.name = "g"]>>},
        s \in Common("deepseek_v4", 4, {<<"a">>, <<"n">>, <<"<", "/think>">>, <<"<", "calls>">>,
            <<"<", "invoke", "call", "<", "/invoke>">>, <<"<", "invoke", "{">>,
            <<"}", "<", "/invoke>">>, <<"<", "/calls>">>})}
    \cup Common("deepseek_v4", 3, {<<"a">>, <<"<">>, <<"<", "think>">>, <<"<", "/think>">>,
            <<"<", "calls>">>, <<"<", "toolcalls>">>})

GemmaSetups ==
    Common("gemma4", 4, {<<"a">>, <<"n">>, <<"tick">>, <<"<">>, <<"<", "|think">>,
        <<"<", "think|">>, <<"<", "|tool">>, <<"call{", "q", "a">>, <<"q", "}", "<", "tool|">>,
        <<"<", "tool|">>})

MuseTokens ==
    {<<"a">>, <<"<">>, <<"|eom|>">>, <<" to=">>, <<"self">>, <<"f">>, <<"<|message|>">>,
     <<"<|eom|>">>, <<"<|start|>">>, <<"assistant">>, <<"{", "invoke", "}">>}

MuseSetups ==
    {[Request EXCEPT !.dialect = "muse_glimmer", !.tokens = MuseTokens],
     [Request EXCEPT !.dialect = "muse_glimmer", !.tokens = MuseTokens, !.known = BOOLEAN,
                     !.length = 3]}

QwenCall == {<<"fn", "par", "a">>, <<"/par", "/fn", "<", "/tool_call>">>}

QwenPlainSetups ==
    {[s EXCEPT !.known = {FALSE}] :
        s \in Common("qwen", 4, QwenCall \cup {<<"a">>, <<"n">>, <<"tick">>, <<"dq">>, <<"<">>,
            <<"<", "think>">>, <<"<", "/think>">>, <<"<", "tool_call>">>})}

QwenTrackedSetups ==
    LET setups == Common("qwen", 4, QwenCall \cup {<<"a">>, <<"n">>, <<"tick">>, <<"tick", "n">>,
                      <<"n", "tick">>, <<"dq">>, <<"</think>">>, <<"<tool_call>">>})
    IN  {[s EXCEPT !.tracked = TRUE] : s \in setups}
        \cup {[s EXCEPT !.tracked = TRUE, !.choice = "required", !.length = 3] : s \in setups}

QwenMixedSetups ==
    {[s EXCEPT !.tracked = TRUE, !.known = BOOLEAN] :
        s \in {t \in Common("qwen", 4, {<<"a">>, <<"tick">>, <<"<">>, <<"think>">>, <<"</think>">>,
                   <<"<tool_call>">>, <<"fn", "par", "a", "/par", "/fn", "<", "/tool_call>">>}) :
                   t.reasoning = "enabled"}}

(* Spans of inline code that cross a line around a control token take more *)
(* tokens, of fewer kinds.                                                 *)
QwenSpanSetups ==
    LET span == {<<"tick", "n", "tick">>, <<"tick">>, <<"</think>">>, <<"<tool_call>">>}
        r == [Request EXCEPT !.dialect = "qwen", !.reasoning = "enabled", !.tracked = TRUE]
    IN  {[r EXCEPT !.length = 5, !.tokens = span \cup {<<"n">>, <<"a">>}],
         [r EXCEPT !.tokens = span, !.known = BOOLEAN]}

Strict == [Tool EXCEPT !.strict = TRUE]

QwenSessionSetups ==
    {[s EXCEPT !.tracked = TRUE, !.tools = <<Strict>>] :
        s \in Common("qwen", 4, {<<"fn", "par", "a">>, <<"/par", "/fn", "<">>, <<"/tool_call>">>,
                <<"a">>, <<"n">>, <<"/par">>, <<"</think>">>, <<"<tool_call>">>})
            \cup Common("qwen", 6, {<<"<tool_call>">>, <<"fn", "par", "a", "/par", "/fn">>,
                <<"</tool_call>">>, <<"n">>})}

(* Nothing is written: what can be promised?  Arguments of all kinds, that *)
(* do or do not fit together.                                              *)
Arg == [required |-> FALSE, named |-> TRUE, raw |-> TRUE, finite |-> FALSE, listed |-> 0,
        admitted |-> 0, supported |-> TRUE, shaped |-> TRUE, witness |-> TRUE, nodes |-> 1,
        ref |-> "none", expanded |-> 0]
Args == {[Arg EXCEPT !.required = TRUE], Arg,
         [Arg EXCEPT !.raw = FALSE, !.ref = "d", !.expanded = 3],
         [Arg EXCEPT !.ref = "d", !.expanded = 3, !.supported = FALSE],
         [Arg EXCEPT !.finite = TRUE, !.listed = 4, !.admitted = 2],
         [Arg EXCEPT !.required = TRUE, !.finite = TRUE, !.listed = 3, !.admitted = 0]}
ToolsF == {[Tool EXCEPT !.args = q, !.strict = s] : q \in SeqOf(Args, 2), s \in BOOLEAN}
ToolsG == {[Tool EXCEPT !.name = "g", !.args = q] :
              q \in {<<>>, <<Arg, [Arg EXCEPT !.ref = "d", !.expanded = 2]>>}}

PlanSetups ==
    {[Request EXCEPT !.dialect = "qwen", !.length = 0, !.tools = t, !.mode = m, !.limits = l] :
        t \in {<<f>> : f \in ToolsF} \cup {<<f, g>> : f \in ToolsF, g \in ToolsG},
        m \in {"format", "schema"},
        l \in {[Ample EXCEPT !.budget = 30], [Ample EXCEPT !.budget = 42],
               [Ample EXCEPT !.nodes = 8], [Ample EXCEPT !.nodes = 10],
               [Ample EXCEPT !.wire = 3]}}

(* What is asked for, and what the backend says to it.                     *)
Answers == [tokens : {"one", "many", "raises"}, filter : {"ok", "refused", "broken"}]

PromiseSetups ==
    {[Request EXCEPT !.dialect = d, !.reasoning = r, !.structured = f, !.budget = b,
                     !.default = TRUE, !.textOnly = x, !.trigger = y, !.tools = t, !.mode = m,
                     !.length = 1, !.tokens = {<<"a">>, <<"</think>">>}, !.tracked = TRUE,
                     !.answers = Answers] :
        d \in {"qwen", "gemma4", "deepseek_v4", "step3p5"}, r \in {"enabled", "disabled"},
        f \in {"none", "object", "strict"}, b \in {"default", "explicit"},
        x \in BOOLEAN, y \in BOOLEAN, t \in {<<>>, <<Strict>>}, m \in {"off", "format"}}

GenericSetups == Common("generic_hf", 3, {<<"a">>, <<"n">>, <<"<", "think>">>})

MCSetups ==
    GenericSetups \cup GlmSetups \cup StepSetups \cup DeepSeekSetups \cup GemmaSetups \cup MuseSetups
    \cup QwenPlainSetups \cup QwenTrackedSetups \cup QwenMixedSetups \cup QwenSpanSetups
    \cup QwenSessionSetups \cup PlanSetups \cup PromiseSetups
=============================================================================
