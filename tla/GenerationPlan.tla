--------------------------- MODULE GenerationPlan ---------------------------
(***************************************************************************)
(* What the server promises about an output before it is generated, and    *)
(* what the backend then enforces (serving/guarantees.py, the planning     *)
(* part of serving/engine.py, the constraint that runtime/exllamav3.py     *)
(* installs).  A request is a record:                                      *)
(*   dialect, reasoning, choice, name, tools, parallel, structured, budget *)
(*                    what the client asks for (structured: "none", "any", *)
(*                    "object" or "strict"; budget: "default", "explicit"  *)
(*                    or "disable")                                        *)
(*   mode, width, limits, default                                          *)
(*                    the configuration: how calls are constrained, how    *)
(*                    many in a row, the compile limits, whether there is  *)
(*                    a reasoning budget                                   *)
(*   constraints, textOnly, trigger                                        *)
(*                    whether the runtime can constrain at all, whether    *)
(*                    the prompt leaves only text to write, and whether it *)
(*                    names a control token that begins the text           *)
(***************************************************************************)
EXTENDS ToolPlan
LOCAL INSTANCE SequencesExt

-----------------------------------------------------------------------------
(* What is asked for.                                                      *)

(* _exposed_tools.                                                         *)
Exposed(r) ==
    CASE r.choice = "none" -> <<>>
      [] r.choice = "named" -> SelectSeq(r.tools, LAMBDA t : t.name = r.name)
      [] OTHER -> r.tools
ExposedNames(r) == {t.name : t \in ToSet(Exposed(r))}

(* The channel a parser begins with (model/registry.py, create_parser).    *)
StartMode(r) ==
    CASE r.dialect \in {"qwen", "glm5", "deepseek_v4"} ->
             IF r.reasoning = "disabled" THEN "text" ELSE "reasoning"
      [] r.dialect = "gemma4" -> IF r.reasoning = "enabled" THEN "reasoning" ELSE "text"
      [] r.dialect = "step3p5" -> "reasoning"
      [] r.dialect = "muse_glimmer" -> "header"
      [] OTHER -> "text"

(* These two cannot be told not to reason.                                 *)
Compiles(r) == r.reasoning = "disabled" => r.dialect \notin {"step3p5", "muse_glimmer"}

(* resolve_effective_model_snapshot.                                       *)
CanConstrainTools(r) == r.constraints /\ r.dialect \in {"qwen", "gemma4"}

(* gemma4_tool_constraint: the schemas are left to the backend.            *)
GemmaConstrain(tools, mode, parallel) ==
    LET branch(t) == [name |-> t.name, strict |-> t.strict, args |-> <<>>, order |-> {},
                      guarantee |-> EffectiveMode(t, mode), representable |-> TRUE]
    IN  CASE tools = <<>> \/ (mode = "off" /\ ~HasStrict(tools)) -> Unconstrained("validation")
          [] (HasStrict(tools) /\ parallel) \/ \E t \in ToSet(tools) : ~t.named ->
                 Unconstrained("refused")
          [] OTHER -> [Unconstrained("executable")
                          EXCEPT !.branches = [i \in DOMAIN tools |-> branch(tools[i])]]

Constraint(r) ==
    CASE ~CanConstrainTools(r) -> Unconstrained("validation")
      [] CanConstrainTools(r) /\ r.dialect = "gemma4" ->
             GemmaConstrain(Exposed(r), r.mode, r.parallel)
      [] OTHER -> Constrain(Exposed(r), r.mode, IF r.parallel THEN r.width ELSE 1, r.limits)

-----------------------------------------------------------------------------
(* The plan of the request (RequestGuaranteeResolver, _prepare_submission).*)

(* resolve_tool_policy: a strict tool needs its branch.                    *)
Promised(r, c) ==
    HasStrict(Exposed(r)) =>
        c.kind = "executable" /\ \A b \in ToSet(c.branches) : b.strict => b.guarantee = "schema"

(* resolve_structured_output: what is asked of the backend for it.         *)
Structured(r) ==
    LET wanted == CASE r.structured = "strict" -> "schema" [] r.structured = "object" -> "format"
                    [] OTHER -> "none"
        possible == r.constraints /\ (r.textOnly \/ r.trigger)
    IN  [wanted |-> wanted,
         refused |-> r.structured # "none" /\ ~possible /\ wanted # "none",
         hint |-> r.structured # "none" /\ possible,
         closed |-> wanted # "none",
         guarantee |-> IF wanted = "none" THEN "schema" ELSE wanted]

(* _resolve_reasoning_budget: a budget would cut into what is constrained. *)
Budget(r, constrained) ==
    LET asked == IF r.reasoning = "disabled" \/ r.budget = "disable" THEN "none"
                 ELSE IF r.budget = "explicit" THEN "request"
                 ELSE IF r.default THEN "server" ELSE "none"
        able == ~constrained /\ StartMode(r) = "reasoning" /\ r.dialect # "step3p5"
    IN  CASE r.budget = "explicit" /\ (r.reasoning = "disabled" \/ ~able) -> "refused"
          [] asked # "none" /\ able -> asked
          [] OTHER -> "none"

PlanWith(r, c) ==
    LET s == Structured(r)
        constrained == c.kind = "executable"
        budget == Budget(r, constrained \/ s.hint)
    IN  [refused |-> \/ ~Compiles(r) \/ c.kind = "refused" \/ ~Promised(r, c)
                     \/ s.refused \/ (constrained /\ s.hint) \/ budget = "refused",
         constraint |-> c, hint |-> s.hint, budget |-> budget,
         closed |-> IF constrained THEN HasStrict(Exposed(r)) ELSE s.closed,
         trigger |-> constrained \/ ~r.textOnly,
         guarantee |-> IF constrained
                       THEN WeakestOf({b.guarantee : b \in ToSet(c.branches)})
                       ELSE IF s.hint THEN s.guarantee ELSE "none"]

Plan(r) == PlanWith(r, Constraint(r))

-----------------------------------------------------------------------------
(* The backend (_build_output_filters, _ConstraintEnforcementState).      *)

NotInstalled == [state |-> "none", guarantee |-> "none"]

(* tokens: into how many tokens the trigger falls; filter: what the        *)
(* library says to the grammar.  A request that was promised a guarantee   *)
(* fails without it.                                                       *)
Install(plan, tokens, filter) ==
    LET wanted == plan.constraint.kind = "executable" \/ plan.hint
        impossible == (plan.trigger /\ tokens # "one") \/ filter # "ok"
        broken == plan.hint /\ filter = "broken" /\ ~(plan.trigger /\ tokens # "one")
    IN  CASE ~wanted -> NotInstalled
          [] wanted /\ impossible ->
                 [NotInstalled EXCEPT !.state = IF plan.closed \/ broken THEN "failed" ELSE "none"]
          [] OTHER -> [state |-> IF plan.trigger THEN "installed" ELSE "active",
                       guarantee |-> plan.guarantee]

(* observe_token_ids, effective_guarantee.                                 *)
Active(i, triggered) == i.state = "active" \/ (i.state = "installed" /\ triggered)
Effective(i, triggered) == IF Active(i, triggered) THEN i.guarantee ELSE "none"

(* resolve_qwen_parser_context: which decoder reads the calls.             *)
Decoder(plan, i) ==
    IF plan.constraint.kind = "executable" /\ i.state = "installed" THEN "session" ELSE "text"

-----------------------------------------------------------------------------
(* The checks at the end of the output (_handle_runtime_finished,          *)
(* _handle_parser_terminal_issue, agent/validation.py).  o is the output:  *)
(*   [clean, fallback, calls, eos]                                         *)
(* clean: the parser reports nothing, fallback: it reports an ambiguity    *)
(* that became text; calls: how many there are, all of tool "f"; eos: the  *)
(* model ended it, not the limit on tokens.  That arguments and text obey  *)
(* their schemas where they are checked is left out.                       *)

(* _outside_tool_literal_fallback_allowed,                                 *)
(* _tool_scope_literal_fallback_allowed.                                   *)
FallbackAllowed(r, o) ==
    o.fallback /\ o.eos /\ o.calls = 0 /\ r.structured = "none" /\ r.choice \notin {"required", "named"}

(* validate_tool_calls.                                                    *)
CallsAreValid(r, o) ==
    /\ r.choice = "none" => o.calls = 0
    /\ r.choice \in {"required", "named"} => o.calls > 0
    /\ ~r.parallel => o.calls <= 1
    /\ o.calls > 0 => \E t \in ToSet(r.tools) : t.name = "f"
    /\ o.calls > 0 /\ r.choice = "named" => r.name = "f"

(* A strict tool was called under its schema, or not at all.               *)
StrictlyGenerated(r, plan, active) ==
    (\E t \in ToSet(r.tools) : t.name = "f" /\ t.strict) =>
        active /\ \E b \in ToSet(plan.constraint.branches) : b.name = "f" /\ b.guarantee = "schema"

Completes(r, plan, i, triggered, o) ==
    LET active == Active(i, triggered)
        wanted == Structured(r).wanted
        unconfirmed == ~o.eos /\ active /\ plan.constraint.kind = "executable" /\ r.dialect = "qwen"
    IN  \/ FallbackAllowed(r, o)
        \/ /\ o.clean
           /\ CallsAreValid(r, o)
           /\ o.calls > 0 => ~unconfirmed /\ StrictlyGenerated(r, plan, active)
           /\ o.calls = 0 => Rank(Effective(i, triggered)) >= Rank(wanted)
=============================================================================
