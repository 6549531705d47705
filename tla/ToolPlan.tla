------------------------------ MODULE ToolPlan ------------------------------
(***************************************************************************)
(* What a constrained generation of Qwen's tool calls can guarantee        *)
(* (tool_wire/compiler.py, compile_tool_wire_plan, and                     *)
(* tool_wire/controls/qwen.py).  A plan has a branch per exposed tool; the *)
(* mandatory arguments of all tools come first, the optional arguments of  *)
(* a tool join all together or not at all, as far as the budget and the    *)
(* hard limits allow.                                                      *)
(*                                                                         *)
(* The four dimensions of the compile budget are charged and checked       *)
(* alike: they are one here.  A schema is what its proofs find out:        *)
(*   tool      [name, strict, named, shaped, object, bytes, root, args]    *)
(*   argument  [required, named, raw, finite, listed, admitted, supported, *)
(*              shaped, witness, nodes, ref, expanded]                     *)
(* named: its name can be written; shaped: it has the form that the        *)
(* compiler reads; object: the object as a whole is supported and has a    *)
(* value; bytes, root, nodes: sizes; raw: a string without quotes; listed, *)
(* admitted: the size of the values of an enumeration, of those that the   *)
(* schema admits; witness: a value was found; ref: the shared definition   *)
(* that it names ("none"), of size expanded.                               *)
(***************************************************************************)
EXTENDS Naturals, Sequences, FiniteSets, TLC
LOCAL INSTANCE SequencesExt
LOCAL INSTANCE FiniteSetsExt

Rank(g) == CASE g = "schema" -> 2 [] g = "format" -> 1 [] OTHER -> 0

Weaker(g, h) == IF Rank(g) <= Rank(h) THEN g ELSE h
WeakestOf(gs) == CHOOSE g \in gs : \A h \in gs : Rank(g) <= Rank(h)

SumOver(s, f(_)) == FoldLeft(LAMBDA n, x : n + f(x), 0, s)

-----------------------------------------------------------------------------
(* The ledger of the budget and the hard limits.                           *)

NewLedger == [spent |-> 0, nodes |-> 0, wire |-> 0, rejected |-> FALSE]

Reject(l) == [l EXCEPT !.rejected = TRUE]

(* reserve: what goes beyond the budget is recorded, too.                  *)
Reserve(l, n, limits) ==
    [l EXCEPT !.spent = @ + n, !.rejected = @ \/ l.spent + n > limits.budget]

(* consume_schema_nodes, consume_finite_wire_payload_bytes.                *)
ConsumeNodes(l, n, limits) ==
    IF l.nodes + n > limits.nodes THEN Reject(l) ELSE [l EXCEPT !.nodes = @ + n]
ConsumeWire(l, n, limits) ==
    IF l.wire + n > limits.wire THEN Reject(l) ELSE [l EXCEPT !.wire = @ + n]

-----------------------------------------------------------------------------
(* What one argument guarantees.                                           *)

(* The values that are written out for an enumeration.                     *)
Wire(a, mode) ==
    IF ~(a.named /\ a.raw /\ a.finite) THEN 0
    ELSE IF mode = "format" THEN a.listed ELSE a.admitted

(* _raw_argument_proof.                                                    *)
RawProof(a, mode) ==
    IF a.finite
    THEN IF Wire(a, mode) = 0 THEN "none" ELSE IF a.supported THEN "schema"
         ELSE IF mode = "format" THEN "format" ELSE "none"
    ELSE IF mode = "format" THEN "format" ELSE IF a.supported /\ a.witness THEN "schema" ELSE "none"

(* _structured_argument_proof: without its schema a value is of its type.  *)
StructuredProof(a, mode) ==
    IF mode = "format" THEN IF a.shaped THEN "format" ELSE "none"
    ELSE IF a.supported /\ a.shaped /\ (IF a.finite THEN a.admitted > 0 ELSE a.witness)
         THEN "schema" ELSE "none"

(* _cap_guarantee_to_mode, _argument_is_generated.                         *)
Proof(a, mode) ==
    LET proof == IF ~a.named THEN "none"
                 ELSE IF a.raw THEN RawProof(a, mode) ELSE StructuredProof(a, mode)
        capped == IF mode = "format" THEN Weaker(proof, "format") ELSE proof
    IN  IF mode = "schema" /\ capped # "schema" THEN "none" ELSE capped

Size(a) == IF a.ref = "none" THEN a.nodes ELSE a.expanded

NotSelected(a) ==
    [required |-> a.required, generated |-> FALSE, guarantee |-> "none", wire |-> 0, bytes |-> 0]

(* _compile_argument: one that is no schema may do as a format; one whose  *)
(* values do not fit is too much, even if the other attempt would not be.  *)
Generated(a, used, proof) ==
    LET wire == IF proof = "none" THEN 0 ELSE Wire(a, used)
    IN  [NotSelected(a) EXCEPT
            !.generated = proof # "none", !.guarantee = proof, !.wire = wire,
            !.bytes = IF proof = "none" \/ (a.raw /\ ~a.finite) THEN 0
                      ELSE IF a.raw THEN wire ELSE Size(a)]
CompileArgument(a, mode, fallback, limit) ==
    LET again == fallback /\ mode = "schema" /\ a.named /\ Proof(a, mode) = "none"
        used == IF again THEN "format" ELSE mode
    IN  [exceeded |-> \E m \in {mode, used} : Wire(a, m) > limit,
         argument |-> Generated(a, used, Proof(a, used))]

-----------------------------------------------------------------------------
(* The mandatory part of every tool.                                       *)

(* _resolved_prepared_property_schema: a definition is resolved once for a *)
(* tool.                                                                   *)
Resolve(l, cache, a, limits) ==
    IF a.ref \in cache \cup {"none"} THEN [ledger |-> l, cache |-> cache]
    ELSE [ledger |-> ConsumeNodes(l, a.expanded, limits), cache |-> cache \cup {a.ref}]

(* _semantic_schema_product_cost of the properties that are included.      *)
PropertyCost(args) == SumOver(args, LAMBDA a : a.nodes + 2)

Required(t) == SelectSeq(t.args, LAMBDA a : a.required)
Optional(t) == SelectSeq(t.args, LAMBDA a : ~a.required)

(* The first pass over the tools: the source, its nodes, its minimal cost. *)
Admit(l, t, limits) ==
    LET nodes == t.root + SumOver(t.args, LAMBDA a : a.nodes)
        charged == Reserve(l, t.bytes, limits)
    IN  IF l.rejected \/ charged.rejected THEN charged
        ELSE Reserve(ConsumeNodes(charged, nodes, limits), t.root + PropertyCost(Required(t)), limits)

(* _tool_guarantee.                                                        *)
ToolGuarantee(args, mode, object) ==
    LET relevant == {i \in DOMAIN args : args[i].required \/ args[i].generated}
        weakest == WeakestOf({args[i].guarantee : i \in relevant})
        whole == mode = "schema" /\ object
    IN  IF \E i \in relevant : ~args[i].generated THEN "none"
        ELSE IF relevant = {} THEN IF whole THEN "schema" ELSE "format"
        ELSE IF weakest = "schema" /\ ~whole THEN "format" ELSE weakest

(* One more argument for the tool, compiled to c.                          *)
AddArgument(s, a, c, limits) ==
    IF s.ledger.rejected THEN s
    ELSE IF ~a.required THEN [s EXCEPT !.args = Append(@, NotSelected(a))]
    ELSE [s EXCEPT
             !.ledger = IF c.exceeded THEN Reject(@)
                        ELSE Reserve(ConsumeWire(@, c.argument.wire, limits), c.argument.bytes, limits),
             !.args = Append(@, c.argument)]

(* A tool that may fall back to a format does so as a whole.               *)
Settled(s, t, mode) ==
    LET guarantee == IF t.named THEN ToolGuarantee(s.args, mode, t.object) ELSE "none"
        weaker == mode = "schema" /\ ~t.strict /\ guarantee = "format"
    IN  s @@ [tool |-> t, mode |-> IF weaker THEN "format" ELSE mode,
              object |-> t.object /\ mode # "format"]

(* _compile_tool_semantics.                                                *)
Semantics(l, t, mode, limits) ==
    LET resolved == FoldLeft(LAMBDA r, a : Resolve(r.ledger, r.cache, a, limits),
                             [ledger |-> l, cache |-> {}], Required(t))
        add(s, a) ==
            AddArgument(s, a, CompileArgument(a, mode, ~t.strict, limits.wire - s.ledger.wire), limits)
    IN  Settled(FoldLeft(add, resolved @@ [args |-> <<>>], t.args), t, mode)

(* _materialize_tool_branch: order has the arguments that can be written.  *)
Materialize(s, args, order) ==
    LET guarantee == IF s.tool.named THEN ToolGuarantee(args, s.mode, s.object) ELSE "none"
    IN  [name |-> s.tool.name, strict |-> s.tool.strict, args |-> args, order |-> order,
         guarantee |-> guarantee,
         representable |->
             /\ s.tool.named
             /\ \A i \in DOMAIN args : args[i].required => args[i].generated
             /\ (s.mode = "schema" \/ s.tool.strict) => guarantee = "schema"]

RequiredOf(args) == {i \in DOMAIN args : args[i].required}
Minimal(s) == Materialize(s, s.args, RequiredOf(s.args))

-----------------------------------------------------------------------------
(* The plan.                                                               *)

(* _compile_disposition.                                                   *)
Disposition(branches) ==
    LET all == ToSet(branches)
        strict == {b \in all : b.strict}
    IN  IF branches = <<>> THEN "validation"
        ELSE IF \A b \in all : /\ b.representable /\ b.guarantee # "none"
                               /\ b.strict => b.guarantee = "schema" THEN "executable"
        ELSE IF strict # {} THEN "rejected" ELSE "validation"

(* _order_product_cost, and the cost of the grammar if there is one.       *)
ProductCost(branches) ==
    SumOver(branches, LAMBDA b : 2 + 2 * Cardinality(b.order))
    + IF Disposition(branches) # "executable" THEN 0
      ELSE SumOver(branches, LAMBDA b : 1 + Cardinality(b.order))

WireOf(branches) == SumOver(branches, LAMBDA b : SumOver(b.args, LAMBDA a : a.wire))

(* _candidate_products_fit.                                                *)
Fits(l, branches, extra, limits) ==
    /\ l.spent + extra + ProductCost(branches) <= limits.budget
    /\ WireOf(branches) <= limits.wire

(* _compile_optional_argument_candidates of a tool, from the state c of    *)
(* the arguments before it.                                                *)
Candidate(c, a, resolved, compiled) ==
    LET argument == compiled.argument
    IN  IF a.required THEN [c EXCEPT !.args = Append(@, c.old[Len(c.args) + 1])]
        ELSE IF c.failed \/ resolved.ledger.rejected \/ compiled.exceeded \/ ~argument.generated
        THEN [c EXCEPT !.failed = TRUE, !.args = Append(@, NotSelected(a))]
        ELSE [c EXCEPT !.ledger = resolved.ledger, !.cache = resolved.cache,
                       !.wire = @ + argument.wire, !.bytes = @ + argument.bytes,
                       !.args = Append(@, argument)]

Candidates(e, s, limits) ==
    FoldLeft(LAMBDA c, a :
                 Candidate(c, a, Resolve(c.ledger, c.cache, a, limits),
                           CompileArgument(a, s.mode, FALSE,
                                           limits.wire - WireOf(e.branches) - c.wire)),
             [ledger |-> e.ledger, cache |-> s.cache, wire |-> 0, bytes |-> 0, failed |-> FALSE,
              args |-> <<>>, old |-> s.args], s.tool.args)

(* Faulty variant: what a rejected attempt resolved stays consumed.        *)
BugJoin(e, k, c, limits) ==
    LET s == e.semantics[k]
        branches == [e.branches EXCEPT ![k] = Materialize(s, c.args, DOMAIN c.args)]
        extra == e.extra + c.bytes + PropertyCost(Optional(s.tool))
    IN  IF Optional(s.tool) = <<>> THEN e
        ELSE IF c.failed \/ ~Fits(e.ledger, branches, extra, limits)
        THEN [e EXCEPT !.ledger.nodes = c.ledger.nodes]
        ELSE [e EXCEPT !.branches = branches, !.extra = extra, !.ledger = c.ledger]

(* The optional arguments of tool k, compiled to c, join the plan if all   *)
(* of them can and the whole still fits; an attempt that fails leaves      *)
(* nothing behind.                                                         *)
Join(e, k, c, limits) ==
    LET s == e.semantics[k]
        branches == [e.branches EXCEPT ![k] = Materialize(s, c.args, DOMAIN c.args)]
        extra == e.extra + c.bytes + PropertyCost(Optional(s.tool))
    IN  IF Optional(s.tool) = <<>> \/ c.failed \/ ~Fits(e.ledger, branches, extra, limits) THEN e
        ELSE [e EXCEPT !.branches = branches, !.extra = extra, !.ledger = c.ledger]

Enrich(e, k, limits) == Join(e, k, Candidates(e, e.semantics[k], limits), limits)

RejectedPlan(l) == [disposition |-> "rejected", branches |-> <<>>, spent |-> l.spent,
                    nodes |-> l.nodes, wire |-> l.wire]

(* compile_tool_wire_plan; modes[i] is the mode of the i-th tool.          *)
AddTool(m, s) ==
    IF m.ledger.rejected THEN m ELSE [ledger |-> s.ledger, semantics |-> Append(m.semantics, s)]
Mandatory(tools, modes, limits) ==
    LET opened == Reserve(NewLedger, 1 + Len(tools), limits)
        admitted == FoldLeft(LAMBDA l, t : IF l.rejected THEN l ELSE Admit(l, t, limits), opened, tools)
    IN  FoldLeft(LAMBDA m, i : AddTool(m, Semantics(m.ledger, tools[i], modes[i], limits)),
                 [ledger |-> admitted, semantics |-> <<>>], [i \in DOMAIN tools |-> i])

PlanOf(e) ==
    [disposition |-> Disposition(e.branches), branches |-> e.branches,
     spent |-> e.ledger.spent + e.extra + ProductCost(e.branches),
     nodes |-> e.ledger.nodes, wire |-> WireOf(e.branches)]

PlanFrom(e, limits) ==
    IF e.ledger.rejected \/ ~Fits(e.ledger, e.branches, 0, limits) THEN RejectedPlan(e.ledger)
    ELSE PlanOf(FoldLeft(LAMBDA f, k : Enrich(f, k, limits), e, [k \in DOMAIN e.semantics |-> k]))

Begun(m) ==
    m @@ [branches |-> [i \in DOMAIN m.semantics |-> Minimal(m.semantics[i])], extra |-> 0]

Compile(tools, modes, limits) == PlanFrom(Begun(Mandatory(tools, modes, limits)), limits)

-----------------------------------------------------------------------------
(* Qwen's use of it (_compile_qwen_tool_wire_uncached,                     *)
(* qwen_production_tool_constraint).                                       *)

HasStrict(tools) == \E t \in ToSet(tools) : t.strict

(* _qwen_effective_tool_modes: next to a strict tool no other is free.     *)
EffectiveMode(t, mode) == IF mode = "schema" \/ t.strict THEN "schema" ELSE "format"

Unconstrained(kind) == [kind |-> kind, branches |-> <<>>, calls |-> 0, spent |-> 0, nodes |-> 0, wire |-> 0]

(* kind: the request is refused, the calls are only validated, or they are *)
(* constrained, with at most calls of them in a row.                       *)
Constrained(plan, strict, parallel) ==
    IF plan.disposition # "executable" THEN Unconstrained(IF strict THEN "refused" ELSE "validation")
    ELSE [kind |-> "executable", branches |-> plan.branches, calls |-> parallel,
          spent |-> plan.spent, nodes |-> plan.nodes, wire |-> plan.wire]

Constrain(tools, mode, parallel, limits) ==
    LET strict == HasStrict(tools)
        oversized == \/ Len(tools) > limits.tools
                     \/ SumOver(tools, LAMBDA t : t.bytes) > limits.source
        otherwise(cond) == Unconstrained(IF cond THEN "refused" ELSE "validation")
        modes == [i \in DOMAIN tools |-> EffectiveMode(tools[i], mode)]
    IN  IF tools = <<>> \/ (mode = "off" /\ ~strict) THEN Unconstrained("validation")
        ELSE IF oversized THEN otherwise(strict)
        ELSE IF \E t \in ToSet(tools) : ~t.shaped THEN otherwise(strict \/ mode = "schema")
        ELSE Constrained(Compile(tools, modes, limits), strict, parallel)
=============================================================================
