--------------------------- MODULE ToolBatchGate ---------------------------
(***************************************************************************)
(* The publication gate for Tool calls (serving/tool_batch.py,             *)
(* ToolCallBatchGate), as operators on the gate of one attempt.            *)
(*                                                                         *)
(* A gate operation returns the gate after it, the events that may be      *)
(* published at once, and a failure ("none" when the event is accepted).   *)
(* What an event says is reduced to its kind and its call; the schema and  *)
(* policy validation of a completed call is its verdict.                   *)
(***************************************************************************)
EXTENDS Naturals, Sequences, FiniteSets

CONSTANTS
    Calls,        \* identifiers of Tool calls
    Limit         \* the effective fan-out limit of one batch

ASSUME GateAssumption == Limit \in Nat \ {0}

Verdicts == {"valid", "tool_call_invalid", "tool_policy_violation"}

(* atomic: atomic_parallel_tools.                                          *)
NewGate(atomic) ==
    [atomic |-> atomic, accepted |-> {}, completed |-> <<>>, buffered |-> <<>>,
     life |-> "OPEN"]

Accepted(g, out) == [gate |-> g, out |-> out, fail |-> "none"]
Refused(g, why) == [gate |-> g, out |-> <<>>, fail |-> why]

(* Once something is buffered everything after it is, to keep the order.   *)
AcceptEvent(g, e) ==
    IF g.atomic \/ g.buffered # <<>>
    THEN Accepted([g EXCEPT !.buffered = Append(@, e)], <<>>)
    ELSE Accepted(g, <<e>>)

OnStarted(g, e) ==
    IF g.life # "OPEN" \/ e.call \in g.accepted
    THEN Refused(g, "tool_call_stream_invalid")
    ELSE IF Cardinality(g.accepted) >= Limit
    THEN Refused(g, "tool_policy_violation")
    ELSE AcceptEvent([g EXCEPT !.accepted = @ \cup {e.call}], e)

OnArgumentsDelta(g, e) ==
    IF g.life # "OPEN" \/ e.call \notin g.accepted
    THEN Refused(g, "tool_call_stream_invalid")
    ELSE AcceptEvent(g, e)

(* Faulty variant: a completed call is published at once.                  *)
BugOnCompleted(g, e, verdict) ==
    IF g.life # "OPEN" \/ e.call \notin g.accepted
    THEN Refused(g, "tool_call_stream_invalid")
    ELSE IF verdict # "valid" THEN Refused(g, verdict)
    ELSE AcceptEvent([g EXCEPT !.completed = Append(@, e.call)], e)

(* A completed call is validated with the ones before it and held back.    *)
OnCompleted(g, e, verdict) ==
    IF g.life # "OPEN" \/ e.call \notin g.accepted
    THEN Refused(g, "tool_call_stream_invalid")
    ELSE IF verdict # "valid" THEN Refused(g, verdict)
    ELSE Accepted([g EXCEPT !.completed = Append(@, e.call),
                            !.buffered = Append(@, e)], <<>>)

(* Faulty variant: text passes a gate that was closed.                     *)
BugOnPassthroughLate(g, e) == Accepted(g, <<e>>)

OnPassthrough(g, e) ==
    IF g.life # "OPEN" THEN Refused(g, "tool_call_stream_invalid")
    ELSE IF g.buffered # <<>>
    THEN Accepted([g EXCEPT !.buffered = Append(@, e)], <<>>)
    ELSE Accepted(g, <<e>>)

CommitEvents(g) ==
    IF g.life # "OPEN" THEN Accepted(g, <<>>)
    ELSE Accepted([g EXCEPT !.life = "COMMITTED", !.buffered = <<>>], g.buffered)

Abort(g) ==
    IF g.life = "COMMITTED" THEN g
    ELSE [g EXCEPT !.life = "ABORTED", !.buffered = <<>>]
=============================================================================
