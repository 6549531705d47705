--------------------------- MODULE ReasoningBudget ---------------------------
(***************************************************************************)
(* The fallback that ends reasoning after a number of tokens: the session  *)
(* counts, then injects a close into the running generation (an optional   *)
(* message and the close marker), while the model may close by itself at   *)
(* any moment (serving/engine.py, ServingSession._force_reasoning_close,   *)
(* _prepare_reasoning_budget_delta and _apply_reasoning_budget).           *)
(*                                                                         *)
(* A piece is "r" (reasoning), "t" (answer), "c" (the model's close), "m"  *)
(* (the message) or "f" (the injected close).  The code cannot tell "c"    *)
(* from "f": both are the close token.  A delta is a run of pieces the     *)
(* backend had ready; one without token ids or one that could not be       *)
(* verified against its tokens is a single result of the backend.          *)
(***************************************************************************)
EXTENDS Naturals, Sequences, FiniteSets, SequencesExt

CONSTANTS
    Budgets,     \* the budgets of requests, [max, message, explicit]: max_tokens,
                 \* whether a message goes with the close, and whether the
                 \* request asked for it or it is a server default
    MaxSampled,  \* bound: pieces the model samples itself
    DrainMax     \* bound: pieces in one delta

ASSUME BudgetAssumption ==
    /\ \A b \in Budgets : /\ DOMAIN b = {"max", "message", "explicit"}
                          /\ b.max \in Nat /\ {b.message, b.explicit} \subseteq BOOLEAN
    /\ MaxSampled \in Nat /\ DrainMax \in Nat \ {0}

VARIABLES
    effective, \* _EffectiveReasoningBudget of this request
    sampled,   \* pieces the model sampled itself
    closed,    \* the model has left reasoning
    ready,     \* pieces sampled and not yet delivered
    forced,    \* injected pieces the backend has still to emit
    finished,  \* the backend stopped generating
    state,     \* _reasoning_budget_state
    count,     \* _reasoning_budget_token_count
    dup,       \* _reasoning_budget_duplicate_close_pending
    tail,      \* the reasoning since the injection ends with the message
    failed,    \* the session failed on the budget
    injects,   \* injections that were accepted
    given,     \* the pieces delivered to the session
    pub        \* the pieces that reached the caller as reasoning, close, text

backend == <<sampled, closed, ready, forced, finished>>
budget == <<state, count, dup, tail, failed, injects>>
budgetVars == <<effective, backend, budget, given, pub>>

Closes(x) == x \in {"c", "f"}
ClosesIn(q) == {i \in DOMAIN q : Closes(q[i])}
Pieces == {"r", "t", "c", "m", "f"}
ForcedText == IF effective.message THEN <<"m", "f">> ELSE <<"f">>

(* The types of all variables.                                             *)
BudgetTypes ==
    /\ sampled \in 0..MaxSampled /\ count \in Nat /\ injects \in Nat
    /\ state \in {"DISABLED", "COUNTING", "FORCE_REQUESTED", "DONE"}
    /\ {closed, finished, dup, tail, failed} \subseteq BOOLEAN
    /\ \A q \in {ready, forced, given, pub} : \A i \in DOMAIN q : q[i] \in Pieces

-----------------------------------------------------------------------------
(* Injection.                                                              *)

(* A successful injection queues the forced text behind what is sampled.   *)
Injected ==
    /\ forced' = ForcedText
    /\ injects' = injects + 1
    /\ state' = "FORCE_REQUESTED"
    /\ UNCHANGED failed

(* The generation ended meanwhile: the close is not needed.                *)
InjectionTerminating ==
    /\ state' = "DONE"
    /\ UNCHANGED <<forced, injects, failed>>

(* A conflict or an error: a server default is given up, an explicit       *)
(* budget fails the request.                                               *)
InjectionFails ==
    /\ IF effective.explicit THEN state' = "DONE" /\ failed' = TRUE
       ELSE state' = "DISABLED" /\ UNCHANGED failed
    /\ UNCHANGED <<forced, injects>>

ForceReasoningClose ==
    IF finished THEN InjectionTerminating ELSE Injected \/ InjectionFails

(* The budget starts counting; a budget of zero is enforced before the     *)
(* first event is read.                                                    *)
BudgetInit ==
    /\ effective \in Budgets
    /\ sampled = 0 /\ closed = FALSE /\ ready = <<>> /\ finished = FALSE
    /\ count = 0 /\ dup = FALSE /\ tail = FALSE
    /\ given = <<>> /\ pub = <<>>
    /\ \/ /\ effective.max > 0
          /\ state = "COUNTING" /\ forced = <<>> /\ injects = 0 /\ failed = FALSE
       \/ /\ effective.max = 0
          /\ state = "FORCE_REQUESTED" /\ forced = ForcedText /\ injects = 1
          /\ failed = FALSE
       \/ /\ effective.max = 0
          /\ state = (IF effective.explicit THEN "DONE" ELSE "DISABLED")
          /\ forced = <<>> /\ injects = 0 /\ failed = effective.explicit

-----------------------------------------------------------------------------
(* The backend.                                                            *)

(* The model samples by itself, also while an injection waits its turn.    *)
Sample ==
    /\ ~finished /\ sampled < MaxSampled
    /\ forced \in {<<>>, ForcedText}
    /\ sampled' = sampled + 1
    /\ \/ ~closed /\ ready' = Append(ready, "r") /\ UNCHANGED closed
       \/ ~closed /\ ready' = Append(ready, "c") /\ closed' = TRUE
       \/ closed /\ ready' = Append(ready, "t") /\ UNCHANGED closed
    /\ UNCHANGED <<effective, forced, finished, budget, given, pub>>

EmitForced ==
    /\ ~finished /\ forced # <<>>
    /\ ready' = Append(ready, Head(forced))
    /\ forced' = Tail(forced)
    /\ closed' = (closed \/ Head(forced) = "f")
    /\ UNCHANGED <<effective, sampled, finished, budget, given, pub>>

(* The generation ends for any reason.                                     *)
GenerationEnds ==
    /\ ~finished
    /\ finished' = TRUE
    /\ UNCHANGED <<effective, sampled, closed, ready, forced, budget, given, pub>>

-----------------------------------------------------------------------------
(* A delta reaches the session.                                            *)

Without(d, i) == SubSeq(d, 1, i - 1) \o SubSeq(d, i + 1, Len(d))
Nth(d, k) == CHOOSE i \in ClosesIn(d) : Cardinality({j \in ClosesIn(d) : j <= i}) = k

(* _prepare_reasoning_budget_delta: which close of the delta is the        *)
(* duplicate, if any.                                                      *)
Prepare(d) ==
    IF state = "FORCE_REQUESTED" /\ Cardinality(ClosesIn(d)) >= 2
    THEN [d |-> Without(d, Nth(d, 2)), used |-> TRUE, dup |-> dup]
    ELSE IF dup /\ ClosesIn(d) # {}
    THEN [d |-> Without(d, Nth(d, 1)), used |-> FALSE, dup |-> FALSE]
    ELSE [d |-> d, used |-> FALSE, dup |-> dup]

(* What the parser sees of d as reasoning: the pieces up to the first      *)
(* close, none once reasoning is over.                                     *)
ReasoningPart(d) ==
    IF ClosesIn(pub) # {} THEN <<>>
    ELSE IF ClosesIn(d) = {} THEN d ELSE SubSeq(d, 1, Nth(d, 1) - 1)
EndsReasoning(d) == ClosesIn(pub) = {} /\ ClosesIn(d) # {}

TailAfter(d) ==
    LET q == ReasoningPart(d) IN IF q = <<>> THEN tail ELSE Last(q) = "m"

Publish(d) == pub' = pub \o d

BudgetFails ==
    /\ state' = "DONE" /\ failed' = TRUE
    /\ UNCHANGED <<forced, injects, count, pub>>

(* Reasoning ended after an injection.  A message that lost to the model's *)
(* own close fails the request; without one the close that is still to     *)
(* come must not be shown.                                                 *)
ForcedClose(p) ==
    IF effective.message /\ ~TailAfter(p.d)
    THEN BudgetFails /\ dup' = p.dup /\ tail' = TailAfter(p.d)
    ELSE /\ dup' = (~effective.message /\ ~p.used)
         /\ state' = "DONE" /\ tail' = FALSE /\ Publish(p.d)
         /\ UNCHANGED <<forced, injects, count, failed>>

(* Faulty variant: one token too many.                                     *)
BugCounts(d) ==
    /\ count' = count + Len(d)
    /\ IF count' > effective.max THEN ForceReasoningClose
       ELSE UNCHANGED <<state, forced, injects, failed>>
    /\ pub' = IF failed' THEN pub ELSE pub \o d

Counts(d) ==
    /\ count' = count + Len(d)
    /\ IF count' >= effective.max THEN ForceReasoningClose
       ELSE UNCHANGED <<state, forced, injects, failed>>
    /\ pub' = IF failed' THEN pub ELSE pub \o d

(* _apply_reasoning_budget, then publication of what the parser made of    *)
(* the delta.                                                              *)
Apply(p, ids) ==
    IF state \in {"DISABLED", "DONE"}
    THEN Publish(p.d) /\ dup' = p.dup /\ UNCHANGED <<state, count, tail, failed, forced, injects>>
    ELSE IF EndsReasoning(p.d)
    THEN IF state = "FORCE_REQUESTED" THEN ForcedClose(p)
         ELSE /\ state' = "DONE" /\ Publish(p.d) /\ dup' = p.dup /\ tail' = FALSE
              /\ UNCHANGED <<count, failed, forced, injects>>
    ELSE /\ dup' = p.dup
         /\ IF state = "FORCE_REQUESTED"
            THEN /\ tail' = TailAfter(p.d) /\ Publish(p.d)
                 /\ UNCHANGED <<state, count, failed, forced, injects>>
            ELSE /\ UNCHANGED tail
                 /\ IF ids THEN Counts(p.d)
                    ELSE IF effective.explicit THEN BudgetFails
                    ELSE /\ state' = "DISABLED" /\ Publish(p.d)
                         /\ UNCHANGED <<forced, injects, count, failed>>

(* The session reads the next k pieces; a delta that is stripped to        *)
(* nothing is dropped.  Text without token ids is never a marker.          *)
DeliverDelta(k, ids) ==
    LET d == SubSeq(ready, 1, k)
        p == Prepare(d)
    IN  /\ ~failed
        /\ k \in 1..Len(ready) /\ k <= DrainMax
        /\ ids \/ (k = 1 /\ d[1] \in {"r", "t"})
        /\ ready' = SubSeq(ready, k + 1, Len(ready))
        /\ given' = given \o d
        /\ IF p.d = <<>>
           THEN /\ dup' = p.dup
                /\ UNCHANGED <<state, count, tail, failed, forced, injects, pub>>
           ELSE Apply(p, ids)
        /\ UNCHANGED <<effective, sampled, closed, finished>>

BudgetNext ==
    \/ Sample \/ EmitForced \/ GenerationEnds
    \/ \E k \in 1..DrainMax, ids \in BOOLEAN : DeliverDelta(k, ids)

BudgetSpec == BudgetInit /\ [][BudgetNext]_budgetVars

-----------------------------------------------------------------------------
(* Properties.                                                             *)

(* The pieces of q that are no close marker.                               *)
Unmarked(q) == FoldLeft(LAMBDA acc, x : IF Closes(x) THEN acc ELSE Append(acc, x), <<>>, q)

(* The close marker reaches the parser exactly once: an injected close     *)
(* that loses to the model's own is never shown as text, however the two   *)
(* are cut into deltas, and suppressing it costs nothing else: all other   *)
(* output, and the one close, reaches the caller in order.                 *)
OneClose ==
    /\ Cardinality(ClosesIn(pub)) <= 1
    /\ ~failed =>
          /\ Unmarked(pub) = Unmarked(given)
          /\ ClosesIn(given) # {} => ClosesIn(pub) # {}

(* Reasoning that reached the budget is being closed, unless the budget    *)
(* was given up or the request failed; it is closed once, and a budget     *)
(* message that was injected stands right before the close: a reader never *)
(* gets reasoning cut without it.                                          *)
BudgetIsEnforced ==
    /\ injects <= 1
    /\ ClosesIn(pub) = {} /\ Len(pub) >= effective.max => state # "COUNTING"
    /\ effective.message /\ injects = 1 /\ ~failed =>
          \A i \in ClosesIn(pub) : i > 1 /\ pub[i - 1] = "m"

(* A budget closes the reasoning once, in time, and for the reader as the  *)
(* model itself would have done.                                           *)
BudgetClosesOnce == OneClose /\ BudgetIsEnforced
=============================================================================
