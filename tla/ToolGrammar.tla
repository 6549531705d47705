----------------------------- MODULE ToolGrammar -----------------------------
(***************************************************************************)
(* The language a constrained request may generate behind the control      *)
(* token that begins its tool calls (tool_wire/lark_constraint.py): calls  *)
(* one behind the other, white space where the structure allows it, and a  *)
(* value that ends at the first close of its argument.                     *)
(***************************************************************************)
EXTENDS ToolWire
LOCAL INSTANCE SequencesExt
LOCAL INSTANCE FiniteSetsExt

NoSentence == [derived |-> FALSE, values |-> <<>>]

(* _argument_rule: the argument at place i, whose value is raw text.       *)
Argument(q, i) ==
    LET close == Min({Len(q) + 1} \cup {k \in i..Len(q) : q[k] = "/par"})
    IN  IF GlyphAt(q, i, "par") THEN [value |-> SubSeq(q, i + 1, close - 1), end |-> Min({close, Len(q)}) + 1]
        ELSE [value |-> <<>>, end |-> i]

(* _render_lark_artifact: at most max calls, and nothing behind the last.  *)
RECURSIVE Derive(_, _)
Derive(q, max) ==
    LET f == Skip(q, 1)
        argument == Argument(q, Skip(q, f + 1))
        g == Skip(q, argument.end)
        t == Skip(q, g + 1)
        rest == LStrip(From(q, t + Len(ToolClose)))
        others == Derive(From(rest, Len(ToolOpen) + 1), max - 1)
        whole == /\ GlyphAt(q, f, "fn") /\ GlyphAt(q, g, "/fn") /\ IsAt(q, t, ToolClose)
    IN  CASE ~whole \/ max = 0 -> NoSentence
          [] whole /\ max > 0 /\ Len(q) = t + Len(ToolClose) - 1 ->
                 [derived |-> TRUE, values |-> <<argument.value>>]
          [] whole /\ max > 0 /\ IsAt(rest, 1, ToolOpen) ->
                 [others EXCEPT !.values = <<argument.value>> \o @]
          [] OTHER -> NoSentence
=============================================================================
