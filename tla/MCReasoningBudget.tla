------------------------- MODULE MCReasoningBudget -------------------------
(* ReasoningBudget on a small instance.                                    *)
EXTENDS ReasoningBudget

(* No reasoning at all or two tokens, with and without a message, by       *)
(* default and on request.                                                 *)
BudgetsChecked == [max : {0, 2}, message : BOOLEAN, explicit : BOOLEAN]
=============================================================================
