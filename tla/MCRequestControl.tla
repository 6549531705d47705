-------------------------- MODULE MCRequestControl --------------------------
(* RequestControl on a small instance.                                     *)
EXTENDS RequestControl, TLC

CONSTANTS l1, l2

(* The owner of l1 makes one attempt; that of l2 competes for the slot and *)
(* gives it back without having submitted.                                 *)
OneAndNone == (l1 :> 1) @@ (l2 :> 0)
=============================================================================
