------------------------- MODULE MCAttemptRecovery -------------------------
(* AttemptRecovery on a small instance.                                    *)
EXTENDS AttemptRecovery

(* Requests that may be replayed, in every visibility mode, their calls    *)
(* committed one by one or together.                                       *)
RequestsChecked ==
    {r \in RequestType : r.replay /\ r.wait /\ ~r.deterministic}
=============================================================================
