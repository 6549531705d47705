-------------------------- MODULE MCServingSession --------------------------
(* ServingSession on small instances.                                      *)
EXTENDS ServingSession

Policy(c, s1, s2, r, a) ==
    [constrained |-> c, strict |-> s1, structured |-> s2, required |-> r, atomic |-> a]

(* A plain request and one with a hard constraint and a strict Tool, their *)
(* calls committed one by one or together; one that requires a call; one   *)
(* with a structured output, free and constrained.                         *)
AllPolicies ==
    {Policy(FALSE, FALSE, FALSE, FALSE, a) : a \in BOOLEAN}
        \cup {Policy(TRUE, TRUE, FALSE, FALSE, a) : a \in BOOLEAN}
        \cup {Policy(FALSE, FALSE, FALSE, TRUE, FALSE), Policy(FALSE, FALSE, TRUE, FALSE, FALSE),
              Policy(TRUE, FALSE, TRUE, FALSE, FALSE)}
=============================================================================
