------------------------ MODULE MCResponseAuthority ------------------------
(* Requests are interchangeable.                                           *)
EXTENDS ResponseAuthority

RequestSymmetry == Permutations(Requests)
============================================================================
