---------------------------- MODULE MCVisionCache ----------------------------
(* VisionCache with images of sizes 1, 2 and 2 and one that may not be     *)
(* cached.                                                                 *)
EXTENDS VisionCache, TLC

CONSTANTS a, b, c, u

MixedSizes == (a :> 1) @@ (b :> 2) @@ (c :> 2) @@ (u :> Unsafe)
ThreadSymmetry == Permutations(Threads)
=============================================================================
