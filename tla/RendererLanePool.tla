-------------------------- MODULE RendererLanePool --------------------------
(***************************************************************************)
(* The renderer lanes of one model bundle (serving/preprocessing.py,       *)
(* RendererLanePool), as operators on the pool.  A lane is leased for the  *)
(* whole worker-thread call; which lane it is does not matter.             *)
(***************************************************************************)
EXTENDS Naturals

CONSTANT LaneCount     \* renderer_workers

ASSUME LaneAssumption == LaneCount \in Nat \ {0}

NewPool == [closed |-> FALSE, free |-> LaneCount]

(* The queue get() in run() succeeds.                                      *)
CanLease(pool) == pool.free > 0
Leased(pool) == [pool EXCEPT !.free = @ - 1]

(* The finally clause of run().                                            *)
Returned(pool) == IF pool.closed THEN pool ELSE [pool EXCEPT !.free = @ + 1]

PoolClosed(pool) == [closed |-> TRUE, free |-> 0]
=============================================================================
