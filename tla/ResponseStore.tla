--------------------------- MODULE ResponseStore ---------------------------
(***************************************************************************)
(* The two bounded stores of parent-linked responses:                      *)
(* state/store.py (canonical deltas, for continuation) and the retained    *)
(* half of state/response_lifecycle.py (wire resources, for retrieval).    *)
(*                                                                         *)
(* A store is a set of ids; chain[r] is the set made of r and its          *)
(* ancestors, so the dictionary of children is a derived notion.  The LRU  *)
(* order and the byte estimates are abstracted: any set of whole subtrees  *)
(* the code may choose as victims can be evicted, as long as the records   *)
(* left fit the record budget.                                             *)
(***************************************************************************)
EXTENDS Naturals, FiniteSets

(* The records that depend on r: r and its stored descendants.             *)
Subtree(ids, chain, r) == {d \in ids : r \in chain[d]}

(* discard() and every removal: a record leaves with its whole subtree.    *)
RemoveSubtree(ids, chain, r) == ids \ Subtree(ids, chain, r)

(* Removing the subtrees of several roots.                                 *)
RemoveSubtrees(ids, chain, roots) == {d \in ids : chain[d] \cap roots = {}}

(* A removed record loses its pins.                                        *)
DropPins(pins, kept) == [r \in DOMAIN pins |-> IF r \in kept THEN pins[r] ELSE 0]

(* pin_chain(): one more pin on every record of a chain.                   *)
Pin(pins, ids) == [r \in DOMAIN pins |-> IF r \in ids THEN pins[r] + 1 ELSE pins[r]]

(* unpin_chain(): one pin less, never below zero.                          *)
Unpin(pins, ids) ==
  [r \in DOMAIN pins |-> IF r \in ids /\ pins[r] > 0 THEN pins[r] - 1 ELSE pins[r]]

(* Faulty variant: eviction ignores the pins.                              *)
BugStateEvictable(ids, chain, pins, protected) == ids \ protected

(* store.py: a victim must itself be unprotected and unpinned; nothing is  *)
(* asked of its descendants, which leave with it.                          *)
StateEvictable(ids, chain, pins, protected) ==
  {v \in ids : v \notin protected /\ pins[v] = 0}

(* response_lifecycle.py: no record of the victim's subtree may be         *)
(* protected or pinned.                                                    *)
WireEvictable(ids, chain, pins, protected) ==
  {v \in ids : \A d \in Subtree(ids, chain, v) : d \notin protected /\ pins[d] = 0}

(* The outcomes of an eviction: what is left after removing the subtrees   *)
(* of some evictable records, once it fits.  Empty when nothing fits.      *)
Evictions(ids, chain, evictable, cap) ==
  {left \in {RemoveSubtrees(ids, chain, roots) : roots \in SUBSET evictable} :
      Cardinality(left) <= cap}

(* Expiry of r: store.py looks at the pins of r only, response_lifecycle.py *)
(* at those of its whole subtree.                                          *)
StateExpirable(ids, pins, r) == r \in ids /\ pins[r] = 0
WireExpirable(ids, chain, pins, r) ==
  r \in ids /\ \A d \in Subtree(ids, chain, r) : pins[d] = 0
============================================================================
