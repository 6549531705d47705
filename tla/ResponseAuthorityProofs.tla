----------------------- MODULE ResponseAuthorityProofs -----------------------
(***************************************************************************)
(* Proofs about ResponseAuthority, for any number of requests, any budgets *)
(* of the two stores and any statuses: no record of a continuation is      *)
(* removed while it is pinned, the pins are counted exactly, nothing of a  *)
(* request outlives it, and the stores and the answers agree.              *)
(*                                                                         *)
(* Two things keep the argument short.  A record that is in both stores is *)
(* completed, so a pinned chain is never inconsistent and no walk of       *)
(* _retained_chain_is_consistent() can fail on it.  And everything that    *)
(* removes records removes whole subtrees of roots that nobody holds.      *)
(***************************************************************************)
EXTENDS ResponseAuthority, FiniteSetTheorems, WellFoundedInduction, TLAPS

Begun == {r \in Requests : pc[r] # "idle"}

(* A chain is a path from a response to its root, of responses that were   *)
(* begun before.                                                           *)
ChainInv ==
  /\ IsFiniteSet(Begun)
  /\ \A r \in Requests :
       /\ r \in chain[r]
       /\ pc[r] = "idle" => chain[r] = {r}
       /\ \A c \in chain[r] : chain[c] \subseteq chain[r] /\ (c # r => c \in Begun)
       /\ \A c, d \in chain[r] : c \in chain[d] \/ d \in chain[c]
  /\ \A c, d \in Requests : c \in chain[d] /\ d \in chain[c] => c = d

(* Who holds pins holds those of all its ancestors, which both stores have. *)
HoldInv ==
  \A o \in Requests :
    /\ held[o] \in {{}, Ancestors(o)}
    /\ held[o] \subseteq wire \cap state
    /\ pc[o] = "resolving" => \E p \in Requests : held[o] = chain[p] /\ Ancestors(o) = chain[p]

Owners(r) == {o \in Requests : r \in held[o]}
PinInv ==
  \A r \in Requests : wirePins[r] = Cardinality(Owners(r)) /\ statePins[r] = Cardinality(Owners(r))

(* The stores keep whole chains, within their budgets.                     *)
StoreInv ==
  /\ Cardinality(wire) <= WireCap /\ Cardinality(state) <= StateCap
  /\ \A r \in wire : chain[r] \subseteq wire
  /\ \A r \in state : chain[r] \subseteq state

(* A record of the wire store carries the winner, one of the state store   *)
(* is completed, for as long as the request remembers its winner.          *)
RecordInv(r) ==
  /\ r \notin wire => wireStatus[r] = None
  /\ r \in wire => wireStatus[r] # None /\ (pc[r] = "done" \/ winner[r] = wireStatus[r])
  /\ r \in state => /\ pc[r] \in {"committed", "leaving", "done"}
                    /\ pc[r] = "done" \/ winner[r] = "completed"
  /\ r \in wire \cap state => wireStatus[r] = "completed"

Early == {"idle", "resolving", "counting", "submitting"}
Pre == {"running", "putting", "finishing", "committing"}

(* What is known of a request at each of its positions.                    *)
TaskInv(r) ==
  /\ pc[r] \in Early => /\ r \notin active /\ r \notin wire
                        /\ cpc[r] = "idle" /\ lock[r] = "free"
  /\ pc[r] \in Early \cup {"done"} => r \notin pending /\ r \notin active /\ winner[r] = None
  /\ pc[r] \in {"idle", "done"} => held[r] = {}
  /\ pc[r] \in {"putting", "finishing", "committing", "committed", "refused"}
        => status[r] \in Terminals
  /\ pc[r] \in Pre => /\ winner[r] \in {None, "cancelled"}
                      /\ r \in active \/ winner[r] # None \/ toldCancel[r] = "refused"
                      /\ toldCancel[r] \in Terminals => winner[r] = toldCancel[r]
  /\ pc[r] = "committing" => winner[r] = None
  /\ pc[r] \in {"committing", "committed", "refused"} <=> lock[r] = "request"
  /\ pc[r] \in {"committed", "refused"} =>
        /\ r \notin active /\ toldCancel[r] \in {None, "refused"}
        /\ IF pc[r] = "committed" THEN winner[r] = status[r]
           ELSE winner[r] = None /\ r \notin wire

(* What is known while a cancel call holds the lock, and once it is over.  *)
CancelInv(r) ==
  /\ cpc[r] = "cancelling" <=> lock[r] = "cancel"
  /\ cpc[r] = "cancelling" => /\ winner[r] = None /\ r \in active
                              /\ pc[r] \in {"running", "putting", "finishing", "leaving", "lost"}
  /\ cpc[r] # "done" => toldCancel[r] = None
  /\ toldCancel[r] = "refused" => r \notin active /\ r \notin wire

(* What is answered is the winner.                                         *)
ToldInv(r) ==
  /\ winner[r] # None => r \notin active
  /\ told[r] # None => r \notin active /\ pc[r] \in {"leaving", "done", "lost"}
  /\ told[r] # None /\ winner[r] # None => told[r] = winner[r]
  /\ toldCancel[r] \in Terminals /\ winner[r] # None => toldCancel[r] = winner[r]
  /\ told[r] \in Terminals /\ toldCancel[r] \in Terminals => told[r] = toldCancel[r]
  /\ r \in wire => told[r] \in {None, wireStatus[r]} /\ toldCancel[r] \in {None, wireStatus[r]}
  /\ r \in state => told[r] \in {None, "completed"} /\ toldCancel[r] \in {None, "completed"}

LocalInv(r) == RecordInv(r) /\ TaskInv(r) /\ CancelInv(r) /\ ToldInv(r)

SharedInv == ChainInv /\ HoldInv /\ PinInv /\ StoreInv

(* The inductive invariant.                                                *)
IndInv == TypeOK /\ SharedInv /\ \A r \in Requests : LocalInv(r)

-----------------------------------------------------------------------------
(* Counting, and the last member of a chain.                               *)

(* A nonempty set of numbers has a least one.                              *)
LEMMA LeastNumber ==
  ASSUME NEW T \in SUBSET Nat, T # {}
  PROVE  \E x \in T : \A y \in T : x <= y
<1> DEFINE R == OpToRel(<, Nat)
<1>1. \A x, y \in Nat : y < x => <<y, x>> \in R
  BY DEF OpToRel
<1>2. IsWellFoundedOn(R, Nat)
  BY NatLessThanWellFounded
<1> HIDE DEF R
<1>3. PICK x \in T : \A y \in T : ~(<<y, x>> \in R)
  BY <1>2, WFMin
<1>4. \A y \in T : ~(y < x)
  BY <1>1, <1>3
<1> QED
  BY <1>4

(* What the owners of a record are and that there are finitely many.       *)
LEMMA OwnersFinite ==
  ASSUME IndInv, NEW r
  PROVE  IsFiniteSet(Owners(r)) /\ Cardinality(Owners(r)) \in Nat
<1>1. Owners(r) \subseteq Begun
  BY DEF Owners, Begun, IndInv, LocalInv, TaskInv
<1>2. IsFiniteSet(Begun)
  BY DEF IndInv, SharedInv, ChainInv
<1> QED
  BY <1>1, <1>2, FS_Subset, FS_CardinalityType

(* Pins of a record are its owners.                                        *)
LEMMA PinnedIsHeld ==
  ASSUME IndInv, NEW r \in Requests
  PROVE  /\ wirePins[r] = 0 <=> \A o \in Requests : r \notin held[o]
         /\ statePins[r] = 0 <=> \A o \in Requests : r \notin held[o]
<1>1. IsFiniteSet(Owners(r))
  BY OwnersFinite
<1>2. Cardinality(Owners(r)) = 0 <=> Owners(r) = {}
  BY <1>1, FS_EmptySet
<1> QED
  BY <1>2 DEF IndInv, SharedInv, PinInv, Owners

(* A chain that somebody holds is held with all its ancestors, and it is   *)
(* completed in both stores.                                               *)
LEMMA HeldChain ==
  ASSUME IndInv, NEW o \in Requests, NEW c \in held[o]
  PROVE  /\ chain[c] \subseteq held[o] /\ c \in wire /\ c \in state /\ c \in Requests
         /\ wireStatus[c] = "completed"
<1>1. held[o] = Ancestors(o) /\ c \in chain[o] /\ c # o /\ c \in Requests
      /\ c \in wire /\ c \in state
  BY DEF IndInv, TypeOK, SharedInv, HoldInv, Ancestors
<1>2. chain[c] \subseteq chain[o]
  BY <1>1 DEF IndInv, SharedInv, ChainInv
<1>3. o \notin chain[c]
  BY <1>1 DEF IndInv, SharedInv, ChainInv
<1>4. wireStatus[c] = "completed"
  BY <1>1 DEF IndInv, LocalInv, RecordInv
<1> QED
  BY <1>1, <1>2, <1>3, <1>4 DEF Ancestors

(* A pin that one more owner takes, or that an owner gives back.           *)
LEMMA ReleasedCounts ==
  ASSUME IndInv, NEW r \in Requests, held' = [held EXCEPT ![r] = {}], NEW x \in Requests
  PROVE  /\ Released(wirePins, r)[x] = Cardinality(Owners(x)')
         /\ Released(statePins, r)[x] = Cardinality(Owners(x)')
<1>1. /\ DOMAIN wirePins = Requests /\ DOMAIN statePins = Requests
      /\ wirePins[x] = Cardinality(Owners(x)) /\ statePins[x] = Cardinality(Owners(x))
      /\ held \in [Requests -> SUBSET Requests]
  BY DEF IndInv, TypeOK, SharedInv, PinInv
<1>2. IsFiniteSet(Owners(x)) /\ Cardinality(Owners(x)) \in Nat
  BY OwnersFinite
<1>3. CASE x \in held[r]
  <2>1. Owners(x)' = Owners(x) \ {r} /\ r \in Owners(x)
    BY <1>1, <1>3 DEF Owners
  <2>2. Cardinality(Owners(x)') = Cardinality(Owners(x)) - 1 /\ Cardinality(Owners(x)) # 0
    BY <1>2, <2>1, FS_RemoveElement, FS_EmptySet
  <2> QED
    BY <1>1, <1>2, <1>3, <2>2 DEF Released, Unpin
<1>4. CASE x \notin held[r]
  <2>1. Owners(x)' = Owners(x)
    BY <1>1, <1>4 DEF Owners
  <2> QED
    BY <1>1, <1>4, <2>1 DEF Released, Unpin
<1> QED
  BY <1>3, <1>4

-----------------------------------------------------------------------------
(* What removes records.                                                   *)

(* A set of ids that holds whole chains, and every chain somebody pinned.  *)
Whole(ids) ==
  /\ \A d \in ids : chain[d] \subseteq ids
  /\ \A o \in Requests : held[o] \subseteq ids

Loose(r) == \A o \in Requests : r \notin held[o]

(* Both stores hold the chains of what they hold.                          *)
LEMMA StoresAreWhole ==
  ASSUME IndInv
  PROVE  Whole(wire) /\ Whole(state)
BY DEF Whole, IndInv, SharedInv, HoldInv, StoreInv

(* Removing the subtrees of roots that nobody holds keeps the rest whole:  *)
(* discard(), expiry, eviction and the synchronisation of the two stores.  *)
LEMMA RemovalsKeepWhole ==
  ASSUME IndInv, NEW ids \in SUBSET Requests, Whole(ids),
         NEW roots, \A v \in roots : Loose(v)
  PROVE  /\ RemoveSubtrees(ids, chain, roots) \subseteq ids
         /\ Whole(RemoveSubtrees(ids, chain, roots))
<1> DEFINE new == RemoveSubtrees(ids, chain, roots)
<1>1. new \subseteq ids
  BY DEF RemoveSubtrees
<1>2. ASSUME NEW d \in new, NEW c \in chain[d]
      PROVE  c \in new
  <2>1. d \in ids /\ d \in Requests /\ c \in ids
    BY <1>1, <1>2 DEF Whole
  <2>2. chain[c] \subseteq chain[d]
    BY <2>1, <1>2 DEF IndInv, SharedInv, ChainInv
  <2> QED
    BY <2>1, <2>2, <1>2 DEF RemoveSubtrees
<1>3. ASSUME NEW o \in Requests, NEW c \in held[o]
      PROVE  c \in new
  <2>1. c \in ids /\ chain[c] \subseteq held[o]
    BY HeldChain DEF Whole
  <2> QED
    BY <2>1 DEF RemoveSubtrees, Loose
<1> QED
  BY <1>1, <1>2, <1>3 DEF Whole

(* Removing the subtree of a record no request holds leaves whole chains.  *)
LEMMA RemovalKeepsWhole ==
  ASSUME IndInv, NEW ids \in SUBSET Requests, Whole(ids), NEW r \in Requests, Loose(r)
  PROVE  /\ RemoveSubtree(ids, chain, r) \subseteq ids \ {r}
         /\ Whole(RemoveSubtree(ids, chain, r))
<1>1. RemoveSubtree(ids, chain, r) = RemoveSubtrees(ids, chain, {r})
  BY DEF RemoveSubtree, RemoveSubtrees, Subtree
<1>2. r \in chain[r]
  BY DEF IndInv, SharedInv, ChainInv
<1>3. Whole(RemoveSubtrees(ids, chain, {r})) /\ RemoveSubtrees(ids, chain, {r}) \subseteq ids
  BY RemovalsKeepWhole
<1> QED
  BY <1>1, <1>2, <1>3 DEF RemoveSubtrees

(* Making room for r: what is left holds the chain of r and all pinned     *)
(* chains, and fits.                                                       *)
LEMMA EvictionsKeepWhole ==
  ASSUME IndInv, NEW ids \in SUBSET Requests, Whole(ids),
         NEW r \in Requests, Ancestors(r) \subseteq ids,
         NEW evictable, \A v \in evictable : v \notin chain[r] /\ Loose(v),
         NEW cap, NEW left \in Evictions(ids \cup {r}, chain, evictable, cap)
  PROVE  /\ left \subseteq ids \cup {r} /\ Whole(left)
         /\ chain[r] \subseteq left /\ Cardinality(left) <= cap
<1>1. PICK roots \in SUBSET evictable : left = RemoveSubtrees(ids \cup {r}, chain, roots)
  BY DEF Evictions
<1>2. Cardinality(left) <= cap
  BY DEF Evictions
<1>3. chain[r] \subseteq ids \cup {r}
  BY DEF Ancestors
<1>4. Whole(ids \cup {r})
  BY <1>3 DEF Whole
<1>5. left \subseteq ids \cup {r} /\ Whole(left)
  BY <1>1, <1>4, RemovalsKeepWhole
<1>6. ASSUME NEW c \in chain[r]
      PROVE  c \in left
  <2>1. chain[c] \subseteq chain[r]
    BY <1>6 DEF IndInv, SharedInv, ChainInv
  <2> QED
    BY <1>1, <1>3, <1>6, <2>1 DEF RemoveSubtrees
<1> QED
  BY <1>2, <1>5, <1>6

(* Room made in the wire store spares the chain the record extends.        *)
LEMMA WireRoom ==
  ASSUME IndInv, NEW r \in Requests, NEW left \in WireRooms(r)
  PROVE  /\ left \subseteq wire \cup {r} /\ Whole(left)
         /\ chain[r] \subseteq left /\ Cardinality(left) <= WireCap
<1> DEFINE evictable == WireEvictable(wire \cup {r}, chain, wirePins, chain[r])
<1>1. Ancestors(r) \subseteq wire /\ left \in Evictions(wire \cup {r}, chain, evictable, WireCap)
  BY DEF WireRooms
<1>2. wire \in SUBSET Requests /\ Whole(wire)
  BY StoresAreWhole DEF IndInv, TypeOK
<1>3. ASSUME NEW v \in evictable
      PROVE  v \notin chain[r] /\ Loose(v)
  <2>1. v \in Requests /\ v \in Subtree(wire \cup {r}, chain, v)
    BY <1>2 DEF WireEvictable, Subtree, IndInv, SharedInv, ChainInv
  <2>2. v \notin chain[r] /\ wirePins[v] = 0
    BY <2>1 DEF WireEvictable
  <2> QED
    BY <2>1, <2>2, PinnedIsHeld DEF Loose
<1> HIDE DEF evictable
<1> QED
  BY <1>1, <1>2, <1>3, EvictionsKeepWhole

(* Room made in the state store spares the chain the record extends.       *)
LEMMA StateRoom ==
  ASSUME IndInv, NEW r \in Requests, NEW left \in StateRooms(r)
  PROVE  /\ left \subseteq state \cup {r} /\ Whole(left)
         /\ chain[r] \subseteq left /\ Cardinality(left) <= StateCap
<1> DEFINE evictable == StateEvictable(state \cup {r}, chain, statePins, chain[r])
<1>1. Ancestors(r) \subseteq state
      /\ left \in Evictions(state \cup {r}, chain, evictable, StateCap)
  BY DEF StateRooms
<1>2. state \in SUBSET Requests /\ Whole(state)
  BY StoresAreWhole DEF IndInv, TypeOK
<1>3. ASSUME NEW v \in evictable
      PROVE  v \notin chain[r] /\ Loose(v)
  <2>1. v \in Requests /\ v \notin chain[r] /\ statePins[v] = 0
    BY <1>2 DEF StateEvictable
  <2> QED
    BY <2>1, PinnedIsHeld DEF Loose
<1> HIDE DEF evictable
<1> QED
  BY <1>1, <1>2, <1>3, EvictionsKeepWhole

(* A store that only lost records still fits its budget.                   *)
LEMMA SmallerFits ==
  ASSUME IndInv, NEW ids
  PROVE  /\ ids \subseteq wire => Cardinality(ids) <= WireCap
         /\ ids \subseteq state => Cardinality(ids) <= StateCap
<1>1. wire \subseteq Begun /\ state \subseteq Begun
  BY DEF IndInv, TypeOK, Begun, LocalInv, RecordInv, TaskInv, Early
<1>2. IsFiniteSet(wire) /\ IsFiniteSet(state)
  BY <1>1, FS_Subset DEF IndInv, SharedInv, ChainInv
<1>3. Cardinality(wire) \in Nat /\ Cardinality(state) \in Nat
  BY <1>2, FS_CardinalityType
<1>4. ids \subseteq wire => Cardinality(ids) \in Nat /\ Cardinality(ids) <= Cardinality(wire)
  BY <1>2, FS_Subset, FS_CardinalityType
<1>5. ids \subseteq state => Cardinality(ids) \in Nat /\ Cardinality(ids) <= Cardinality(state)
  BY <1>2, FS_Subset, FS_CardinalityType
<1>6. Cardinality(wire) <= WireCap /\ Cardinality(state) <= StateCap
  BY DEF IndInv, SharedInv, StoreInv
<1> QED
  BY <1>3, <1>4, <1>5, <1>6, CapAssumption

-----------------------------------------------------------------------------
(* The shared part of the invariant: one step of a request.                *)

(* Pins stay counts.                                                       *)
LEMMA PinsType ==
  ASSUME NEW pins \in [Requests -> Nat], NEW ids
  PROVE  /\ DropPins(pins, ids) \in [Requests -> Nat]
         /\ Pin(pins, ids) \in [Requests -> Nat]
         /\ Unpin(pins, ids) \in [Requests -> Nat]
BY DEF DropPins, Pin, Unpin

(* The pins of a store after a step that holds on to them, or in which r   *)
(* gave its own back; a record that is not kept had none.                  *)
PinsFollow(pins, new, ids, r) ==
  \/ held' = held /\ new \in {pins, DropPins(pins, ids)}
  \/ /\ held' = [held EXCEPT ![r] = {}]
     /\ new \in {Released(pins, r), DropPins(Released(pins, r), ids)}

(* Pins that follow one request's chain stay exact for all.                *)
LEMMA PinsStayExact ==
  ASSUME IndInv, NEW r \in Requests,
         Whole(wire'), Whole(state'),
         PinsFollow(wirePins, wirePins', wire', r), PinsFollow(statePins, statePins', state', r)
  PROVE  PinInv'
<1> SUFFICES ASSUME NEW x \in Requests
             PROVE  /\ wirePins'[x] = Cardinality(Owners(x)')
                    /\ statePins'[x] = Cardinality(Owners(x)')
  BY DEF PinInv
<1>1. held \in [Requests -> SUBSET Requests]
      /\ DOMAIN wirePins = Requests /\ DOMAIN statePins = Requests
      /\ DOMAIN Released(wirePins, r) = Requests /\ DOMAIN Released(statePins, r) = Requests
  BY DEF IndInv, TypeOK, Released, Unpin
<1>2. Owners(x)' \subseteq Owners(x) /\ (held' = held => Owners(x)' = Owners(x))
  BY <1>1 DEF Owners, PinsFollow
<1>3. wirePins[x] = Cardinality(Owners(x)) /\ statePins[x] = Cardinality(Owners(x))
  BY DEF IndInv, SharedInv, PinInv
<1>4. held' = [held EXCEPT ![r] = {}]
        => /\ Released(wirePins, r)[x] = Cardinality(Owners(x)')
           /\ Released(statePins, r)[x] = Cardinality(Owners(x)')
  BY ReleasedCounts
<1>5. x \notin wire' \/ x \notin state' => Owners(x) = {}
  BY DEF Whole, Owners
<1>6. x \notin wire' \/ x \notin state' => Cardinality(Owners(x)) = 0 /\ Cardinality(Owners(x)') = 0
  BY <1>2, <1>5, FS_EmptySet
<1>7. wirePins'[x] = Cardinality(Owners(x)')
  BY <1>1, <1>2, <1>3, <1>4, <1>6 DEF PinsFollow, DropPins
<1>8. statePins'[x] = Cardinality(Owners(x)')
  BY <1>1, <1>2, <1>3, <1>4, <1>6 DEF PinsFollow, DropPins
<1> QED
  BY <1>7, <1>8

(* A step in which no request begins, r may release its pins, and both     *)
(* stores stay whole.                                                      *)
LEMMA SharedStays ==
  ASSUME IndInv, NEW r \in Requests, chain' = chain,
         \A x \in Requests : /\ pc'[x] = "idle" <=> pc[x] = "idle"
                             /\ pc'[x] = "resolving" =>
                                  pc[x] = "resolving" /\ held'[x] = held[x],
         Whole(wire'), Whole(state'),
         Cardinality(wire') <= WireCap, Cardinality(state') <= StateCap,
         PinsFollow(wirePins, wirePins', wire', r), PinsFollow(statePins, statePins', state', r)
  PROVE  SharedInv'
<1>1. Begun' = Begun
  BY DEF Begun
<1>2. ChainInv'
  BY <1>1 DEF IndInv, SharedInv, ChainInv
<1>3. \A o \in Requests : held'[o] \in {{}, held[o]}
  BY DEF PinsFollow, IndInv, TypeOK
<1>4. HoldInv'
  <2> SUFFICES ASSUME NEW o \in Requests
               PROVE  /\ held'[o] \in {{}, Ancestors(o)'}
                      /\ held'[o] \subseteq wire' \cap state'
                      /\ pc'[o] = "resolving"
                           => \E p \in Requests : held'[o] = chain'[p] /\ Ancestors(o)' = chain'[p]
    BY DEF HoldInv
  <2>1. Ancestors(o)' = Ancestors(o)
    BY DEF Ancestors
  <2> QED
    BY <1>3, <2>1 DEF Whole, IndInv, SharedInv, HoldInv
<1>5. PinInv'
  BY PinsStayExact
<1>6. StoreInv'
  BY DEF StoreInv, Whole
<1> QED
  BY <1>2, <1>4, <1>5, <1>6 DEF SharedInv

-----------------------------------------------------------------------------
(* The part of the invariant about one request, when others take a step.   *)

Undisturbed(x) ==
  /\ pc'[x] = pc[x] /\ cpc'[x] = cpc[x] /\ lock'[x] = lock[x] /\ status'[x] = status[x]
  /\ winner'[x] = winner[x] /\ told'[x] = told[x] /\ toldCancel'[x] = toldCancel[x]
  /\ x \in active' <=> x \in active
  /\ x \in pending' => x \in pending
  /\ x \in state' => x \in state
  /\ x \in wire' => x \in wire
  /\ wireStatus'[x] = IF x \in wire' THEN wireStatus[x] ELSE None
  /\ held'[x] \in {{}, held[x]}

(* What nobody touched stays as it was.                                    *)
LEMMA UndisturbedKeeps ==
  ASSUME NEW x \in Requests, LocalInv(x), Undisturbed(x)
  PROVE  LocalInv(x)'
<1>1. RecordInv(x)'
  BY DEF LocalInv, RecordInv, Undisturbed
<1>2. TaskInv(x)'
  BY DEF LocalInv, TaskInv, Undisturbed
<1>3. CancelInv(x)'
  BY DEF LocalInv, CancelInv, Undisturbed
<1>4. ToldInv(x)'
  BY DEF LocalInv, ToldInv, Undisturbed
<1> QED
  BY <1>1, <1>2, <1>3, <1>4 DEF LocalInv

(* A step of r leaves the invariant alone if it leaves the types, the      *)
(* shared part and its own part, and disturbs nobody else.                 *)
LEMMA StepKeeps ==
  ASSUME IndInv, NEW r \in Requests, TypeOK', SharedInv', LocalInv(r)',
         \A x \in Requests \ {r} : Undisturbed(x)
  PROVE  IndInv'
<1>1. \A x \in Requests \ {r} : LocalInv(x)'
  BY UndisturbedKeeps DEF IndInv
<1> QED
  BY <1>1 DEF IndInv

-----------------------------------------------------------------------------
(* The steps that leave both stores alone.                                 *)

(* What such a step of r does to the rest of the state.                    *)
Alone(r) ==
  /\ UNCHANGED <<chain, wire, wireStatus, state>>
  /\ \E at \in {"counting", "submitting", "done", "lost"} \cup Registered \cup {pc[r]} :
       pc' = [pc EXCEPT ![r] = at]
  /\ pc[r] # "idle"
  /\ \/ UNCHANGED <<wirePins, statePins, held>>
     \/ ReleasePins(r) /\ pc'[r] # "resolving"

(* A step of one request that leaves the stores alone.                     *)
LEMMA AloneKeeps ==
  ASSUME IndInv, NEW r \in Requests, Alone(r), TypeOK', LocalInv(r)',
         \A x \in Requests \ {r} :
           /\ cpc'[x] = cpc[x] /\ lock'[x] = lock[x] /\ status'[x] = status[x]
           /\ winner'[x] = winner[x] /\ told'[x] = told[x] /\ toldCancel'[x] = toldCancel[x]
           /\ x \in active' <=> x \in active
           /\ x \in pending' => x \in pending
  PROVE  IndInv'
<1>1. Whole(wire') /\ Whole(state')
  BY StoresAreWhole DEF Alone
<1>2. Cardinality(wire') <= WireCap /\ Cardinality(state') <= StateCap
  BY DEF Alone, IndInv, SharedInv, StoreInv
<1>3. PinsFollow(wirePins, wirePins', wire', r) /\ PinsFollow(statePins, statePins', state', r)
  BY DEF Alone, PinsFollow, ReleasePins
<1>4. PICK at \in {"counting", "submitting", "done", "lost"} \cup Registered \cup {pc[r]} :
        pc' = [pc EXCEPT ![r] = at]
  BY DEF Alone
<1>5. \A x \in Requests : /\ pc'[x] = "idle" <=> pc[x] = "idle"
                          /\ pc'[x] = "resolving" => pc[x] = "resolving" /\ held'[x] = held[x]
  BY <1>4 DEF Alone, Registered, IndInv, TypeOK, ReleasePins
<1>6. SharedInv'
  BY <1>1, <1>2, <1>3, <1>5, SharedStays DEF Alone
<1>7. \A x \in Requests \ {r} : Undisturbed(x)
  BY <1>4 DEF Undisturbed, Alone, ReleasePins, IndInv, TypeOK, LocalInv, RecordInv
<1> QED
  BY <1>6, <1>7, StepKeeps

(* Giving pins back keeps their type.                                      *)
LEMMA ReleaseType ==
  ASSUME TypeOK, NEW r \in Requests, ReleasePins(r)
  PROVE  /\ held' \in [Requests -> SUBSET Requests]
         /\ wirePins' \in [Requests -> Nat] /\ statePins' \in [Requests -> Nat]
BY PinsType DEF TypeOK, ReleasePins, Released

(* A request ends before it is registered.                                 *)
LEMMA SetupEndsKeeps ==
  ASSUME IndInv, NEW r \in Requests, SetupEnds(r)
  PROVE  IndInv'
<1>1. TypeOK'
  BY ReleaseType DEF SetupEnds, IndInv, TypeOK, plan, registry, answers
<1>2. Alone(r)
  BY DEF SetupEnds, Alone, plan, IndInv, TypeOK
<1>3. LocalInv(r)'
  BY DEF SetupEnds, ReleasePins, plan, registry, answers, IndInv, TypeOK,
         LocalInv, RecordInv, TaskInv, CancelInv, ToldInv, Early, Pre
<1> QED
  BY <1>1, <1>2, <1>3, AloneKeeps DEF SetupEnds, registry, answers

(* A request is registered.                                                *)
LEMMA RegisterKeeps ==
  ASSUME IndInv, NEW r \in Requests, Register(r)
  PROVE  IndInv'
<1>1. TypeOK'
  BY DEF Register, IndInv, TypeOK, plan, stores, answers, Registered
<1>2. Alone(r)
  BY DEF Register, Alone, plan, stores, Registered, IndInv, TypeOK
<1>3. LocalInv(r)'
  <2>1. /\ pc'[r] = "running" /\ r \in active' /\ winner'[r] = None
        /\ UNCHANGED <<cpc[r], lock[r], status[r], pending, wire, wireStatus, state, held, answers>>
    BY DEF Register, plan, stores, IndInv, TypeOK
  <2>2. LocalInv(r) /\ pc[r] = "submitting" /\ lock[r] = "free"
    BY DEF IndInv, Register
  <2>3. RecordInv(r)'
    BY <2>1, <2>2 DEF LocalInv, RecordInv, TaskInv, Early
  <2>4. TaskInv(r)'
    BY <2>1, <2>2 DEF LocalInv, TaskInv, CancelInv, Early, Pre, answers
  <2>5. CancelInv(r)' /\ ToldInv(r)'
    BY <2>1, <2>2 DEF LocalInv, RecordInv, TaskInv, CancelInv, ToldInv, Early, answers, None, Terminals
  <2> QED
    BY <2>3, <2>4, <2>5 DEF LocalInv
<1>4. \A x \in Requests \ {r} : winner'[x] = winner[x] /\ (x \in active' <=> x \in active)
  BY DEF Register, IndInv, TypeOK
<1> QED
  BY <1>1, <1>2, <1>3, <1>4, AloneKeeps DEF Register, answers

(* The session yields its terminal event.                                  *)
LEMMA SessionEndsKeeps ==
  ASSUME IndInv, NEW r \in Requests, NEW s \in Statuses, SessionEnds(r, s)
  PROVE  IndInv'
<1>1. TypeOK'
  BY InputAssumption DEF SessionEnds, IndInv, TypeOK, plan, stores, registry, answers, Registered
<1>2. Alone(r)
  BY DEF SessionEnds, Alone, plan, stores, Registered, IndInv, TypeOK
<1>3. LocalInv(r)'
  BY InputAssumption DEF SessionEnds, plan, stores, registry, answers, IndInv, TypeOK,
         LocalInv, RecordInv, TaskInv, CancelInv, ToldInv, Early, Pre
<1>4. \A x \in Requests \ {r} : status'[x] = status[x]
  BY DEF SessionEnds, IndInv, TypeOK
<1> QED
  BY <1>1, <1>2, <1>3, <1>4, AloneKeeps DEF SessionEnds, registry, answers

(* The record is staged until the terminal commits.                        *)
LEMMA PutKeeps ==
  ASSUME IndInv, NEW r \in Requests, Put(r)
  PROVE  IndInv'
<1>1. TypeOK'
  BY DEF Put, IndInv, TypeOK, plan, stores, answers, Registered
<1>2. Alone(r)
  BY DEF Put, Alone, plan, stores, Registered, IndInv, TypeOK
<1>3. LocalInv(r)'
  BY DEF Put, plan, stores, answers, IndInv, TypeOK,
         LocalInv, RecordInv, TaskInv, CancelInv, ToldInv, Early, Pre
<1> QED
  BY <1>1, <1>2, <1>3, AloneKeeps DEF Put, answers

(* The response becomes what an earlier terminal made of it.               *)
LEMMA FinishProjectsKeeps ==
  ASSUME IndInv, NEW r \in Requests, FinishProjects(r)
  PROVE  IndInv'
<1>1. TypeOK'
  BY ReleaseType DEF FinishProjects, plan, registry, answers, IndInv, TypeOK, Registered
<1>2. Alone(r)
  BY DEF FinishProjects, Alone, plan, registry, answers, Registered, IndInv, TypeOK, LocalInv, CancelInv
<1>3. LocalInv(r)'
  <2> USE DEF FinishProjects, ReleasePins, plan, registry, answers, IndInv, LocalInv,
              Registered, Early, Pre, None, Terminals
  <2>1. RecordInv(r)'
    BY DEF TypeOK, RecordInv, TaskInv, CancelInv, ToldInv
  <2>2. TaskInv(r)'
    BY DEF TypeOK, RecordInv, TaskInv, CancelInv, ToldInv
  <2>3. CancelInv(r)'
    BY DEF TypeOK, RecordInv, TaskInv, CancelInv, ToldInv
  <2>4. ToldInv(r)'
    BY DEF TypeOK, RecordInv, TaskInv, CancelInv, ToldInv
  <2> QED
    BY <2>1, <2>2, <2>3, <2>4
<1>4. \A x \in Requests \ {r} : told'[x] = told[x]
  BY DEF FinishProjects, IndInv, TypeOK
<1> QED
  BY <1>1, <1>2, <1>3, <1>4, AloneKeeps DEF FinishProjects, registry, answers

(* The lock is taken for the commit.                                       *)
LEMMA FinishBeginsKeeps ==
  ASSUME IndInv, NEW r \in Requests, FinishBegins(r)
  PROVE  IndInv'
<1>1. TypeOK'
  BY DEF FinishBegins, plan, stores, registry, answers, IndInv, TypeOK, Registered
<1>2. Alone(r)
  BY DEF FinishBegins, Alone, plan, stores, registry, answers, Registered, IndInv, TypeOK, LocalInv, CancelInv
<1>3. LocalInv(r)'
  <2> USE DEF FinishBegins, plan, stores, registry, answers, IndInv, LocalInv,
              Registered, Early, Pre, None, Terminals
  <2>1. RecordInv(r)'
    BY DEF TypeOK, RecordInv, TaskInv, CancelInv, ToldInv
  <2>2. TaskInv(r)'
    BY DEF TypeOK, RecordInv, TaskInv, CancelInv, ToldInv
  <2>3. CancelInv(r)'
    BY DEF TypeOK, RecordInv, TaskInv, CancelInv, ToldInv
  <2>4. ToldInv(r)'
    BY DEF TypeOK, RecordInv, TaskInv, CancelInv, ToldInv
  <2> QED
    BY <2>1, <2>2, <2>3, <2>4
<1>4. \A x \in Requests \ {r} : lock'[x] = lock[x]
  BY DEF FinishBegins, IndInv, TypeOK
<1> QED
  BY <1>1, <1>2, <1>3, <1>4, AloneKeeps DEF FinishBegins, registry, answers

(* finish() goes on after the commit.                                      *)
LEMMA FinishResumesKeeps ==
  ASSUME IndInv, NEW r \in Requests, FinishResumes(r)
  PROVE  IndInv'
<1>1. TypeOK'
  BY ReleaseType DEF FinishResumes, plan, registry, answers, IndInv, TypeOK, Registered
<1>2. Alone(r)
  BY DEF FinishResumes, Alone, plan, registry, answers, Registered, IndInv, TypeOK, LocalInv, CancelInv
<1>3. LocalInv(r)'
  <2> USE DEF FinishResumes, ReleasePins, plan, registry, answers, IndInv, LocalInv,
              Registered, Early, Pre, None, Terminals
  <2>1. RecordInv(r)'
    BY DEF TypeOK, RecordInv, TaskInv, CancelInv, ToldInv
  <2>2. TaskInv(r)'
    BY DEF TypeOK, RecordInv, TaskInv, CancelInv, ToldInv
  <2>3. CancelInv(r)'
    BY DEF TypeOK, RecordInv, TaskInv, CancelInv, ToldInv
  <2>4. ToldInv(r)'
    BY DEF TypeOK, RecordInv, TaskInv, CancelInv, ToldInv
  <2> QED
    BY <2>1, <2>2, <2>3, <2>4
<1>4. \A x \in Requests \ {r} : lock'[x] = lock[x] /\ told'[x] = told[x]
  BY DEF FinishResumes, IndInv, TypeOK
<1> QED
  BY <1>1, <1>2, <1>3, <1>4, AloneKeeps DEF FinishResumes, registry, answers

(* The client is gone while finish() waits.                                *)
LEMMA FinishInterruptedKeeps ==
  ASSUME IndInv, NEW r \in Requests, FinishInterrupted(r)
  PROVE  IndInv'
<1>1. TypeOK'
  BY ReleaseType DEF FinishInterrupted, plan, registry, answers, IndInv, TypeOK, Registered
<1>2. Alone(r)
  BY DEF FinishInterrupted, Alone, plan, registry, answers, Registered, IndInv, TypeOK, LocalInv, CancelInv
<1>3. LocalInv(r)'
  <2> USE DEF FinishInterrupted, ReleasePins, plan, registry, answers, IndInv, LocalInv,
              Registered, Early, Pre, None, Terminals
  <2>1. RecordInv(r)'
    BY DEF TypeOK, RecordInv, TaskInv, CancelInv, ToldInv
  <2>2. TaskInv(r)'
    BY DEF TypeOK, RecordInv, TaskInv, CancelInv, ToldInv
  <2>3. CancelInv(r)'
    BY DEF TypeOK, RecordInv, TaskInv, CancelInv, ToldInv
  <2>4. ToldInv(r)'
    BY DEF TypeOK, RecordInv, TaskInv, CancelInv, ToldInv
  <2> QED
    BY <2>1, <2>2, <2>3, <2>4
<1>4. \A x \in Requests \ {r} : lock'[x] = lock[x]
  BY DEF FinishInterrupted, IndInv, TypeOK
<1> QED
  BY <1>1, <1>2, <1>3, <1>4, AloneKeeps DEF FinishInterrupted, registry, answers

(* The client is gone before finish().                                     *)
LEMMA DisconnectKeeps ==
  ASSUME IndInv, NEW r \in Requests, Disconnect(r)
  PROVE  IndInv'
<1>1. TypeOK'
  BY DEF Disconnect, plan, stores, registry, answers, IndInv, TypeOK, Registered
<1>2. Alone(r)
  BY DEF Disconnect, Alone, plan, stores, registry, answers, Registered, IndInv, TypeOK, LocalInv, CancelInv
<1>3. LocalInv(r)'
  <2> USE DEF Disconnect, plan, stores, registry, answers, IndInv, LocalInv,
              Registered, Early, Pre, None, Terminals
  <2>1. RecordInv(r)'
    BY DEF TypeOK, RecordInv, TaskInv, CancelInv, ToldInv
  <2>2. TaskInv(r)'
    BY DEF TypeOK, RecordInv, TaskInv, CancelInv, ToldInv
  <2>3. CancelInv(r)'
    BY DEF TypeOK, RecordInv, TaskInv, CancelInv, ToldInv
  <2>4. ToldInv(r)'
    BY DEF TypeOK, RecordInv, TaskInv, CancelInv, ToldInv
  <2> QED
    BY <2>1, <2>2, <2>3, <2>4
<1> QED
  BY <1>1, <1>2, <1>3, AloneKeeps DEF Disconnect, registry, answers

(* The session of a client that left raises from cancel().                 *)
LEMMA LeaveFailsKeeps ==
  ASSUME IndInv, NEW r \in Requests, LeaveFails(r)
  PROVE  IndInv'
<1>1. TypeOK'
  BY DEF LeaveFails, plan, stores, registry, answers, IndInv, TypeOK, Registered
<1>2. Alone(r)
  BY DEF LeaveFails, Alone, plan, stores, registry, answers, Registered, IndInv, TypeOK, LocalInv, CancelInv
<1>3. LocalInv(r)'
  <2> USE DEF LeaveFails, plan, stores, registry, answers, IndInv, LocalInv,
              Registered, Early, Pre, None, Terminals
  <2>1. RecordInv(r)'
    BY DEF TypeOK, RecordInv, TaskInv, CancelInv, ToldInv
  <2>2. TaskInv(r)'
    BY DEF TypeOK, RecordInv, TaskInv, CancelInv, ToldInv
  <2>3. CancelInv(r)'
    BY DEF TypeOK, RecordInv, TaskInv, CancelInv, ToldInv
  <2>4. ToldInv(r)'
    BY DEF TypeOK, RecordInv, TaskInv, CancelInv, ToldInv
  <2> QED
    BY <2>1, <2>2, <2>3, <2>4
<1> QED
  BY <1>1, <1>2, <1>3, AloneKeeps DEF LeaveFails, registry, answers

(* A response that is not active is cancelled.                             *)
LEMMA CancelLateKeeps ==
  ASSUME IndInv, NEW r \in Requests, CancelLate(r)
  PROVE  IndInv'
<1>1. TypeOK'
  BY ReleaseType DEF CancelLate, MayCancel, Known, plan, registry, answers, IndInv, TypeOK, Registered
<1>2. Alone(r)
  BY DEF CancelLate, MayCancel, Known, Alone, plan, registry, answers, Registered, IndInv, TypeOK, LocalInv, CancelInv
<1>3. LocalInv(r)'
  <2> USE DEF CancelLate, MayCancel, Known, ReleasePins, plan, registry, answers, IndInv, LocalInv,
              Registered, Early, Pre, None, Terminals
  <2>1. RecordInv(r)'
    BY DEF TypeOK, RecordInv, TaskInv, CancelInv, ToldInv
  <2>2. TaskInv(r)'
    BY DEF TypeOK, RecordInv, TaskInv, CancelInv, ToldInv
  <2>3. CancelInv(r)'
    BY DEF TypeOK, RecordInv, TaskInv, CancelInv, ToldInv
  <2>4. ToldInv(r)'
    BY DEF TypeOK, RecordInv, TaskInv, CancelInv, ToldInv
  <2> QED
    BY <2>1, <2>2, <2>3, <2>4
<1>4. \A x \in Requests \ {r} : cpc'[x] = cpc[x] /\ toldCancel'[x] = toldCancel[x]
  BY DEF CancelLate, IndInv, TypeOK
<1> QED
  BY <1>1, <1>2, <1>3, <1>4, AloneKeeps DEF CancelLate, MayCancel, Known, registry, answers

(* The lock is taken for a cancellation.                                   *)
LEMMA CancelBeginsKeeps ==
  ASSUME IndInv, NEW r \in Requests, CancelBegins(r)
  PROVE  IndInv'
<1>1. TypeOK'
  BY DEF CancelBegins, MayCancel, Known, plan, stores, registry, answers, IndInv, TypeOK, Registered
<1>2. Alone(r)
  BY DEF CancelBegins, MayCancel, Known, Alone, plan, stores, registry, answers, Registered, IndInv, TypeOK, LocalInv, CancelInv
<1>3. LocalInv(r)'
  <2> USE DEF CancelBegins, MayCancel, Known, plan, stores, registry, answers, IndInv, LocalInv,
              Registered, Early, Pre, None, Terminals
  <2>1. RecordInv(r)'
    BY DEF TypeOK, RecordInv, TaskInv, CancelInv, ToldInv
  <2>2. TaskInv(r)'
    BY DEF TypeOK, RecordInv, TaskInv, CancelInv, ToldInv
  <2>3. CancelInv(r)'
    BY DEF TypeOK, RecordInv, TaskInv, CancelInv, ToldInv
  <2>4. ToldInv(r)'
    BY DEF TypeOK, RecordInv, TaskInv, CancelInv, ToldInv
  <2> QED
    BY <2>1, <2>2, <2>3, <2>4
<1>4. \A x \in Requests \ {r} : cpc'[x] = cpc[x] /\ lock'[x] = lock[x]
  BY DEF CancelBegins, IndInv, TypeOK
<1> QED
  BY <1>1, <1>2, <1>3, <1>4, AloneKeeps DEF CancelBegins, MayCancel, Known, registry, answers

(* The session raises from cancel().                                       *)
LEMMA CancelFailsKeeps ==
  ASSUME IndInv, NEW r \in Requests, CancelFails(r)
  PROVE  IndInv'
<1>1. TypeOK'
  BY ReleaseType DEF CancelFails, plan, registry, answers, IndInv, TypeOK, Registered
<1>2. Alone(r)
  BY DEF CancelFails, Alone, plan, registry, answers, Registered, IndInv, TypeOK, LocalInv, CancelInv
<1>3. LocalInv(r)'
  <2> USE DEF CancelFails, ReleasePins, plan, registry, answers, IndInv, LocalInv,
              Registered, Early, Pre, None, Terminals
  <2>1. RecordInv(r)'
    BY DEF TypeOK, RecordInv, TaskInv, CancelInv, ToldInv
  <2>2. TaskInv(r)'
    BY DEF TypeOK, RecordInv, TaskInv, CancelInv, ToldInv
  <2>3. CancelInv(r)'
    BY DEF TypeOK, RecordInv, TaskInv, CancelInv, ToldInv
  <2>4. ToldInv(r)'
    BY DEF TypeOK, RecordInv, TaskInv, CancelInv, ToldInv
  <2> QED
    BY <2>1, <2>2, <2>3, <2>4
<1>4. \A x \in Requests \ {r} : cpc'[x] = cpc[x] /\ lock'[x] = lock[x]
  BY DEF CancelFails, IndInv, TypeOK
<1> QED
  BY <1>1, <1>2, <1>3, <1>4, AloneKeeps DEF CancelFails, registry, answers

-----------------------------------------------------------------------------
(* A request begins.                                                       *)

(* Nobody continues, or holds, a response that has not begun.              *)
LEMMA IdleIsAlone ==
  ASSUME IndInv, NEW r \in Requests, pc[r] = "idle"
  PROVE  /\ chain[r] = {r} /\ held[r] = {}
         /\ \A x \in Requests \ {r} : r \notin chain[x] /\ r \notin held[x]
<1>1. chain[r] = {r} /\ held[r] = {}
  BY DEF IndInv, SharedInv, ChainInv, LocalInv, TaskInv
<1>2. \A x \in Requests \ {r} : r \notin chain[x]
  BY DEF IndInv, SharedInv, ChainInv, Begun
<1>3. \A x \in Requests \ {r} : r \notin held[x]
  BY <1>2 DEF IndInv, SharedInv, HoldInv, Ancestors
<1> QED
  BY <1>1, <1>2, <1>3

(* Only finitely many requests have begun.                                 *)
LEMMA BegunStaysFinite ==
  ASSUME IndInv, NEW r \in Requests, NEW at, pc' = [pc EXCEPT ![r] = at], at # "idle"
  PROVE  IsFiniteSet(Begun') /\ Begun' = Begun \cup {r}
<1>1. Begun' = Begun \cup {r}
  BY DEF Begun, IndInv, TypeOK
<1>2. IsFiniteSet(Begun)
  BY DEF IndInv, SharedInv, ChainInv
<1> QED
  BY <1>1, <1>2, FS_AddElement

(* A request without a predecessor pins nothing.                           *)
LEMMA BeginFreshKeeps ==
  ASSUME IndInv, NEW r \in Requests, NEW keep \in StoreChoices, BeginFresh(r, keep)
  PROVE  IndInv'
<1> USE DEF BeginFresh, stores, registry, answers
<1>1. TypeOK'
  BY InputAssumption DEF IndInv, TypeOK
<1>2. IsFiniteSet(Begun') /\ Begun' = Begun \cup {r}
  BY BegunStaysFinite
<1>3. ChainInv'
  BY <1>2, IdleIsAlone DEF IndInv, TypeOK, SharedInv, ChainInv
<1>4. HoldInv' /\ PinInv' /\ StoreInv'
  BY DEF IndInv, TypeOK, SharedInv, HoldInv, PinInv, StoreInv, Owners, Ancestors
<1>5. LocalInv(r)'
  BY DEF IndInv, TypeOK, LocalInv, RecordInv, TaskInv, CancelInv, ToldInv, Early, Pre,
         None, Terminals
<1>6. \A x \in Requests \ {r} : Undisturbed(x)
  BY DEF Undisturbed, IndInv, TypeOK, LocalInv, RecordInv
<1> QED
  BY <1>1, <1>3, <1>4, <1>5, <1>6, StepKeeps DEF SharedInv

(* A request whose previous response is unknown ends at once.              *)
LEMMA BeginUnknownKeeps ==
  ASSUME IndInv, NEW r \in Requests, pc[r] = "idle", pc' = [pc EXCEPT ![r] = "done"],
         UNCHANGED <<cpc, plan, lock, status, carried, registry, stores, held, answers>>
  PROVE  IndInv'
<1> USE DEF plan, stores, registry, answers
<1>1. TypeOK'
  BY DEF IndInv, TypeOK, Registered
<1>2. IsFiniteSet(Begun') /\ Begun' = Begun \cup {r}
  BY BegunStaysFinite
<1>3. ChainInv'
  BY <1>2, IdleIsAlone DEF IndInv, TypeOK, SharedInv, ChainInv
<1>4. HoldInv' /\ PinInv' /\ StoreInv'
  BY DEF IndInv, TypeOK, SharedInv, HoldInv, PinInv, StoreInv, Owners, Ancestors
<1>5. LocalInv(r)'
  BY DEF IndInv, TypeOK, LocalInv, RecordInv, TaskInv, CancelInv, ToldInv, Early, Pre,
         None, Terminals
<1>6. \A x \in Requests \ {r} : Undisturbed(x)
  BY DEF Undisturbed, IndInv, TypeOK, LocalInv, RecordInv
<1> QED
  BY <1>1, <1>3, <1>4, <1>5, <1>6, StepKeeps DEF SharedInv

(* A continuation pins its predecessor's chain when it looks it up.        *)
LEMMA BeginContinuationKeeps ==
  ASSUME IndInv, NEW r \in Requests, NEW p \in Requests, NEW keep \in StoreChoices,
         BeginContinuation(r, p, keep)
  PROVE  IndInv'
<1>1. CASE ~(chain[p] \subseteq wire /\ chain[p] \subseteq state)
  BY <1>1, BeginUnknownKeeps DEF BeginContinuation, stores
<1>2. CASE chain[p] \subseteq wire /\ chain[p] \subseteq state
  <2> USE DEF registry, answers
  <2>1. /\ pc[r] = "idle" /\ p # r /\ p \in Begun /\ chain[p] \subseteq wire /\ chain[p] \subseteq state
        /\ pc' = [pc EXCEPT ![r] = "resolving"]
        /\ store' = [store EXCEPT ![r] = keep]
        /\ chain' = [chain EXCEPT ![r] = chain[p] \cup {r}]
        /\ held' = [held EXCEPT ![r] = chain[p]]
        /\ wirePins' = Pin(wirePins, chain[p])
        /\ statePins' = Pin(statePins, chain[p])
        /\ UNCHANGED <<cpc, lock, status, carried, registry, wire, wireStatus, state, answers>>
    BY <1>2 DEF BeginContinuation, Known, Begun, Registered
  <2>2. TypeOK'
    <3>1. chain[p] \cup {r} \in SUBSET Requests /\ keep \in BOOLEAN
      BY InputAssumption DEF IndInv, TypeOK
    <3>2. wirePins' \in [Requests -> Nat] /\ statePins' \in [Requests -> Nat]
      BY <2>1, PinsType DEF IndInv, TypeOK
    <3> QED
      BY <2>1, <3>1, <3>2 DEF IndInv, TypeOK
  <2>3. IsFiniteSet(Begun') /\ Begun' = Begun \cup {r}
    BY <2>1, BegunStaysFinite
  <2>4. /\ chain'[r] = chain[p] \cup {r} /\ \A x \in Requests \ {r} : chain'[x] = chain[x]
        /\ held'[r] = chain[p] /\ \A x \in Requests \ {r} : held'[x] = held[x]
        /\ pc'[r] = "resolving" /\ \A x \in Requests \ {r} : pc'[x] = pc[x]
        /\ chain[p] \subseteq Requests /\ r \notin chain[p] /\ held[r] = {} /\ p \in chain[p]
    BY <2>1, IdleIsAlone DEF IndInv, TypeOK, SharedInv, ChainInv
  <2>5. ChainInv'
    <3>1. \A x \in Requests : /\ x \in chain'[x]
                              /\ pc'[x] = "idle" => chain'[x] = {x}
      BY <2>4 DEF IndInv, SharedInv, ChainInv
    <3>2. \A x \in Requests : \A c \in chain'[x] :
             chain'[c] \subseteq chain'[x] /\ (c # x => c \in Begun')
      <4>1. ASSUME NEW x \in Requests \ {r}, NEW c \in chain'[x]
            PROVE  chain'[c] \subseteq chain'[x] /\ (c # x => c \in Begun')
        BY <2>1, <2>3, <2>4, IdleIsAlone DEF IndInv, TypeOK, SharedInv, ChainInv
      <4>2. ASSUME NEW c \in chain[p]
            PROVE  chain'[c] \subseteq chain'[r] /\ c \in Begun'
        <5>1. c # r /\ c \in Requests /\ chain[c] \subseteq chain[p] /\ (c = p \/ c \in Begun)
          BY <2>4, <4>2 DEF IndInv, SharedInv, ChainInv
        <5> QED
          BY <2>1, <2>3, <2>4, <5>1
      <4> QED
        BY <4>1, <4>2, <2>4
    <3>3. \A x \in Requests : \A c, d \in chain'[x] : c \in chain'[d] \/ d \in chain'[c]
      <4>1. ASSUME NEW x \in Requests \ {r}, NEW c \in chain'[x], NEW d \in chain'[x]
            PROVE  c \in chain'[d] \/ d \in chain'[c]
        <5>1. c \in chain[x] /\ d \in chain[x] /\ c # r /\ d # r /\ c \in Requests /\ d \in Requests
          BY <2>1, <2>4, <4>1, IdleIsAlone DEF IndInv, TypeOK
        <5> QED
          BY <2>4, <5>1 DEF IndInv, SharedInv, ChainInv
      <4>2. ASSUME NEW c \in chain'[r], NEW d \in chain'[r]
            PROVE  c \in chain'[d] \/ d \in chain'[c]
        <5>1. CASE c = r \/ d = r
          BY <2>4, <4>2, <5>1
        <5>2. CASE c # r /\ d # r
          BY <2>4, <4>2, <5>2 DEF IndInv, SharedInv, ChainInv
        <5> QED
          BY <5>1, <5>2
      <4> QED
        BY <4>1, <4>2
    <3>4. ASSUME NEW c \in Requests, NEW d \in Requests, c \in chain'[d], d \in chain'[c]
          PROVE  c = d
      BY <2>1, <2>4, <3>4, IdleIsAlone DEF IndInv, SharedInv, ChainInv
    <3> QED
      BY <2>3, <3>1, <3>2, <3>3, <3>4 DEF ChainInv
  <2>6. HoldInv'
    <3>1. Ancestors(r)' = chain[p] /\ \A x \in Requests \ {r} : Ancestors(x)' = Ancestors(x)
      BY <2>4 DEF Ancestors
    <3>2. chain'[p] = chain[p]
      BY <2>1, <2>4
    <3>3. ASSUME NEW x \in Requests \ {r}, pc'[x] = "resolving"
          PROVE  \E q \in Requests : held'[x] = chain'[q] /\ Ancestors(x)' = chain'[q]
      <4>1. PICK q \in Requests : held[x] = chain[q] /\ Ancestors(x) = chain[q]
        BY <2>4, <3>3 DEF IndInv, SharedInv, HoldInv
      <4>2. q # r
        BY <2>1, <2>4, <4>1, IdleIsAlone
      <4> QED
        BY <2>4, <3>1, <4>1, <4>2
    <3>4. \A x \in Requests : /\ held'[x] \in {{}, Ancestors(x)'}
                              /\ held'[x] \subseteq wire' \cap state'
      BY <2>1, <2>4, <3>1 DEF IndInv, SharedInv, HoldInv
    <3> QED
      BY <2>4, <3>1, <3>2, <3>3, <3>4 DEF HoldInv
  <2>7. PinInv'
    <3> SUFFICES ASSUME NEW x \in Requests
                 PROVE  /\ wirePins'[x] = Cardinality(Owners(x)')
                        /\ statePins'[x] = Cardinality(Owners(x)')
      BY DEF PinInv
    <3>1. /\ wirePins[x] = Cardinality(Owners(x)) /\ statePins[x] = Cardinality(Owners(x))
          /\ DOMAIN wirePins = Requests /\ DOMAIN statePins = Requests
      BY DEF IndInv, TypeOK, SharedInv, PinInv
    <3>2. IsFiniteSet(Owners(x))
      BY OwnersFinite
    <3>3. CASE x \in chain[p]
      <4>1. Owners(x)' = Owners(x) \cup {r} /\ r \notin Owners(x)
        BY <2>4, <3>3 DEF Owners
      <4>2. Cardinality(Owners(x)') = Cardinality(Owners(x)) + 1
        BY <3>2, <4>1, FS_AddElement
      <4> QED
        BY <2>1, <3>1, <3>3, <4>2 DEF Pin
    <3>4. CASE x \notin chain[p]
      <4>1. Owners(x)' = Owners(x)
        BY <2>4, <3>4 DEF Owners
      <4> QED
        BY <2>1, <3>1, <3>4, <4>1 DEF Pin
    <3> QED
      BY <3>3, <3>4
  <2>8. StoreInv'
    <3>1. r \notin wire /\ r \notin state
      BY <2>1 DEF IndInv, LocalInv, RecordInv, TaskInv, Early
    <3> QED
      BY <2>1, <2>4, <3>1 DEF IndInv, TypeOK, SharedInv, StoreInv
  <2>9. LocalInv(r)'
    <3>1. /\ UNCHANGED <<cpc, lock, status, pending, winner, active, wire, wireStatus, state, told, toldCancel>>
          /\ pc[r] = "idle" /\ pc'[r] = "resolving"
      BY <2>1, <2>4
    <3>2. LocalInv(r)
      BY DEF IndInv
    <3> QED
      BY <3>1, <3>2 DEF LocalInv, RecordInv, TaskInv, CancelInv, ToldInv, Early, Pre, None, Terminals
  <2>10. \A x \in Requests \ {r} : Undisturbed(x)
    BY <2>1, <2>4 DEF Undisturbed, IndInv, LocalInv, RecordInv
  <2> QED
    BY <2>2, <2>5, <2>6, <2>7, <2>8, <2>9, <2>10, StepKeeps DEF SharedInv
<1> QED
  BY <1>1, <1>2

-----------------------------------------------------------------------------
(* resolve_previous() never fails once its pins are taken: both stores keep *)
(* the pinned chain, completed, so that the walk finds nothing amiss and   *)
(* the stores stay as they are.                                            *)

(* Records that are all there lose nothing by a write of their store.      *)
LEMMA WriteBack ==
  ASSUME IndInv
  PROVE  /\ DropPins(statePins, state) = statePins /\ DropPins(wirePins, wire) = wirePins
         /\ wireStatus = [x \in Requests |-> IF x \in wire THEN wireStatus[x] ELSE None]
<1>1. \A x \in Requests : /\ x \notin wire => wireStatus[x] = None /\ wirePins[x] = 0
                          /\ x \notin state => statePins[x] = 0
  <2> TAKE x \in Requests
  <2>1. x \notin wire => wireStatus[x] = None
    BY DEF IndInv, LocalInv, RecordInv
  <2>2. x \notin wire \/ x \notin state => \A o \in Requests : x \notin held[o]
    BY DEF IndInv, SharedInv, HoldInv
  <2> QED
    BY <2>1, <2>2, PinnedIsHeld
<1>2. /\ wirePins \in [Requests -> Nat] /\ statePins \in [Requests -> Nat]
      /\ wireStatus \in [Requests -> Terminals \cup {None}]
  BY DEF IndInv, TypeOK
<1> QED
  BY <1>1, <1>2 DEF DropPins

(* The walk over a pinned chain misses no record.                          *)
LEMMA ResolveFindsAll ==
  ASSUME IndInv, NEW r \in Requests, pc[r] = "resolving"
  PROVE  /\ Previous(r) \in Requests /\ Previous(r) \in wire
         /\ Inconsistent(state, wire, wireStatus, Previous(r)) = {}
<1> DEFINE p == Previous(r)
<1>1. PICK q \in Requests : held[r] = chain[q] /\ Ancestors(r) = chain[q]
  BY DEF IndInv, SharedInv, HoldInv
<1>2. q \in Ancestors(r) /\ chain[q] = Ancestors(r)
  BY <1>1 DEF IndInv, SharedInv, ChainInv
<1>3. p \in Ancestors(r) /\ chain[p] = Ancestors(r)
  BY <1>2 DEF Previous
<1>4. chain[p] = held[r] /\ p \in held[r]
  BY <1>1, <1>3
<1>5. p \in Requests /\ p \in wire
  BY <1>4, HeldChain
<1>6. \A c \in chain[p] : c \in state /\ c \in wire /\ wireStatus[c] = "completed"
  BY <1>4, HeldChain
<1> QED
  BY <1>5, <1>6 DEF Inconsistent

(* So a continuation resolves.                                             *)
LEMMA ResolveKeeps ==
  ASSUME IndInv, NEW r \in Requests, NEW next \in {"counting", "submitting"}, Resolve(r, next)
  PROVE  IndInv'
<1>0. pc[r] = "resolving"
  BY DEF Resolve
<1>1. /\ Previous(r) \in wire
      /\ Inconsistent(state, wire, wireStatus, Previous(r)) = {}
  BY <1>0, ResolveFindsAll
<1>2. ResolvedState(Previous(r)) = state /\ ResolvedWire(Previous(r)) = wire
  BY <1>1 DEF ResolvedState, ResolvedWire
<1>3. /\ pc' = [pc EXCEPT ![r] = next] /\ held' = [held EXCEPT ![r] = @]
      /\ SetState(state, statePins) /\ SetWire(wire, wireStatus, wirePins)
      /\ UNCHANGED <<pending, cpc, plan, lock, status, carried, winner, active, answers>>
  BY <1>1, <1>2 DEF Resolve
<1>4. /\ held' = held
      /\ UNCHANGED <<state, statePins, wire, wireStatus, wirePins>>
  BY <1>3, WriteBack DEF SetState, SetWire, IndInv, TypeOK
<1>5. TypeOK'
  BY <1>3, <1>4 DEF IndInv, TypeOK, plan, answers
<1>6. Alone(r)
  BY <1>0, <1>3, <1>4 DEF Alone, plan
<1>7. LocalInv(r)'
  BY <1>0, <1>3, <1>4 DEF plan, answers, IndInv, TypeOK,
         LocalInv, RecordInv, TaskInv, CancelInv, ToldInv, Early, Pre
<1> QED
  BY <1>3, <1>5, <1>6, <1>7, AloneKeeps DEF answers

-----------------------------------------------------------------------------
(* Expiry.                                                                 *)

(* Expiry removes whole subtrees that nobody pins from the state store.    *)
LEMMA ExpireStateKeeps ==
  ASSUME IndInv, NEW r \in Requests, ExpireState(r)
  PROVE  IndInv'
<1> USE DEF plan, registry, answers
<1>1. r \in state /\ Loose(r)
  BY PinnedIsHeld DEF ExpireState, StateExpirable, Loose
<1>2. state' \subseteq state /\ Whole(state')
  BY <1>1, StoresAreWhole, RemovalKeepsWhole DEF ExpireState, SetState, IndInv, TypeOK
<1>3. Whole(wire') /\ wire' = wire
  BY StoresAreWhole DEF ExpireState
<1>4. statePins' \in [Requests -> Nat] /\ statePins' = DropPins(statePins, state')
  BY PinsType DEF ExpireState, SetState, IndInv, TypeOK
<1>5. TypeOK'
  BY <1>2, <1>4 DEF ExpireState, IndInv, TypeOK
<1>6. PinsFollow(wirePins, wirePins', wire', r) /\ PinsFollow(statePins, statePins', state', r)
  BY <1>4 DEF ExpireState, PinsFollow
<1>7. Cardinality(wire') <= WireCap /\ Cardinality(state') <= StateCap
  BY <1>2, <1>3, SmallerFits
<1>8. SharedInv'
  BY <1>2, <1>3, <1>6, <1>7, SharedStays DEF ExpireState
<1>9. \A x \in Requests : Undisturbed(x)
  BY <1>2 DEF ExpireState, Undisturbed, IndInv, LocalInv, RecordInv
<1>10. LocalInv(r)'
  BY <1>9, UndisturbedKeeps DEF IndInv
<1> QED
  BY <1>5, <1>8, <1>9, <1>10, StepKeeps

(* And from the wire store.                                                *)
LEMMA ExpireWireKeeps ==
  ASSUME IndInv, NEW r \in Requests, ExpireWire(r)
  PROVE  IndInv'
<1> USE DEF plan, registry, answers
<1>1. r \in wire /\ Loose(r)
  <2>1. r \in Subtree(wire, chain, r)
    BY DEF ExpireWire, WireExpirable, Subtree, IndInv, SharedInv, ChainInv
  <2> QED
    BY <2>1, PinnedIsHeld DEF ExpireWire, WireExpirable, Loose
<1>2. wire' \subseteq wire /\ Whole(wire')
  BY <1>1, StoresAreWhole, RemovalKeepsWhole DEF ExpireWire, SetWire, IndInv, TypeOK
<1>3. Whole(state') /\ state' = state
  BY StoresAreWhole DEF ExpireWire
<1>4. wirePins' \in [Requests -> Nat] /\ wirePins' = DropPins(wirePins, wire')
  BY PinsType DEF ExpireWire, SetWire, IndInv, TypeOK
<1>5. TypeOK'
  BY <1>2, <1>4 DEF ExpireWire, SetWire, IndInv, TypeOK
<1>6. PinsFollow(wirePins, wirePins', wire', r) /\ PinsFollow(statePins, statePins', state', r)
  BY <1>4 DEF ExpireWire, PinsFollow
<1>7. Cardinality(wire') <= WireCap /\ Cardinality(state') <= StateCap
  BY <1>2, <1>3, SmallerFits
<1>8. SharedInv'
  BY <1>2, <1>3, <1>6, <1>7, SharedStays DEF ExpireWire
<1>9. \A x \in Requests : Undisturbed(x)
  BY <1>2 DEF ExpireWire, SetWire, Undisturbed
<1>10. LocalInv(r)'
  BY <1>9, UndisturbedKeeps DEF IndInv
<1> QED
  BY <1>5, <1>8, <1>9, <1>10, StepKeeps

-----------------------------------------------------------------------------
(* The steps that write the stores.                                        *)

(* A response without a winner is in neither store, and nobody holds it.   *)
LEMMA UnfinishedIsLoose ==
  ASSUME IndInv, NEW r \in Requests, winner[r] = None, pc[r] # "done"
  PROVE  r \notin wire /\ r \notin state /\ Loose(r)
<1>1. r \notin wire /\ r \notin state
  BY DEF IndInv, LocalInv, RecordInv, None
<1>2. Loose(r)
  BY <1>1 DEF Loose, IndInv, SharedInv, HoldInv
<1> QED
  BY <1>1, <1>2

(* What a step of r that writes the stores does to the other requests.     *)
Writes(r) ==
  /\ chain' = chain
  /\ pc[r] \notin {"idle", "resolving"} /\ pc'[r] \notin {"idle", "resolving"}
  /\ wire' \subseteq wire \cup {r} /\ state' \subseteq state \cup {r}
  /\ \A x \in Requests \ {r} :
       /\ pc'[x] = pc[x] /\ cpc'[x] = cpc[x] /\ lock'[x] = lock[x] /\ status'[x] = status[x]
       /\ winner'[x] = winner[x] /\ told'[x] = told[x] /\ toldCancel'[x] = toldCancel[x]
       /\ x \in active' <=> x \in active
       /\ x \in pending' => x \in pending
       /\ wireStatus'[x] = IF x \in wire' THEN wireStatus[x] ELSE None
       /\ held'[x] = held[x]

(* What a commit owes: whole stores within their limits, exact pins.       *)
LEMMA WritesKeeps ==
  ASSUME IndInv, NEW r \in Requests, Writes(r), TypeOK', LocalInv(r)',
         Whole(wire'), Whole(state'),
         Cardinality(wire') <= WireCap, Cardinality(state') <= StateCap,
         PinsFollow(wirePins, wirePins', wire', r), PinsFollow(statePins, statePins', state', r)
  PROVE  IndInv'
<1>1. \A x \in Requests : /\ pc'[x] = "idle" <=> pc[x] = "idle"
                          /\ pc'[x] = "resolving" => pc[x] = "resolving" /\ held'[x] = held[x]
  BY DEF Writes
<1>2. SharedInv'
  BY <1>1, SharedStays DEF Writes
<1>3. \A x \in Requests \ {r} : Undisturbed(x)
  BY DEF Writes, Undisturbed
<1> QED
  BY <1>2, <1>3, StepKeeps

(* The types of the two writes.                                            *)
LEMMA StateWriteType ==
  ASSUME NEW ids \in SUBSET Requests, NEW pins \in [Requests -> Nat], SetState(ids, pins)
  PROVE  state' \in SUBSET Requests /\ statePins' \in [Requests -> Nat]
BY PinsType DEF SetState

(* A write to the wire store keeps its types.                              *)
LEMMA WireWriteType ==
  ASSUME NEW ids \in SUBSET Requests, NEW pins \in [Requests -> Nat],
         NEW statuses \in [Requests -> Terminals \cup {None}], SetWire(ids, statuses, pins)
  PROVE  /\ wire' \in SUBSET Requests /\ wirePins' \in [Requests -> Nat]
         /\ wireStatus' \in [Requests -> Terminals \cup {None}]
BY PinsType DEF SetWire

(* Releasing a request's pins keeps them counts.                           *)
LEMMA ReleasedType ==
  ASSUME IndInv, NEW r \in Requests
  PROVE  Released(wirePins, r) \in [Requests -> Nat] /\ Released(statePins, r) \in [Requests -> Nat]
BY PinsType DEF IndInv, TypeOK, Released

(* A response that is not stored finishes.                                 *)
LEMMA FinishTransientKeeps ==
  ASSUME IndInv, NEW r \in Requests, FinishTransient(r)
  PROVE  IndInv'
<1> USE DEF plan
<1>1. /\ pc[r] = "finishing" /\ lock[r] = "free" /\ winner[r] = None
      /\ r \notin wire /\ r \notin state /\ Loose(r) /\ status[r] \in Terminals
  BY UnfinishedIsLoose DEF FinishTransient, IndInv, LocalInv, TaskInv
<1>2. /\ state' = RemoveSubtree(state, chain, r) /\ statePins' = DropPins(Released(statePins, r), state')
      /\ state' \subseteq state /\ Whole(state')
  BY <1>1, RemovalKeepsWhole, StoresAreWhole DEF FinishTransient, SetState, IndInv, TypeOK
<1>3. wire' = wire /\ Whole(wire')
  BY StoresAreWhole DEF FinishTransient
<1>4. TypeOK'
  <2>1. state' \in SUBSET Requests /\ statePins' \in [Requests -> Nat]
        /\ wirePins' \in [Requests -> Nat]
    BY <1>2, ReleasedType, PinsType DEF FinishTransient, IndInv, TypeOK
  <2> QED
    BY <1>1, <2>1 DEF FinishTransient, IndInv, TypeOK, Registered
<1>5. PinsFollow(wirePins, wirePins', wire', r) /\ PinsFollow(statePins, statePins', state', r)
  BY <1>2 DEF FinishTransient, PinsFollow
<1>6. Cardinality(wire') <= WireCap /\ Cardinality(state') <= StateCap
  BY <1>2, <1>3, SmallerFits
<1>7. Writes(r)
  BY <1>1, <1>2 DEF FinishTransient, Writes, IndInv, TypeOK, LocalInv, RecordInv
<1>8. LocalInv(r)'
  <2>1. /\ pc'[r] = "leaving" /\ r \notin active' /\ r \notin pending' /\ winner'[r] = status[r]
        /\ told'[r] = status[r] /\ r \notin wire' /\ r \notin state'
        /\ UNCHANGED <<cpc, lock, status, wire, wireStatus, toldCancel>>
    BY <1>1, <1>2, <1>3 DEF FinishTransient, IndInv, TypeOK
  <2>2. LocalInv(r)
    BY DEF IndInv
  <2>3. toldCancel[r] \in {None, "refused"}
    BY <1>1, <2>2 DEF LocalInv, TaskInv, Pre, None, Terminals, IndInv, TypeOK
  <2> QED
    BY <1>1, <2>1, <2>2, <2>3
    DEF LocalInv, RecordInv, TaskInv, CancelInv, ToldInv, Early, Pre, None, Terminals
<1> QED
  BY <1>2, <1>3, <1>4, <1>5, <1>6, <1>7, <1>8, WritesKeeps

(* Retention is refused.                                                   *)
LEMMA CommitRefusedKeeps ==
  ASSUME IndInv, NEW r \in Requests, CommitRefused(r)
  PROVE  IndInv'
<1> USE DEF plan
<1>1. /\ pc[r] = "committing" /\ winner[r] = None
      /\ r \notin wire /\ r \notin state /\ Loose(r)
  BY UnfinishedIsLoose DEF CommitRefused, IndInv, LocalInv, TaskInv
<1>2. /\ state' = RemoveSubtree(state, chain, r) /\ statePins' = DropPins(statePins, state')
      /\ state' \subseteq state /\ Whole(state')
  BY <1>1, RemovalKeepsWhole, StoresAreWhole DEF CommitRefused, SetState, IndInv, TypeOK
<1>3. /\ wire' = RemoveSubtree(wire, chain, r) /\ wirePins' = DropPins(wirePins, wire')
      /\ wire' \subseteq wire /\ Whole(wire')
      /\ wireStatus' = [x \in Requests |-> IF x \in wire' THEN wireStatus[x] ELSE None]
  BY <1>1, RemovalKeepsWhole, StoresAreWhole DEF CommitRefused, SetWire, IndInv, TypeOK
<1>4. TypeOK'
  <2>1. state' \in SUBSET Requests /\ statePins' \in [Requests -> Nat]
        /\ wire' \in SUBSET Requests /\ wirePins' \in [Requests -> Nat]
        /\ wireStatus' \in [Requests -> Terminals \cup {None}]
    BY <1>2, <1>3, PinsType DEF IndInv, TypeOK
  <2> QED
    BY <2>1 DEF CommitRefused, IndInv, TypeOK, Registered, answers
<1>5. PinsFollow(wirePins, wirePins', wire', r) /\ PinsFollow(statePins, statePins', state', r)
  BY <1>2, <1>3 DEF CommitRefused, PinsFollow
<1>6. Cardinality(wire') <= WireCap /\ Cardinality(state') <= StateCap
  BY <1>2, <1>3, SmallerFits
<1>7. Writes(r)
  BY <1>1, <1>2, <1>3 DEF CommitRefused, Writes, IndInv, TypeOK, answers
<1>8. LocalInv(r)'
  <2>1. /\ pc'[r] = "refused" /\ r \notin active' /\ r \notin wire' /\ r \notin state'
        /\ wireStatus'[r] = None
        /\ UNCHANGED <<cpc, lock, status, pending, winner, held, told, toldCancel>>
    BY <1>1, <1>2, <1>3 DEF CommitRefused, IndInv, TypeOK, answers
  <2>2. LocalInv(r)
    BY DEF IndInv
  <2>3. toldCancel[r] \in {None, "refused"} /\ told[r] = None
    BY <1>1, <2>2 DEF LocalInv, TaskInv, ToldInv, Pre, None, Terminals, IndInv, TypeOK
  <2> QED
    BY <1>1, <2>1, <2>2, <2>3
    DEF LocalInv, RecordInv, TaskInv, CancelInv, ToldInv, Early, Pre, None, Terminals
<1> QED
  BY <1>2, <1>3, <1>4, <1>5, <1>6, <1>7, <1>8, WritesKeeps

(* A request is abandoned.                                                 *)
LEMMA AbandonKeeps ==
  ASSUME IndInv, NEW r \in Requests, Abandon(r)
  PROVE  IndInv'
<1> USE DEF plan
<1>1. pc[r] = "leaving" /\ lock[r] = "free" /\ (winner[r] # None => r \notin active)
  BY DEF Abandon, IndInv, LocalInv, ToldInv
<1>2. /\ state' \subseteq state /\ Whole(state') /\ statePins' = DropPins(Released(statePins, r), state')
      /\ wire' \subseteq wire /\ Whole(wire') /\ wirePins' = DropPins(Released(wirePins, r), wire')
      /\ wireStatus' = [x \in Requests |-> IF x \in wire' THEN wireStatus[x] ELSE None]
  <2>1. CASE winner[r] # None
    BY <2>1, StoresAreWhole DEF Abandon, SetState, SetWire
  <2>2. CASE winner[r] = None
    <3>1. Loose(r)
      BY <1>1, <2>2, UnfinishedIsLoose
    <3> QED
      BY <2>2, <3>1, RemovalKeepsWhole, StoresAreWhole DEF Abandon, SetState, SetWire, IndInv, TypeOK
  <2> QED
    BY <2>1, <2>2
<1>4. TypeOK'
  <2>1. state' \in SUBSET Requests /\ statePins' \in [Requests -> Nat]
        /\ wire' \in SUBSET Requests /\ wirePins' \in [Requests -> Nat]
        /\ wireStatus' \in [Requests -> Terminals \cup {None}]
    BY <1>2, PinsType, ReleasedType DEF IndInv, TypeOK
  <2> QED
    BY <2>1 DEF Abandon, IndInv, TypeOK, Registered, answers
<1>5. PinsFollow(wirePins, wirePins', wire', r) /\ PinsFollow(statePins, statePins', state', r)
  BY <1>2 DEF Abandon, PinsFollow
<1>6. Cardinality(wire') <= WireCap /\ Cardinality(state') <= StateCap
  BY <1>2, SmallerFits
<1>7. Writes(r)
  BY <1>1, <1>2 DEF Abandon, Writes, IndInv, TypeOK, answers
<1>8. LocalInv(r)'
  <2>1. /\ pc'[r] = "done" /\ r \notin active' /\ r \notin pending' /\ winner'[r] = None
        /\ held'[r] = {} /\ status'[r] = None
        /\ r \in state' => r \in state
        /\ r \in wire' => r \in wire
        /\ wireStatus'[r] = IF r \in wire' THEN wireStatus[r] ELSE None
        /\ UNCHANGED <<cpc, lock, told, toldCancel>>
    BY <1>1, <1>2 DEF Abandon, IndInv, TypeOK, answers
  <2>2. LocalInv(r)
    BY DEF IndInv
  <2> QED
    BY <1>1, <2>1, <2>2
    DEF LocalInv, RecordInv, TaskInv, CancelInv, ToldInv, Early, Pre, None, Terminals
<1> QED
  BY <1>2, <1>4, <1>5, <1>6, <1>7, <1>8, WritesKeeps

(* The cancelled resource does not fit.                                    *)
LEMMA CancelRefusedKeeps ==
  ASSUME IndInv, NEW r \in Requests, CancelRefused(r)
  PROVE  IndInv'
<1> USE DEF plan
<1>1. /\ cpc[r] = "cancelling" /\ winner[r] = None /\ r \in active
      /\ pc[r] \in {"running", "putting", "finishing", "leaving", "lost"}
      /\ r \notin wire /\ r \notin state /\ Loose(r)
  BY UnfinishedIsLoose DEF CancelRefused, IndInv, LocalInv, CancelInv
<1>2. /\ state' = RemoveSubtree(state, chain, r) /\ statePins' = DropPins(Released(statePins, r), state')
      /\ state' \subseteq state /\ Whole(state')
  BY <1>1, RemovalKeepsWhole, StoresAreWhole DEF CancelRefused, SetState, IndInv, TypeOK
<1>3. wire' = wire /\ Whole(wire')
  BY StoresAreWhole DEF CancelRefused
<1>4. TypeOK'
  <2>1. state' \in SUBSET Requests /\ statePins' \in [Requests -> Nat]
        /\ wirePins' \in [Requests -> Nat]
    BY <1>2, ReleasedType, PinsType DEF CancelRefused, IndInv, TypeOK
  <2> QED
    BY <2>1 DEF CancelRefused, IndInv, TypeOK
<1>5. PinsFollow(wirePins, wirePins', wire', r) /\ PinsFollow(statePins, statePins', state', r)
  BY <1>2 DEF CancelRefused, PinsFollow
<1>6. Cardinality(wire') <= WireCap /\ Cardinality(state') <= StateCap
  BY <1>2, <1>3, SmallerFits
<1>7. Writes(r)
  BY <1>1, <1>2 DEF CancelRefused, Writes, IndInv, TypeOK, LocalInv, RecordInv
<1>8. LocalInv(r)'
  <2>1. /\ cpc'[r] = "done" /\ lock'[r] = "free" /\ toldCancel'[r] = "refused"
        /\ r \notin active' /\ r \notin pending' /\ held'[r] = {}
        /\ r \notin wire' /\ r \notin state'
        /\ UNCHANGED <<pc, status, winner, wire, wireStatus, told>>
    BY <1>1, <1>2, <1>3 DEF CancelRefused, IndInv, TypeOK
  <2>2. LocalInv(r)
    BY DEF IndInv
  <2> QED
    BY <1>1, <2>1, <2>2
    DEF LocalInv, RecordInv, TaskInv, CancelInv, ToldInv, Early, Pre, None, Terminals
<1> QED
  BY <1>2, <1>3, <1>4, <1>5, <1>6, <1>7, <1>8, WritesKeeps

(* What a commit leaves of the state store when the wire store makes room: *)
(* it forgets r, and what the other store evicted.                         *)
LEMMA ForgottenKeepsWhole ==
  ASSUME IndInv, NEW r \in Requests, Loose(r), NEW leftW, Whole(leftW)
  PROVE  LET new == RemoveSubtrees(RemoveSubtree(state, chain, r), chain, wire \ leftW)
         IN  new \subseteq state \ {r} /\ Whole(new)
<1> DEFINE ids == RemoveSubtree(state, chain, r)
<1>1. ids \subseteq state \ {r} /\ Whole(ids)
  BY RemovalKeepsWhole, StoresAreWhole DEF IndInv, TypeOK
<1>2. \A v \in wire \ leftW : Loose(v)
  BY DEF Whole, Loose
<1>3. ids \in SUBSET Requests
  BY <1>1 DEF IndInv, TypeOK
<1> HIDE DEF ids
<1>4. RemoveSubtrees(ids, chain, wire \ leftW) \subseteq ids /\ Whole(RemoveSubtrees(ids, chain, wire \ leftW))
  BY <1>1, <1>2, <1>3, RemovalsKeepWhole
<1> QED
  BY <1>1, <1>4 DEF ids

(* The wire store before and after r is retained, or is not.               *)
LEMMA RetainedOrNot ==
  ASSUME IndInv, NEW r \in Requests,
         NEW leftW, leftW \in WireRooms(r) \/ leftW = wire
  PROVE  /\ leftW \subseteq wire \cup {r} /\ Whole(leftW) /\ Cardinality(leftW) <= WireCap
         /\ leftW \in SUBSET Requests
<1>1. CASE leftW \in WireRooms(r)
  BY <1>1, WireRoom DEF IndInv, TypeOK
<1>2. CASE leftW = wire
  BY <1>2, StoresAreWhole DEF IndInv, TypeOK, SharedInv, StoreInv
<1> QED
  BY <1>1, <1>2

(* Cancelled becomes the terminal.                                         *)
LEMMA CancelCommitsKeeps ==
  ASSUME IndInv, NEW r \in Requests,
         NEW leftW \in IF store[r] THEN WireRooms(r) ELSE {wire}, CancelCommits(r, leftW)
  PROVE  IndInv'
<1> USE DEF plan
<1>0. /\ leftW \subseteq wire \cup {r} /\ Whole(leftW) /\ Cardinality(leftW) <= WireCap
      /\ leftW \in SUBSET Requests
  BY RetainedOrNot
<1>1. /\ cpc[r] = "cancelling" /\ winner[r] = None /\ r \in active
      /\ pc[r] \in {"running", "putting", "finishing", "leaving", "lost"}
      /\ r \notin wire /\ r \notin state /\ Loose(r)
  BY UnfinishedIsLoose DEF CancelCommits, IndInv, LocalInv, CancelInv
<1>2. /\ statePins' = DropPins(Released(statePins, r), state')
      /\ state' \subseteq state \ {r} /\ Whole(state')
  BY <1>0, <1>1, ForgottenKeepsWhole DEF CancelCommits, SetState
<1>3. /\ wire' = leftW /\ wirePins' = DropPins(Released(wirePins, r), wire')
      /\ wireStatus' = [x \in Requests |-> IF x \in leftW
                          THEN [wireStatus EXCEPT ![r] = "cancelled"][x] ELSE None]
  BY DEF CancelCommits, SetWire
<1>4. TypeOK'
  <2>1. state' \in SUBSET Requests /\ statePins' \in [Requests -> Nat]
        /\ wire' \in SUBSET Requests /\ wirePins' \in [Requests -> Nat]
    BY <1>0, <1>2, <1>3, ReleasedType, PinsType DEF IndInv, TypeOK
  <2>2. wireStatus' \in [Requests -> Terminals \cup {None}]
    BY <1>3 DEF IndInv, TypeOK, Terminals
  <2> QED
    BY <2>1, <2>2 DEF CancelCommits, IndInv, TypeOK, Terminals
<1>5. PinsFollow(wirePins, wirePins', wire', r) /\ PinsFollow(statePins, statePins', state', r)
  BY <1>2, <1>3 DEF CancelCommits, PinsFollow
<1>6. Cardinality(wire') <= WireCap /\ Cardinality(state') <= StateCap
  BY <1>0, <1>2, <1>3, SmallerFits
<1>7. Writes(r)
  BY <1>0, <1>1, <1>2, <1>3 DEF CancelCommits, Writes, IndInv, TypeOK
<1>8. LocalInv(r)'
  <2>1. /\ cpc'[r] = "done" /\ lock'[r] = "free" /\ toldCancel'[r] = "cancelled"
        /\ winner'[r] = "cancelled"
        /\ r \notin active' /\ r \notin pending' /\ held'[r] = {} /\ r \notin state'
        /\ wireStatus'[r] = IF r \in wire' THEN "cancelled" ELSE None
        /\ UNCHANGED <<pc, status, told>>
    BY <1>1, <1>2, <1>3 DEF CancelCommits, IndInv, TypeOK
  <2>2. LocalInv(r)
    BY DEF IndInv
  <2> QED
    BY <1>1, <2>1, <2>2
    DEF LocalInv, RecordInv, TaskInv, CancelInv, ToldInv, Early, Pre, None, Terminals
<1> QED
  BY <1>0, <1>2, <1>3, <1>4, <1>5, <1>6, <1>7, <1>8, WritesKeeps

(* A terminal other than completed is retained in the wire store only.     *)
LEMMA CommitOtherKeeps ==
  ASSUME IndInv, NEW r \in Requests,
         NEW leftW \in IF Retains(r) THEN WireRooms(r) ELSE {wire}, CommitOther(r, leftW)
  PROVE  IndInv'
<1> USE DEF plan
<1>0. /\ leftW \subseteq wire \cup {r} /\ Whole(leftW) /\ Cardinality(leftW) <= WireCap
      /\ leftW \in SUBSET Requests
  BY RetainedOrNot
<1>1. /\ pc[r] = "committing" /\ winner[r] = None /\ status[r] \in Terminals
      /\ r \notin wire /\ r \notin state /\ Loose(r)
  BY UnfinishedIsLoose DEF CommitOther, IndInv, LocalInv, TaskInv
<1>2. /\ statePins' = DropPins(statePins, state')
      /\ state' \subseteq state \ {r} /\ Whole(state')
  BY <1>0, <1>1, ForgottenKeepsWhole DEF CommitOther, SetState
<1>3. /\ wire' = leftW /\ wirePins' = DropPins(wirePins, wire')
      /\ wireStatus' = [x \in Requests |-> IF x \in leftW
                          THEN [wireStatus EXCEPT ![r] = status[r]][x] ELSE None]
      /\ r \in leftW => r \in active
  BY <1>1 DEF CommitOther, SetWire, Retains
<1>4. TypeOK'
  <2>1. state' \in SUBSET Requests /\ statePins' \in [Requests -> Nat]
        /\ wire' \in SUBSET Requests /\ wirePins' \in [Requests -> Nat]
    BY <1>0, <1>2, <1>3, PinsType DEF IndInv, TypeOK
  <2>2. wireStatus' \in [Requests -> Terminals \cup {None}]
    BY <1>1, <1>3 DEF IndInv, TypeOK
  <2> QED
    BY <1>1, <2>1, <2>2 DEF CommitOther, IndInv, TypeOK, Registered, answers
<1>5. PinsFollow(wirePins, wirePins', wire', r) /\ PinsFollow(statePins, statePins', state', r)
  BY <1>2, <1>3 DEF CommitOther, PinsFollow
<1>6. Cardinality(wire') <= WireCap /\ Cardinality(state') <= StateCap
  BY <1>0, <1>2, <1>3, SmallerFits
<1>7. Writes(r)
  BY <1>0, <1>1, <1>2, <1>3 DEF CommitOther, Writes, IndInv, TypeOK, answers
<1>8. LocalInv(r)'
  <2>1. /\ pc'[r] = "committed" /\ winner'[r] = status[r]
        /\ r \notin active' /\ r \notin state'
        /\ wireStatus'[r] = IF r \in wire' THEN status[r] ELSE None
        /\ r \in wire' => r \in active
        /\ UNCHANGED <<cpc, lock, status, pending, held, told, toldCancel>>
    BY <1>1, <1>2, <1>3 DEF CommitOther, IndInv, TypeOK, answers
  <2>2. LocalInv(r)
    BY DEF IndInv
  <2>3. toldCancel[r] \in {None, "refused"} /\ told[r] = None
    BY <1>1, <2>2 DEF LocalInv, TaskInv, ToldInv, Pre, None, Terminals, IndInv, TypeOK
  <2>4. RecordInv(r)' /\ CancelInv(r)'
    BY <1>1, <2>1, <2>2, <2>3 DEF LocalInv, RecordInv, CancelInv, TaskInv, None, Terminals
  <2>5. TaskInv(r)' /\ ToldInv(r)'
    BY <1>1, <2>1, <2>2, <2>3
    DEF LocalInv, RecordInv, TaskInv, CancelInv, ToldInv, Early, Pre, None, Terminals
  <2> QED
    BY <2>4, <2>5 DEF LocalInv
<1> QED
  BY <1>0, <1>2, <1>3, <1>4, <1>5, <1>6, <1>7, <1>8, WritesKeeps

-----------------------------------------------------------------------------
(* The walk of _retained_chain_is_consistent().                            *)

(* Among the inconsistent records of a chain there is a first one on the   *)
(* way from r to the root: all others are its ancestors.                   *)
LEMMA WalkStops ==
  ASSUME IndInv, NEW r \in Requests, NEW bad \in SUBSET chain[r], bad # {}
  PROVE  \E c \in bad : bad \subseteq chain[c]
<1> DEFINE n(c) == Cardinality(chain[c])
           T == {n(r) - n(c) : c \in bad}
<1>1. IsFiniteSet(chain[r])
  <2>1. chain[r] \subseteq Begun \cup {r} /\ IsFiniteSet(Begun)
    BY DEF IndInv, SharedInv, ChainInv
  <2> QED
    BY <2>1, FS_AddElement, FS_Subset
<1>2. \A c \in bad : /\ c \in Requests /\ chain[c] \subseteq chain[r]
                     /\ IsFiniteSet(chain[c]) /\ n(c) \in Nat /\ n(r) \in Nat /\ n(c) <= n(r)
  <2> TAKE c \in bad
  <2>1. c \in Requests /\ chain[c] \subseteq chain[r]
    BY DEF IndInv, TypeOK, SharedInv, ChainInv
  <2> QED
    BY <1>1, <2>1, FS_Subset, FS_CardinalityType
<1>3. T \in SUBSET Nat /\ T # {}
  <2>1. \A c \in bad : n(r) - n(c) \in Nat
    BY <1>2
  <2> QED
    BY <2>1
<1>4. PICK m \in T : \A y \in T : m <= y
  BY <1>3, LeastNumber
<1>5. PICK c \in bad : m = n(r) - n(c)
  OBVIOUS
<1>6. ASSUME NEW d \in bad, d \notin chain[c]
      PROVE  FALSE
  <2>1. c \in chain[d]
    BY <1>6 DEF IndInv, SharedInv, ChainInv
  <2>2. chain[c] \subseteq chain[d] /\ d \in chain[d]
    BY <1>2, <2>1 DEF IndInv, SharedInv, ChainInv
  <2>3. n(c) # n(d) /\ n(c) <= n(d)
    BY <1>2, <1>6, <2>2, FS_Subset
  <2>4. n(r) - n(c) <= n(r) - n(d)
    BY <1>4, <1>5
  <2>5. n(c) \in Nat /\ n(d) \in Nat /\ n(r) \in Nat
    BY <1>2
  <2> HIDE DEF n
  <2> QED
    BY <2>3, <2>4, <2>5
<1> QED
  BY <1>6

(* A failed walk removes only records that nobody holds, r among them.     *)
LEMMA WalkKeepsWhole ==
  ASSUME IndInv, NEW r \in Requests,
         NEW ids \in SUBSET Requests, NEW wids \in SUBSET Requests, Whole(ids), Whole(wids),
         NEW statuses, \A o \in Requests : \A c \in held[o] : statuses[c] = "completed",
         Inconsistent(ids, wids, statuses, r) # {}
  PROVE  /\ Loose(r)
         /\ LET new == RemoveSubtree(StateAfterWalk(ids, wids, statuses, r), chain, r)
            IN  new \subseteq ids \ {r} /\ Whole(new)
         /\ LET new == RemoveSubtree(WireAfterWalk(ids, wids, statuses, r), chain, r)
            IN  new \subseteq wids \ {r} /\ Whole(new)
<1> DEFINE bad == Inconsistent(ids, wids, statuses, r)
           c == FirstInconsistent(ids, wids, statuses, r)
           walked == {d \in chain[r] : c \in Ancestors(d)}
           lost == IF c \notin ids THEN walked ELSE walked \cup {c}
<1>1. bad \in SUBSET chain[r] /\ \A d \in bad : Loose(d)
  BY DEF Inconsistent, Loose, Whole
<1>2. \E d \in bad : bad \subseteq chain[d]
  BY <1>1, WalkStops
<1>3. c \in bad
  BY <1>2 DEF FirstInconsistent
<1>4. c \in Requests /\ c \in chain[r] /\ Loose(c)
  BY <1>1, <1>3 DEF IndInv, TypeOK
<1>5. ASSUME NEW d \in Requests, c \in chain[d]
      PROVE  Loose(d)
  BY <1>4, <1>5, HeldChain DEF Loose
<1>6. Loose(r)
  BY <1>4, <1>5
<1>7. \A d \in lost : Loose(d)
  BY <1>4, <1>5 DEF Ancestors, IndInv, TypeOK
<1>8. StateAfterWalk(ids, wids, statuses, r) = RemoveSubtree(ids, chain, IF c \notin ids THEN r ELSE c)
      /\ WireAfterWalk(ids, wids, statuses, r) = RemoveSubtrees(wids, chain, lost)
  BY DEF StateAfterWalk, WireAfterWalk
<1> HIDE DEF bad, c, lost, walked
<1>9. StateAfterWalk(ids, wids, statuses, r) \subseteq ids /\ Whole(StateAfterWalk(ids, wids, statuses, r))
  BY <1>4, <1>6, <1>8, RemovalKeepsWhole
<1>10. WireAfterWalk(ids, wids, statuses, r) \subseteq wids /\ Whole(WireAfterWalk(ids, wids, statuses, r))
  BY <1>7, <1>8, RemovalsKeepWhole
<1>11. /\ RemoveSubtree(StateAfterWalk(ids, wids, statuses, r), chain, r)
            \subseteq StateAfterWalk(ids, wids, statuses, r) \ {r}
       /\ Whole(RemoveSubtree(StateAfterWalk(ids, wids, statuses, r), chain, r))
  BY <1>6, <1>9, RemovalKeepsWhole
<1>12. /\ RemoveSubtree(WireAfterWalk(ids, wids, statuses, r), chain, r)
            \subseteq WireAfterWalk(ids, wids, statuses, r) \ {r}
       /\ Whole(RemoveSubtree(WireAfterWalk(ids, wids, statuses, r), chain, r))
  BY <1>6, <1>10, RemovalKeepsWhole
<1> QED
  BY <1>6, <1>9, <1>10, <1>11, <1>12

(* GET of a response: shown, missing, broken, or as it is.                 *)
LEMMA RetrieveKeeps ==
  ASSUME IndInv, NEW r \in Requests, Retrieve(r)
  PROVE  IndInv'
<1> USE DEF plan
<1> DEFINE shown == r \in active /\ store[r]
           missing == ~shown /\ r \notin wire
           broken == /\ ~shown /\ ~missing /\ wireStatus[r] = "completed"
                     /\ Inconsistent(state, wire, wireStatus, r) # {}
<1>0. /\ pc[r] \in Registered \cup {"done", "lost"} /\ lock[r] = "free"
      /\ wire \in SUBSET Requests /\ state \in SUBSET Requests
  BY DEF Retrieve, Known, IndInv, TypeOK
<1>1. missing => Loose(r)
  BY DEF Loose, IndInv, SharedInv, HoldInv
<1>2. \A o \in Requests : \A c \in held[o] : wireStatus[c] = "completed"
  BY HeldChain
<1>3. /\ state' \subseteq state /\ Whole(state') /\ statePins' = DropPins(statePins, state')
      /\ broken => r \notin state'
  <2>1. CASE missing
    BY <1>0, <1>1, <2>1, RemovalKeepsWhole, StoresAreWhole DEF Retrieve, SetState
  <2>2. CASE broken
    BY <1>0, <1>2, <2>2, WalkKeepsWhole, StoresAreWhole DEF Retrieve, SetState
  <2>3. CASE ~missing /\ ~broken
    BY <2>3, StoresAreWhole DEF Retrieve, SetState
  <2> QED
    BY <2>1, <2>2, <2>3
<1>4. /\ wire' \subseteq wire /\ Whole(wire') /\ wirePins' = DropPins(wirePins, wire')
      /\ wireStatus' = [x \in Requests |-> IF x \in wire' THEN wireStatus[x] ELSE None]
      /\ broken => r \notin wire'
  <2>1. CASE broken
    BY <1>0, <1>2, <2>1, WalkKeepsWhole, StoresAreWhole DEF Retrieve, SetWire
  <2>2. CASE ~broken
    BY <2>2, StoresAreWhole DEF Retrieve, SetWire
  <2> QED
    BY <2>1, <2>2
<1>5. /\ pending' \in {pending, pending \ {r}}
      /\ winner' = [winner EXCEPT ![r] = IF broken THEN None ELSE @]
      /\ active' = IF broken THEN active \ {r} ELSE active
      /\ UNCHANGED <<pc, cpc, plan, lock, status, carried, held, answers>>
  BY DEF Retrieve
<1>6. broken => r \in wire /\ wireStatus[r] = "completed"
  OBVIOUS
<1> HIDE DEF shown, missing, broken
<1>7. TypeOK'
  <2>1. state' \in SUBSET Requests /\ statePins' \in [Requests -> Nat]
        /\ wire' \in SUBSET Requests /\ wirePins' \in [Requests -> Nat]
    BY <1>0, <1>3, <1>4, PinsType DEF IndInv, TypeOK
  <2>2. wireStatus' \in [Requests -> Terminals \cup {None}]
    BY <1>4 DEF IndInv, TypeOK
  <2>3. winner' \in [Requests -> Terminals \cup {None}]
    BY <1>5 DEF IndInv, TypeOK
  <2> QED
    BY <1>5, <2>1, <2>2, <2>3 DEF IndInv, TypeOK, Registered, answers
<1>8. PinsFollow(wirePins, wirePins', wire', r) /\ PinsFollow(statePins, statePins', state', r)
  BY <1>3, <1>4, <1>5 DEF PinsFollow
<1>9. Cardinality(wire') <= WireCap /\ Cardinality(state') <= StateCap
  BY <1>3, <1>4, SmallerFits
<1>10. Writes(r)
  BY <1>0, <1>3, <1>4, <1>5 DEF Writes, IndInv, TypeOK, answers, Registered
<1>11. LocalInv(r)'
  <2>1. /\ UNCHANGED <<pc, cpc, lock, status, held, told, toldCancel>>
        /\ r \in pending' => r \in pending
        /\ winner'[r] = IF broken THEN None ELSE winner[r]
        /\ r \in active' => r \in active /\ ~broken
        /\ ~broken /\ r \in active => r \in active'
        /\ r \in state' => r \in state /\ ~broken
        /\ r \in wire' => r \in wire /\ ~broken
        /\ wireStatus'[r] = IF r \in wire' THEN wireStatus[r] ELSE None
    BY <1>3, <1>4, <1>5 DEF IndInv, TypeOK, answers
  <2>2. LocalInv(r)
    BY DEF IndInv
  <2>3. RecordInv(r)' /\ CancelInv(r)' /\ ToldInv(r)'
    BY <1>0, <1>6, <2>1, <2>2
    DEF LocalInv, RecordInv, TaskInv, CancelInv, ToldInv, Registered, Early, Pre, None, Terminals
  <2>4. TaskInv(r)'
    BY <1>0, <1>6, <2>1, <2>2
    DEF LocalInv, RecordInv, TaskInv, CancelInv, ToldInv, Registered, Early, Pre, None, Terminals
  <2> QED
    BY <2>3, <2>4 DEF LocalInv
<1> QED
  BY <1>3, <1>4, <1>7, <1>8, <1>9, <1>10, <1>11, WritesKeeps

-----------------------------------------------------------------------------
(* The commit of a completed response.                                     *)

(* What the two stores hold after they made room for each other.           *)
LEMMA RoomsAgree ==
  ASSUME IndInv, NEW r \in Requests, pc[r] = "committing",
         NEW leftW \in IF Retains(r) THEN WireRooms(r) ELSE {wire}, NEW leftS \in StateRooms(r)
  PROVE  LET ids  == RemoveSubtrees(leftS, chain, wire \ leftW)
             wids == RemoveSubtrees(leftW, chain, state \ leftS)
         IN  /\ ids \subseteq state \cup {r} /\ Whole(ids) /\ Cardinality(ids) <= StateCap
             /\ wids \subseteq wire \cup {r} /\ Whole(wids) /\ Cardinality(wids) <= WireCap
             /\ r \in active => chain[r] \subseteq ids \cap wids
             /\ r \notin active => wids \subseteq wire
<1> DEFINE ids  == RemoveSubtrees(leftS, chain, wire \ leftW)
           wids == RemoveSubtrees(leftW, chain, state \ leftS)
<1>1. /\ leftS \subseteq state \cup {r} /\ Whole(leftS)
      /\ chain[r] \subseteq leftS /\ Cardinality(leftS) <= StateCap
  BY StateRoom
<1>2. /\ leftW \subseteq wire \cup {r} /\ Whole(leftW) /\ Cardinality(leftW) <= WireCap
  BY RetainedOrNot
<1>3. leftS \in SUBSET Requests /\ leftW \in SUBSET Requests
      /\ wire \in SUBSET Requests /\ state \in SUBSET Requests
  BY <1>1, <1>2 DEF IndInv, TypeOK
<1>4. r \notin wire /\ r \notin state /\ Loose(r)
  BY UnfinishedIsLoose DEF IndInv, LocalInv, TaskInv
<1>5. \A v \in (wire \ leftW) \cup (state \ leftS) : Loose(v)
  BY <1>1, <1>2 DEF Whole, Loose
<1>6. ids \subseteq leftS /\ Whole(ids)
  BY <1>1, <1>3, <1>5, RemovalsKeepWhole
<1>7. wids \subseteq leftW /\ Whole(wids)
  BY <1>2, <1>3, <1>5, RemovalsKeepWhole
<1>8. \A new : new \subseteq leftS => Cardinality(new) <= StateCap
  <2>1. leftS \subseteq Begun /\ IsFiniteSet(Begun)
    BY <1>1, <1>3 DEF IndInv, SharedInv, ChainInv, Begun, LocalInv, RecordInv
  <2>2. IsFiniteSet(leftS) /\ Cardinality(leftS) \in Nat
    BY <2>1, FS_Subset, FS_CardinalityType
  <2>3. \A new : new \subseteq leftS => Cardinality(new) \in Nat /\ Cardinality(new) <= Cardinality(leftS)
    BY <2>2, FS_Subset, FS_CardinalityType
  <2> QED
    BY <1>1, <2>2, <2>3, CapAssumption
<1>9. \A new : new \subseteq leftW => Cardinality(new) <= WireCap
  <2>1. wire \subseteq Begun /\ r \in Begun /\ IsFiniteSet(Begun)
    BY <1>3 DEF IndInv, SharedInv, ChainInv, Begun, LocalInv, RecordInv, TaskInv, Early
  <2>2. IsFiniteSet(leftW) /\ Cardinality(leftW) \in Nat
    BY <1>2, <2>1, FS_Subset, FS_CardinalityType
  <2>3. \A new : new \subseteq leftW => Cardinality(new) \in Nat /\ Cardinality(new) <= Cardinality(leftW)
    BY <2>2, FS_Subset, FS_CardinalityType
  <2> QED
    BY <1>2, <2>2, <2>3, CapAssumption
<1>10. ASSUME r \in active
       PROVE  chain[r] \subseteq ids \cap wids
  <2>1. chain[r] \subseteq leftW
    BY <1>10, WireRoom DEF Retains
  <2>2. \A c \in chain[r] : chain[c] \subseteq chain[r]
    BY DEF IndInv, SharedInv, ChainInv
  <2> QED
    BY <1>1, <2>1, <2>2 DEF RemoveSubtrees
<1>11. r \notin active => leftW = wire
  BY <1>4 DEF Retains
<1> QED
  BY <1>1, <1>2, <1>6, <1>7, <1>8, <1>9, <1>10, <1>11

(* A response that is still active commits with its whole chain, one whose *)
(* registration is gone is refused.                                        *)
LEMMA CommitDecides ==
  ASSUME IndInv, NEW r \in Requests, pc[r] = "committing",
         NEW leftW \in IF Retains(r) THEN WireRooms(r) ELSE {wire}, NEW leftS \in StateRooms(r)
  PROVE  LET ids  == RemoveSubtrees(leftS, chain, wire \ leftW)
             wids == RemoveSubtrees(leftW, chain, state \ leftS)
             statuses == [wireStatus EXCEPT ![r] = IF r \in active THEN "completed" ELSE @]
         IN  /\ Inconsistent(ids, wids, statuses, r) = {} <=> r \in active
             /\ \A o \in Requests : \A c \in held[o] : statuses[c] = "completed"
<1> DEFINE ids  == RemoveSubtrees(leftS, chain, wire \ leftW)
           wids == RemoveSubtrees(leftW, chain, state \ leftS)
           statuses == [wireStatus EXCEPT ![r] = IF r \in active THEN "completed" ELSE @]
<1>1. /\ ids \subseteq state \cup {r} /\ wids \subseteq wire \cup {r}
      /\ r \in active => chain[r] \subseteq ids \cap wids
      /\ r \notin active => wids \subseteq wire
  BY RoomsAgree
<1>2. r \notin wire /\ r \notin state /\ Loose(r)
  BY UnfinishedIsLoose DEF IndInv, LocalInv, TaskInv
<1>3. /\ statuses[r] = IF r \in active THEN "completed" ELSE wireStatus[r]
      /\ \A c \in Requests \ {r} : statuses[c] = wireStatus[c]
  BY DEF IndInv, TypeOK
<1> HIDE DEF ids, wids, statuses
<1>4. ASSUME r \in active, NEW c \in chain[r]
      PROVE  c \in ids /\ c \in wids /\ statuses[c] = "completed"
  <2>1. CASE c = r
    BY <1>1, <1>3, <1>4, <2>1
  <2>2. CASE c # r
    <3>1. c \in Requests /\ c \in state /\ c \in wire
      BY <1>1, <1>4, <2>2 DEF IndInv, TypeOK
    <3>2. wireStatus[c] = "completed"
      BY <3>1 DEF IndInv, LocalInv, RecordInv
    <3> QED
      BY <1>1, <1>3, <1>4, <2>2, <3>1, <3>2
  <2> QED
    BY <2>1, <2>2
<1>5. ASSUME r \notin active
      PROVE  r \in Inconsistent(ids, wids, statuses, r)
  BY <1>1, <1>2, <1>5 DEF Inconsistent, IndInv, SharedInv, ChainInv
<1>6. Inconsistent(ids, wids, statuses, r) = {} <=> r \in active
  BY <1>4, <1>5 DEF Inconsistent
<1>7. \A o \in Requests : \A c \in held[o] : statuses[c] = "completed"
  BY <1>2, <1>3, HeldChain DEF Loose
<1> QED
  BY <1>6, <1>7 DEF ids, wids, statuses

(* A completed response is retained in both stores.                        *)
LEMMA CommitCompletedKeeps ==
  ASSUME IndInv, NEW r \in Requests,
         NEW leftW \in IF Retains(r) THEN WireRooms(r) ELSE {wire}, NEW leftS \in StateRooms(r),
         CommitCompleted(r, leftS, leftW)
  PROVE  IndInv'
<1> USE DEF plan
<1> DEFINE ids  == RemoveSubtrees(leftS, chain, wire \ leftW)
           wids == RemoveSubtrees(leftW, chain, state \ leftS)
           statuses == [wireStatus EXCEPT ![r] = IF r \in active THEN "completed" ELSE @]
           ok == r \in active
           newS == RemoveSubtree(StateAfterWalk(ids, wids, statuses, r), chain, r)
           newW == RemoveSubtree(WireAfterWalk(ids, wids, statuses, r), chain, r)
<1>1. /\ pc[r] = "committing" /\ winner[r] = None /\ status[r] = "completed"
      /\ r \notin wire /\ r \notin state /\ Loose(r)
  BY UnfinishedIsLoose DEF CommitCompleted, IndInv, LocalInv, TaskInv
<1>2. /\ ids \subseteq state \cup {r} /\ Whole(ids) /\ Cardinality(ids) <= StateCap
      /\ wids \subseteq wire \cup {r} /\ Whole(wids) /\ Cardinality(wids) <= WireCap
      /\ r \in active => chain[r] \subseteq ids \cap wids
      /\ r \notin active => wids \subseteq wire
  BY <1>1, RoomsAgree
<1>3. /\ Inconsistent(ids, wids, statuses, r) = {} <=> ok
      /\ \A o \in Requests : \A c \in held[o] : statuses[c] = "completed"
  BY <1>1, CommitDecides
<1>4. /\ statuses \in [Requests -> Terminals \cup {None}]
      /\ statuses[r] = IF ok THEN "completed" ELSE wireStatus[r]
      /\ \A x \in Requests \ {r} : statuses[x] = wireStatus[x]
  BY DEF IndInv, TypeOK, Terminals
<1>5. /\ pc' = [pc EXCEPT ![r] = IF ok THEN "committed" ELSE "refused"]
      /\ winner' = [winner EXCEPT ![r] = IF ok THEN "completed" ELSE None]
      /\ SetState(IF ok THEN ids ELSE newS, statePins)
      /\ SetWire(IF ok THEN wids ELSE newW, statuses, wirePins)
      /\ active' = active \ {r} /\ pending' = pending \ {r}
      /\ UNCHANGED <<cpc, plan, lock, status, carried, held, answers>>
  BY <1>3 DEF CommitCompleted
<1>6. ids \in SUBSET Requests /\ wids \in SUBSET Requests
  BY <1>2 DEF IndInv, TypeOK
<1> HIDE DEF ids, wids, statuses
<1>7. ~ok => /\ newS \subseteq ids \ {r} /\ Whole(newS)
             /\ newW \subseteq wids \ {r} /\ Whole(newW)
  BY <1>2, <1>3, <1>6, WalkKeepsWhole
<1> HIDE DEF newS, newW
<1>8. /\ state' = (IF ok THEN ids ELSE newS) /\ Whole(state') /\ statePins' = DropPins(statePins, state')
      /\ wire' = (IF ok THEN wids ELSE newW) /\ Whole(wire') /\ wirePins' = DropPins(wirePins, wire')
      /\ wireStatus' = [x \in Requests |-> IF x \in wire' THEN statuses[x] ELSE None]
  BY <1>2, <1>5, <1>7 DEF SetState, SetWire
<1>9. /\ state' \subseteq state \cup {r} /\ wire' \subseteq wire \cup {r}
      /\ ~ok => r \notin state' /\ r \notin wire' /\ state' \subseteq state /\ wire' \subseteq wire
      /\ ok => r \in state' /\ r \in wire'
  BY <1>2, <1>7, <1>8 DEF IndInv, SharedInv, ChainInv
<1>10. Cardinality(wire') <= WireCap /\ Cardinality(state') <= StateCap
  <2>1. CASE ok
    BY <1>2, <1>8, <2>1
  <2>2. CASE ~ok
    BY <1>9, <2>2, SmallerFits
  <2> QED
    BY <2>1, <2>2
<1>11. TypeOK'
  <2>1. state' \in SUBSET Requests /\ statePins' \in [Requests -> Nat]
        /\ wire' \in SUBSET Requests /\ wirePins' \in [Requests -> Nat]
    BY <1>8, <1>9, PinsType DEF IndInv, TypeOK
  <2>2. wireStatus' \in [Requests -> Terminals \cup {None}]
    BY <1>4, <1>8
  <2>3. winner' \in [Requests -> Terminals \cup {None}]
    BY <1>5 DEF IndInv, TypeOK, Terminals
  <2> QED
    BY <1>5, <2>1, <2>2, <2>3 DEF IndInv, TypeOK, Registered, answers
<1>12. PinsFollow(wirePins, wirePins', wire', r) /\ PinsFollow(statePins, statePins', state', r)
  BY <1>5, <1>8 DEF PinsFollow
<1>13. Writes(r)
  BY <1>1, <1>4, <1>5, <1>8, <1>9 DEF Writes, IndInv, TypeOK, answers
<1>14. LocalInv(r)'
  <2>1. /\ pc'[r] = IF ok THEN "committed" ELSE "refused"
        /\ winner'[r] = IF ok THEN "completed" ELSE None
        /\ r \notin active' /\ r \notin pending'
        /\ wireStatus'[r] = IF ok THEN "completed" ELSE None
        /\ UNCHANGED <<cpc, lock, status, held, told, toldCancel>>
    BY <1>4, <1>5, <1>8, <1>9 DEF IndInv, TypeOK, answers
  <2>2. LocalInv(r)
    BY DEF IndInv
  <2>3. /\ toldCancel[r] \in {None, "refused"} /\ told[r] = None
        /\ toldCancel[r] = "refused" => ~ok
    BY <1>1, <2>2 DEF LocalInv, TaskInv, CancelInv, ToldInv, Pre, None, Terminals, IndInv, TypeOK
  <2>4. RecordInv(r)' /\ CancelInv(r)'
    BY <1>1, <1>9, <2>1, <2>2, <2>3 DEF LocalInv, RecordInv, CancelInv, TaskInv, None, Terminals
  <2>5. TaskInv(r)' /\ ToldInv(r)'
    BY <1>1, <1>9, <2>1, <2>2, <2>3
    DEF LocalInv, RecordInv, TaskInv, CancelInv, ToldInv, Early, Pre, None, Terminals
  <2> QED
    BY <2>4, <2>5 DEF LocalInv
<1> QED
  BY <1>8, <1>10, <1>11, <1>12, <1>13, <1>14, WritesKeeps

-----------------------------------------------------------------------------
(* The theorems.                                                           *)

(* The invariant holds of empty stores.                                    *)
LEMMA InitSatisfies ==
  ASSUME Init
  PROVE  IndInv
<1> USE DEF Init
<1>1. TypeOK
  BY DEF TypeOK
<1>2. ChainInv /\ HoldInv
  <2>1. Begun = {}
    BY DEF Begun
  <2> QED
    BY <2>1, FS_EmptySet DEF ChainInv, HoldInv, Ancestors
<1>3. PinInv /\ StoreInv
  <2>1. \A r \in Requests : Owners(r) = {}
    BY DEF Owners
  <2> QED
    BY <2>1, FS_EmptySet, CapAssumption DEF PinInv, StoreInv
<1>4. \A r \in Requests : LocalInv(r)
  BY DEF LocalInv, RecordInv, TaskInv, CancelInv, ToldInv, Early, Pre, None, Terminals
<1> QED
  BY <1>1, <1>2, <1>3, <1>4 DEF IndInv, SharedInv

(* Whatever one request does.                                              *)
LEMMA RequestStepKeeps ==
  ASSUME IndInv, NEW r \in Requests, RequestStep(r)
  PROVE  IndInv'
<1>1. ASSUME Commit(r)
      PROVE  IndInv'
  BY <1>1, CommitCompletedKeeps, CommitOtherKeeps DEF Commit
<1> QED
  BY <1>1, ResolveKeeps, RegisterKeeps, SessionEndsKeeps, PutKeeps, FinishProjectsKeeps,
     FinishTransientKeeps, FinishBeginsKeeps, CommitRefusedKeeps, FinishResumesKeeps, AbandonKeeps
  DEF RequestStep

(* Every step preserves the invariant.                                     *)
LEMMA NextKeeps ==
  ASSUME IndInv, [Next]_vars
  PROVE  IndInv'
<1>1. CASE UNCHANGED vars
  <2>1. TypeOK'
    BY <1>1 DEF vars, IndInv, TypeOK
  <2>2. ChainInv' /\ HoldInv'
    BY <1>1 DEF vars, IndInv, SharedInv, ChainInv, HoldInv, Begun, Ancestors
  <2>3. PinInv' /\ StoreInv'
    BY <1>1 DEF vars, IndInv, SharedInv, PinInv, StoreInv, Owners
  <2>4. \A x \in Requests : Undisturbed(x)
    BY <1>1 DEF vars, Undisturbed, IndInv, LocalInv, RecordInv
  <2> QED
    BY <2>1, <2>2, <2>3, <2>4, UndisturbedKeeps DEF IndInv, SharedInv
<1>2. CASE Next
  <2>1. PICK r \in Requests :
          \/ \E keep \in StoreChoices : BeginFresh(r, keep)
          \/ \E p \in Requests, keep \in StoreChoices : BeginContinuation(r, p, keep)
          \/ RequestStep(r)
          \/ SetupEnds(r) \/ Disconnect(r) \/ FinishInterrupted(r) \/ LeaveFails(r)
          \/ CancelLate(r) \/ CancelBegins(r) \/ CancelEnds(r)
          \/ Retrieve(r)
          \/ ExpireState(r) \/ ExpireWire(r)
    BY <1>2 DEF Next
  <2>2. ASSUME CancelEnds(r)
        PROVE  IndInv'
    BY <2>2, CancelCommitsKeeps, CancelRefusedKeeps, CancelFailsKeeps DEF CancelEnds
  <2> QED
    BY <2>1, <2>2, BeginFreshKeeps, BeginContinuationKeeps, RequestStepKeeps, SetupEndsKeeps,
       DisconnectKeeps, FinishInterruptedKeeps, LeaveFailsKeeps, CancelLateKeeps,
       CancelBeginsKeeps, RetrieveKeeps, ExpireStateKeeps, ExpireWireKeeps
<1> QED
  BY <1>1, <1>2

(* Induction over the behaviour.                                           *)
LEMMA Inductive == Spec => []IndInv
<1>1. Init => IndInv
  BY InitSatisfies
<1>2. IndInv /\ [Next]_vars => IndInv'
  BY NextKeeps
<1> QED
  BY <1>1, <1>2, PTL DEF Spec

(* Types of the state, for any number of requests and any budgets.         *)
THEOREM TypesCorrect == Spec => []TypeOK
<1>1. IndInv => TypeOK
  BY DEF IndInv
<1> QED
  BY <1>1, Inductive, PTL

(* A continuation's context is never pulled from under it, the pins of     *)
(* both stores count their owners exactly, and nothing of a request        *)
(* outlives it: for any number of requests, in any order of finish(),      *)
(* cancel(), retrieve(), expiry, eviction and disconnects.                 *)
THEOREM PinsCorrect == Spec => []PinsAreExact
<1>1. ASSUME IndInv
      PROVE  PinsAreExact
  <2>1. \A o \in Requests : held[o] \subseteq wire \cap state
    BY <1>1 DEF IndInv, SharedInv, HoldInv
  <2>2. \A r \in Requests :
          LET owners == Cardinality({o \in Requests : r \in held[o]})
          IN  wirePins[r] = owners /\ statePins[r] = owners
    BY <1>1 DEF IndInv, SharedInv, PinInv, Owners
  <2>3. \A r \in Requests :
          /\ (pc[r] = "done" /\ cpc[r] # "cancelling") =>
                r \notin active /\ r \notin pending /\ winner[r] = None /\ held[r] = {}
          /\ lock[r] = "cancel" => cpc[r] = "cancelling"
          /\ lock[r] = "request" => pc[r] \in {"committing", "committed", "refused"}
    BY <1>1 DEF IndInv, LocalInv, TaskInv, CancelInv
  <2> QED
    BY <2>1, <2>2, <2>3 DEF PinsAreExact
<1> QED
  BY <1>1, Inductive, PTL

(* Both stores stay within their budgets and closed under ancestors, and   *)
(* finish(), cancel() and the records never tell two different terminals.  *)
THEOREM StoresCorrect == Spec => []StoresTellTheTruth
<1>1. ASSUME IndInv
      PROVE  StoresTellTheTruth
  <2>1. /\ Cardinality(wire) <= WireCap /\ Cardinality(state) <= StateCap
        /\ \A r \in wire : chain[r] \subseteq wire
        /\ \A r \in state : chain[r] \subseteq state
    BY <1>1 DEF IndInv, SharedInv, StoreInv
  <2>2. \A r \in Requests :
          /\ (told[r] \in Terminals /\ toldCancel[r] \in Terminals) => told[r] = toldCancel[r]
          /\ (r \in wire /\ told[r] # None) => wireStatus[r] = told[r]
          /\ (r \in wire /\ toldCancel[r] # None) => wireStatus[r] = toldCancel[r]
          /\ (r \in state /\ told[r] # None) => told[r] = "completed"
          /\ (r \in state /\ toldCancel[r] # None) => toldCancel[r] = "completed"
    BY <1>1 DEF IndInv, LocalInv, ToldInv
  <2> QED
    BY <2>1, <2>2 DEF StoresTellTheTruth
<1> QED
  BY <1>1, Inductive, PTL

(* The wins of one request: only these steps record a terminal.            *)
LEMMA WinnerComesFrom ==
  ASSUME IndInv, NEW r \in Requests, NEW x \in Requests,
         \/ \E keep \in StoreChoices : BeginFresh(r, keep)
         \/ \E p \in Requests, keep \in StoreChoices : BeginContinuation(r, p, keep)
         \/ RequestStep(r)
         \/ SetupEnds(r) \/ Disconnect(r) \/ FinishInterrupted(r) \/ LeaveFails(r)
         \/ CancelLate(r) \/ CancelBegins(r) \/ CancelEnds(r)
         \/ Retrieve(r)
         \/ ExpireState(r) \/ ExpireWire(r),
         store[x], winner[x] = None, winner'[x] # None
  PROVE  x = r /\ (Commit(r) \/ \E leftW \in WireRooms(r) : CancelCommits(r, leftW))
<1> USE DEF registry
<1>0. winner \in [Requests -> Terminals \cup {None}]
  BY DEF IndInv, TypeOK
<1>1. CASE \/ \E keep \in StoreChoices : BeginFresh(r, keep)
           \/ \E p \in Requests, keep \in StoreChoices : BeginContinuation(r, p, keep)
           \/ SetupEnds(r) \/ Disconnect(r) \/ FinishInterrupted(r) \/ LeaveFails(r)
           \/ CancelLate(r) \/ CancelBegins(r)
           \/ ExpireState(r) \/ ExpireWire(r)
  BY <1>1 DEF BeginFresh, BeginContinuation, SetupEnds, Disconnect, FinishInterrupted, LeaveFails,
              CancelLate, CancelBegins, ExpireState, ExpireWire
<1>2. CASE Retrieve(r)
  BY <1>0, <1>2 DEF Retrieve
<1>3. CASE CancelEnds(r)
  <2>1. CASE \E leftW \in IF store[r] THEN WireRooms(r) ELSE {wire} : CancelCommits(r, leftW)
    <3>1. PICK leftW \in IF store[r] THEN WireRooms(r) ELSE {wire} : CancelCommits(r, leftW)
      BY <2>1
    <3>2. x = r
      BY <1>0, <3>1 DEF CancelCommits
    <3> QED
      BY <3>1, <3>2
  <2> QED
    BY <1>3, <2>1 DEF CancelEnds, CancelRefused, CancelFails
<1>4. CASE RequestStep(r)
  <2>1. CASE Commit(r)
    BY <1>0, <2>1 DEF Commit, CommitCompleted, CommitOther
  <2>2. CASE FinishTransient(r)
    BY <1>0, <2>2 DEF FinishTransient
  <2>3. CASE Register(r) \/ Abandon(r)
    BY <1>0, <2>3 DEF Register, Abandon
  <2>4. CASE \/ \E next \in {"counting", "submitting"} : Resolve(r, next)
             \/ \E s \in Statuses : SessionEnds(r, s)
             \/ Put(r) \/ FinishProjects(r) \/ FinishBegins(r) \/ CommitRefused(r) \/ FinishResumes(r)
    BY <2>4 DEF Resolve, SessionEnds, Put, FinishProjects, FinishBegins, CommitRefused, FinishResumes
  <2> QED
    BY <1>4, <2>1, <2>2, <2>3, <2>4 DEF RequestStep
<1> QED
  BY <1>1, <1>2, <1>3, <1>4

(* A stored response whose terminal commits is retained with it in the     *)
(* same step, unless a refused cancel dropped its registration before, and *)
(* one committed as completed can be continued at once.                    *)
Retained(x) ==
  /\ (x \in wire' /\ wireStatus'[x] = winner'[x]) \/ toldCancel[x] = "refused"
  /\ winner'[x] = "completed" =>
       /\ chain[x] \subseteq wire' /\ chain[x] \subseteq state'
       /\ \A c \in chain[x] : wireStatus'[c] = "completed"

(* The commit that decides a response stores it.                           *)
LEMMA CommitRetains ==
  ASSUME IndInv, NEW r \in Requests, Commit(r), winner'[r] # None
  PROVE  Retained(r)
<1>1. PICK leftW \in IF Retains(r) THEN WireRooms(r) ELSE {wire} :
        \/ \E leftS \in StateRooms(r) : CommitCompleted(r, leftS, leftW)
        \/ CommitOther(r, leftW)
  BY DEF Commit
<1>2. /\ pc[r] = "committing" /\ winner[r] = None /\ r \notin wire /\ r \notin state
      /\ r \in active \/ toldCancel[r] = "refused"
  BY <1>1, UnfinishedIsLoose
  DEF CommitCompleted, CommitOther, IndInv, LocalInv, TaskInv, Pre
<1>3. ASSUME r \in active
      PROVE  chain[r] \subseteq leftW /\ r \in leftW
  BY <1>1, <1>3, WireRoom DEF Retains, IndInv, SharedInv, ChainInv
<1>4. CASE CommitOther(r, leftW)
  <2>1. winner'[r] = status[r] /\ status[r] # "completed"
    BY <1>4 DEF CommitOther, IndInv, TypeOK
  <2>2. r \in active => r \in wire' /\ wireStatus'[r] = status[r]
    BY <1>3, <1>4 DEF CommitOther, SetWire, IndInv, TypeOK
  <2> QED
    BY <1>2, <2>1, <2>2 DEF Retained
<1>5. ASSUME NEW leftS \in StateRooms(r), CommitCompleted(r, leftS, leftW)
      PROVE  Retained(r)
  <2> DEFINE ids  == RemoveSubtrees(leftS, chain, wire \ leftW)
             wids == RemoveSubtrees(leftW, chain, state \ leftS)
             statuses == [wireStatus EXCEPT ![r] = IF r \in active THEN "completed" ELSE @]
  <2>1. /\ r \in active => chain[r] \subseteq ids \cap wids
        /\ Inconsistent(ids, wids, statuses, r) = {} <=> r \in active
    BY <1>2, RoomsAgree, CommitDecides
  <2>2. winner'[r] = IF r \in active THEN "completed" ELSE None
    BY <1>5, <2>1 DEF CommitCompleted, IndInv, TypeOK
  <2>3. r \in active
    BY <2>2
  <2>4. SetState(ids, statePins) /\ SetWire(wids, statuses, wirePins)
    BY <1>5, <2>1, <2>3 DEF CommitCompleted
  <2>5. \A c \in chain[r] : statuses[c] = "completed"
    BY <2>1, <2>3 DEF Inconsistent
  <2>6. chain[r] \subseteq Requests /\ r \in chain[r]
    BY DEF IndInv, TypeOK, SharedInv, ChainInv
  <2> HIDE DEF ids, wids, statuses
  <2>7. /\ chain[r] \subseteq wire' /\ chain[r] \subseteq state'
        /\ \A c \in chain[r] : wireStatus'[c] = "completed"
    BY <2>1, <2>3, <2>4, <2>5, <2>6 DEF SetState, SetWire
  <2> QED
    BY <2>2, <2>3, <2>6, <2>7 DEF Retained
<1> QED
  BY <1>1, <1>4, <1>5

(* And so does the cancellation that decides it.                           *)
LEMMA CancelRetains ==
  ASSUME IndInv, NEW r \in Requests, NEW leftW \in WireRooms(r), CancelCommits(r, leftW)
  PROVE  Retained(r)
<1>1. winner'[r] = "cancelled"
  BY DEF CancelCommits, IndInv, TypeOK
<1>2. r \in leftW
  BY WireRoom DEF IndInv, SharedInv, ChainInv
<1>3. r \in wire' /\ wireStatus'[r] = "cancelled"
  BY <1>2 DEF CancelCommits, SetWire, IndInv, TypeOK
<1> QED
  BY <1>1, <1>3 DEF Retained

(* Whoever decides a response that is to be stored (_commit_terminal,      *)
(* _commit_prepared_cancel) retains its record in the same step.           *)
THEOREM CommitsCorrect == Spec => CommittedIsRetained
<1>1. IndInv /\ [Next]_vars =>
        [\A r \in Requests :
           (store[r] /\ winner[r] = None /\ winner'[r] # None) =>
             /\ (r \in wire' /\ wireStatus'[r] = winner'[r]) \/ toldCancel[r] = "refused"
             /\ winner'[r] = "completed" =>
                  /\ chain[r] \subseteq wire' /\ chain[r] \subseteq state'
                  /\ \A c \in chain[r] : wireStatus'[c] = "completed"]_vars
  <2> SUFFICES ASSUME IndInv, Next, NEW x \in Requests,
                      store[x], winner[x] = None, winner'[x] # None
               PROVE  Retained(x)
    BY DEF Retained
  <2>1. PICK r \in Requests :
          \/ \E keep \in StoreChoices : BeginFresh(r, keep)
          \/ \E p \in Requests, keep \in StoreChoices : BeginContinuation(r, p, keep)
          \/ RequestStep(r)
          \/ SetupEnds(r) \/ Disconnect(r) \/ FinishInterrupted(r) \/ LeaveFails(r)
          \/ CancelLate(r) \/ CancelBegins(r) \/ CancelEnds(r)
          \/ Retrieve(r)
          \/ ExpireState(r) \/ ExpireWire(r)
    BY DEF Next
  <2>2. x = r /\ (Commit(r) \/ \E leftW \in WireRooms(r) : CancelCommits(r, leftW))
    BY <2>1, WinnerComesFrom
  <2> QED
    BY <2>2, CommitRetains, CancelRetains
<1> QED
  BY <1>1, Inductive, PTL DEF Spec, CommittedIsRetained
=============================================================================
