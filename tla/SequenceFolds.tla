---------------------------- MODULE SequenceFolds ----------------------------
(***************************************************************************)
(* What the proofs of this project know of folds over sequences and of     *)
(* induction on a sequence.                                                *)
(*                                                                         *)
(* The library defines FoldLeft by a recursive function on sets of         *)
(* positions.  Such a function exists (FoldOverExists), passes the         *)
(* elements from left to right (FoldRuns), and so has a value for one more *)
(* element (FoldAppend).  The operator that is folded cannot be a          *)
(* parameter of a lemma; here it is a function g, and the proof about an   *)
(* operator shows first that its fold is the one by such a function.       *)
(***************************************************************************)
EXTENDS Integers, SequencesExt, SequenceTheorems, WellFoundedInduction, TLAPS

(* Induction over an interval, for a set in place of a predicate.          *)
LEMMA SetInduction ==
  ASSUME NEW n \in Nat, NEW T, 0 \in T, \A i \in 0..(n - 1) : i \in T => i + 1 \in T
  PROVE  \A i \in 0..n : i \in T
<1> SUFFICES ASSUME NEW j \in 0..n, j \notin T PROVE FALSE
  OBVIOUS
<1> DEFINE R == OpToRel(<, Nat)
<1> DEFINE B == {i \in 0..n : i \notin T}
<1>1. \A x, y \in Nat : y < x => <<y, x>> \in R
  BY DEF OpToRel
<1>2. IsWellFoundedOn(R, Nat)
  BY NatLessThanWellFounded
<1>3. B \in SUBSET Nat /\ B # {}
  OBVIOUS
<1> HIDE DEF R
<1>4. PICK x \in B : \A y \in B : ~(<<y, x>> \in R)
  BY <1>2, <1>3, WFMin
<1>5. x - 1 \in 0..(n - 1) /\ x - 1 \notin B /\ <<x - 1, x>> \in R
  BY <1>1, <1>4
<1> QED
  BY <1>4, <1>5

(* The library's Max of a nonempty set of positions.                       *)
LEMMA MaxOfPart ==
  ASSUME NEW n \in Nat, NEW s \in SUBSET (1..n), s # {}
  PROVE  Max(s) \in s /\ \A y \in s : y <= Max(s)
<1>1. ASSUME \A x \in s : \E y \in s : y > x PROVE FALSE
  <2> DEFINE T == {i \in 0..n : \E y \in s : y > i}
  <2>1. 0 \in T
    <3>1. PICK y \in s : TRUE
      OBVIOUS
    <3>2. y > 0
      OBVIOUS
    <3> QED
      BY <3>2
  <2>2. \A i \in 0..(n - 1) : i \in T => i + 1 \in T
    <3> SUFFICES ASSUME NEW i \in 0..(n - 1), NEW y \in s, y > i PROVE \E z \in s : z > i + 1
      OBVIOUS
    <3>1. CASE y > i + 1
      BY <3>1
    <3>2. CASE y = i + 1
      BY <1>1, <3>2
    <3> QED
      BY <3>1, <3>2
  <2> HIDE DEF T
  <2>3. n \in T
    BY <2>1, <2>2, SetInduction
  <2> QED
    BY <2>3 DEF T
<1>2. PICK x \in s : \A y \in s : x >= y
  BY <1>1
<1>3. Max(s) \in s /\ \A y \in s : Max(s) >= y
  BY <1>2, Zenon DEF Max
<1> QED
  BY <1>3

(* F gives for each part of 1..n what folding g over it, in order, gives.  *)
IsFold(F, V, a, n, g) ==
  /\ F \in [SUBSET (1..n) -> V]
  /\ F[{}] = a
  /\ \A s \in SUBSET (1..n) : s # {} => F[s] = g[F[s \ {Max(s)}]][Max(s)]

(* A fold over the parts of 1..k is one over those of 1..(k + 1).          *)
LEMMA FoldGrows ==
  ASSUME NEW V, NEW a \in V, NEW n \in Nat, NEW g \in [V -> [1..n -> V]],
         NEW k \in 0..(n - 1), NEW F, IsFold(F, V, a, k, g)
  PROVE  \E G : IsFold(G, V, a, k + 1, g)
<1> DEFINE G == [s \in SUBSET (1..(k + 1)) |->
                   IF k + 1 \in s THEN g[F[s \ {k + 1}]][k + 1] ELSE F[s]]
<1>1. ASSUME NEW s \in SUBSET (1..(k + 1))
      PROVE  /\ s \ {k + 1} \in SUBSET (1..k)
             /\ k + 1 \notin s => s \in SUBSET (1..k)
  <2>1. \A x \in 1..(k + 1) : x # k + 1 => x \in 1..k
    OBVIOUS
  <2> QED
    BY <2>1, Zenon
<1>2. G \in [SUBSET (1..(k + 1)) -> V]
  <2> SUFFICES ASSUME NEW s \in SUBSET (1..(k + 1)) PROVE G[s] \in V
    OBVIOUS
  <2>1. CASE k + 1 \in s
    <3>1. s \ {k + 1} \in SUBSET (1..k)
      BY <1>1
    <3>2. F[s \ {k + 1}] \in V /\ k + 1 \in 1..n
      BY <3>1 DEF IsFold
    <3> QED
      BY <2>1, <3>2
  <2>2. CASE k + 1 \notin s
    BY <1>1, <2>2 DEF IsFold
  <2> QED
    BY <2>1, <2>2
<1>3. ASSUME NEW s \in SUBSET (1..(k + 1)), s # {}
      PROVE  G[s] = g[G[s \ {Max(s)}]][Max(s)]
  <2> DEFINE m == Max(s)
  <2>1. m \in s /\ \A y \in s : y <= m
    <3>1. k + 1 \in Nat
      OBVIOUS
    <3> QED
      BY <1>3, <3>1, MaxOfPart, Zenon
  <2> HIDE DEF m
  <2>2. CASE k + 1 \in s
    <3>1. m = k + 1
      BY <2>1, <2>2
    <3>2. G[s \ {k + 1}] = F[s \ {k + 1}]
      OBVIOUS
    <3>3. G[s] = g[F[s \ {k + 1}]][k + 1]
      BY <2>2
    <3> HIDE DEF G
    <3> QED
      BY <3>1, <3>2, <3>3 DEF m
  <2>3. CASE k + 1 \notin s
    <3>1. s \in SUBSET (1..k) /\ s \ {m} \in SUBSET (1..k) /\ k + 1 \notin s \ {m}
      BY <1>1, <2>3
    <3>2. G[s] = F[s] /\ G[s \ {m}] = F[s \ {m}]
      BY <2>3, <3>1
    <3>3. F[s] = g[F[s \ {m}]][m]
      BY <1>3, <3>1, Zenon DEF m, IsFold
    <3> HIDE DEF G
    <3> QED
      BY <3>2, <3>3 DEF m
  <2> QED
    BY <2>2, <2>3
<1>4. G[{}] = a
  <2>1. {} \in SUBSET (1..(k + 1)) /\ k + 1 \notin {}
    OBVIOUS
  <2> QED
    BY <2>1 DEF IsFold
<1> HIDE DEF G
<1> QED
  BY <1>2, <1>3, <1>4, Zenon DEF IsFold

(* The function by which the library defines a fold exists.                *)
LEMMA FoldExists ==
  ASSUME NEW V, NEW a \in V, NEW n \in Nat, NEW g \in [V -> [1..n -> V]]
  PROVE  \E F : IsFold(F, V, a, n, g)
<1> DEFINE T == {k \in 0..n : \E F : IsFold(F, V, a, k, g)}
<1>1. 0 \in T
  <2> DEFINE F == [s \in SUBSET (1..0) |-> a]
  <2>1. F \in [SUBSET (1..0) -> V] /\ F[{}] = a
    OBVIOUS
  <2>2. \A s \in SUBSET (1..0) : s = {}
    OBVIOUS
  <2> HIDE DEF F
  <2>3. IsFold(F, V, a, 0, g)
    BY <2>1, <2>2, Zenon DEF IsFold
  <2> QED
    BY <2>3
<1>2. \A k \in 0..(n - 1) : k \in T => k + 1 \in T
  <2> SUFFICES ASSUME NEW k \in 0..(n - 1), k \in T PROVE k + 1 \in T
    OBVIOUS
  <2>1. \E G : IsFold(G, V, a, k + 1, g)
    BY FoldGrows
  <2>2. k + 1 \in 0..n
    OBVIOUS
  <2> QED
    BY <2>1, <2>2
<1> HIDE DEF T
<1>3. n \in T
  <2>1. \A i \in 0..n : i \in T
    BY <1>1, <1>2, SetInduction
  <2> QED
    BY <2>1
<1> QED
  BY <1>3 DEF T

(* The parts 1..i of an interval, and what Max takes from one.             *)
LEMMA FoldPart ==
  ASSUME NEW n \in Nat, NEW i \in 1..n
  PROVE  /\ 1..i # {} /\ 1..i \in SUBSET (1..n) /\ 1..(i - 1) \in SUBSET (1..n)
         /\ Max(1..i) = i /\ (1..i) \ {i} = 1..(i - 1)
<1>1. 1..i # {} /\ 1..i \in SUBSET (1..n) /\ 1..(i - 1) \in SUBSET (1..n) /\ i \in 1..i
  OBVIOUS
<1>2. Max(1..i) \in 1..i /\ \A y \in 1..i : y <= Max(1..i)
  BY <1>1, MaxOfPart, Zenon
<1>3. (1..i) \ {i} = 1..(i - 1)
  OBVIOUS
<1> QED
  BY <1>1, <1>2, <1>3

(* F is what a fold from a by g over s gives for each part of s.           *)
FoldOver(F, V, E, a, g, s) ==
  /\ F \in [SUBSET DOMAIN s -> V]
  /\ F[{}] = a
  /\ \A p \in SUBSET DOMAIN s : p # {} =>
       /\ F[p \ {Max(p)}] \in V /\ s[Max(p)] \in E
       /\ F[p] = g[F[p \ {Max(p)}]][s[Max(p)]]

(* The same with the elements of a sequence in place of its positions.     *)
LEMMA FoldOverExists ==
  ASSUME NEW V, NEW E, NEW a \in V, NEW g \in [V -> [E -> V]], NEW s \in Seq(E)
  PROVE  \E F : FoldOver(F, V, E, a, g, s)
<1> DEFINE n == Len(s)
           h == [v \in V |-> [i \in 1..n |-> g[v][s[i]]]]
<1>1. n \in Nat /\ DOMAIN s = 1..n /\ \A i \in 1..n : s[i] \in E
  OBVIOUS
<1> HIDE DEF n
<1>2. h \in [V -> [1..n -> V]]
  BY <1>1
<1>3. \A v \in V, i \in 1..n : h[v][i] = g[v][s[i]]
  OBVIOUS
<1> HIDE DEF h
<1>4. PICK F : IsFold(F, V, a, n, h)
  BY <1>1, <1>2, FoldExists
<1>5. ASSUME NEW p \in SUBSET (1..n), p # {}
      PROVE  /\ F[p \ {Max(p)}] \in V /\ s[Max(p)] \in E
             /\ F[p] = g[F[p \ {Max(p)}]][s[Max(p)]]
  <2>1. Max(p) \in 1..n
    BY <1>1, <1>5, MaxOfPart
  <2>2. F[p \ {Max(p)}] \in V
    BY <1>4 DEF IsFold
  <2> QED
    BY <1>1, <1>3, <1>4, <1>5, <2>1, <2>2 DEF IsFold
<1> QED
  BY <1>1, <1>4, <1>5 DEF IsFold, FoldOver

(* A fold that never leaves V is the last of its partial folds up.         *)
IsRun(up, V, a, g, s, result) ==
  /\ up \in [0..Len(s) -> V] /\ up[0] = a /\ up[Len(s)] = result
  /\ \A i \in 1..Len(s) : up[i] = g[up[i - 1]][s[i]]

(* Folding g over s from a gives result, without leaving V.                *)
FoldsTo(V, a, g, s, result) == \E up : IsRun(up, V, a, g, s, result)

(* What the library's definition says of the function that folds.          *)
Folds(C, V, a, g, s) ==
  /\ C[{}] = a
  /\ \A p \in SUBSET DOMAIN s :
       p # {} /\ C[p \ {Max(p)}] \in V => C[p] = g[C[p \ {Max(p)}]][s[Max(p)]]

(* A fold by the library's definition passes the elements from left to     *)
(* right.                                                                  *)
LEMMA FoldRuns ==
  ASSUME NEW V, NEW E, NEW a \in V, NEW g \in [V -> [E -> V]], NEW s \in Seq(E), NEW C,
         Folds(C, V, a, g, s), NEW result, result = C[DOMAIN s]
  PROVE  FoldsTo(V, a, g, s, result)
<1> DEFINE n == Len(s)
           up == [i \in 0..n |-> C[1..i]]
           T == {i \in 0..n : up[i] \in V}
<1>0. n \in Nat /\ DOMAIN s = 1..n /\ \A i \in 1..n : s[i] \in E
  OBVIOUS
<1>n. n = Len(s)
  OBVIOUS
<1> HIDE DEF n
<1>1. up[0] = a /\ up[n] = result
  <2>1. 1..0 = {} /\ 0 \in 0..n /\ n \in 0..n
    BY <1>0
  <2> QED
    BY <1>0, <2>1 DEF Folds
<1>2. ASSUME NEW i \in 1..n, up[i - 1] \in V
      PROVE  up[i] = g[up[i - 1]][s[i]] /\ up[i] \in V
  <2>1. i \in 0..n /\ i - 1 \in 0..n
    BY <1>0
  <2>2. up[i] = C[1..i] /\ up[i - 1] = C[1..(i - 1)]
    BY <2>1
  <2>3. /\ 1..i # {} /\ 1..i \in SUBSET (1..n)
        /\ Max(1..i) = i /\ (1..i) \ {i} = 1..(i - 1)
    BY <1>0, FoldPart
  <2> HIDE DEF up
  <2>4. 1..i \in SUBSET DOMAIN s /\ C[(1..i) \ {Max(1..i)}] \in V
    BY <1>0, <1>2, <2>2, <2>3
  <2>5. C[1..i] = g[C[(1..i) \ {Max(1..i)}]][s[Max(1..i)]]
    BY <2>3, <2>4, Zenon DEF Folds
  <2>6. up[i] = g[up[i - 1]][s[i]]
    BY <2>2, <2>3, <2>5
  <2> QED
    BY <1>0, <1>2, <2>6
<1> HIDE DEF up
<1>3. 0 \in T
  BY <1>0, <1>1
<1>4. \A i \in 0..(n - 1) : i \in T => i + 1 \in T
  <2> SUFFICES ASSUME NEW i \in 0..(n - 1), i \in T PROVE i + 1 \in T
    OBVIOUS
  <2>1. i + 1 \in 1..n /\ i + 1 \in 0..n /\ (i + 1) - 1 = i
    BY <1>0
  <2> QED
    BY <1>2, <2>1
<1> HIDE DEF T
<1>5. \A i \in 0..n : i \in T
  BY <1>0, <1>3, <1>4, SetInduction
<1>6. \A i \in 0..n : up[i] \in V
  BY <1>5 DEF T
<1>7. \A i \in 1..n : up[i] = g[up[i - 1]][s[i]]
  <2> SUFFICES ASSUME NEW i \in 1..n PROVE up[i] = g[up[i - 1]][s[i]]
    OBVIOUS
  <2>1. i - 1 \in 0..n
    BY <1>0
  <2> QED
    BY <1>2, <1>6, <2>1
<1>8. up \in [0..n -> V]
  BY <1>6 DEF up
<1> QED
  BY <1>1, <1>7, <1>8, <1>n DEF IsRun, FoldsTo

(* What a fold gives for the empty sequence and for one more element.      *)
LEMMA FoldEmpty ==
  ASSUME NEW V, NEW a, NEW g, NEW result, FoldsTo(V, a, g, <<>>, result)
  PROVE  result = a
<1>1. Len(<<>>) = 0
  OBVIOUS
<1> QED
  BY <1>1 DEF IsRun, FoldsTo

(* One more element.                                                       *)
Longer(more, s, e) == more = Append(s, e)

(* A fold over s goes on with one more element.                            *)
Continues(V, E, a, g, s, e, more) ==
  /\ a \in V /\ g \in [V -> [E -> V]] /\ s \in Seq(E) /\ e \in E
  /\ Longer(more, s, e)

(* What folding one more element gives.                                    *)
LEMMA FoldAppend ==
  ASSUME NEW V, NEW E, NEW a, NEW g, NEW s, NEW e, NEW more, Continues(V, E, a, g, s, e, more),
         NEW result, FoldsTo(V, a, g, s, result), NEW longer, FoldsTo(V, a, g, more, longer)
  PROVE  result \in V /\ longer = g[result][e]
<1>0. /\ a \in V /\ g \in [V -> [E -> V]] /\ s \in Seq(E) /\ e \in E
      /\ more = Append(s, e)
  BY DEF Continues, Longer
<1> DEFINE n == Len(s)
<1>1. n \in Nat /\ Len(more) = n + 1 /\ more[n + 1] = e /\ n = Len(s)
  BY <1>0
<1>2. \A i \in 1..n : more[i] = s[i]
  BY <1>0
<1>3. PICK up : IsRun(up, V, a, g, s, result)
  BY DEF FoldsTo
<1>4. PICK to : IsRun(to, V, a, g, more, longer)
  BY DEF FoldsTo
<1> HIDE DEF n
<1> DEFINE T == {i \in 0..n : to[i] = up[i]}
<1>5. 0 \in T
  BY <1>1, <1>3, <1>4 DEF IsRun
<1>6. \A i \in 0..(n - 1) : i \in T => i + 1 \in T
  <2> SUFFICES ASSUME NEW i \in 0..(n - 1), i \in T PROVE i + 1 \in T
    OBVIOUS
  <2>1. i + 1 \in 1..n /\ i + 1 \in 1..(n + 1) /\ i + 1 \in 0..n /\ (i + 1) - 1 = i
    BY <1>1
  <2>2. up[i + 1] = g[up[i]][s[i + 1]]
    BY <1>1, <1>3, <2>1 DEF IsRun
  <2>3. to[i + 1] = g[to[i]][more[i + 1]]
    BY <1>1, <1>4, <2>1 DEF IsRun
  <2> QED
    BY <1>2, <2>1, <2>2, <2>3
<1> HIDE DEF T
<1>7. to[n] = up[n]
  <2>1. \A i \in 0..n : i \in T
    BY <1>1, <1>5, <1>6, SetInduction
  <2> QED
    BY <1>1, <2>1 DEF T
<1>8. to[n + 1] = g[to[n]][e]
  <2>1. n + 1 \in 1..(n + 1) /\ (n + 1) - 1 = n
    BY <1>1
  <2> QED
    BY <1>1, <1>4, <2>1 DEF IsRun
<1>9. n \in 0..n
  BY <1>1
<1> QED
  BY <1>1, <1>3, <1>4, <1>7, <1>8, <1>9 DEF IsRun

(* A set of sequences that has the empty one and every extension of its    *)
(* members has them all.                                                   *)
LEMMA SeqInduction ==
  ASSUME NEW X, NEW T, <<>> \in T, \A s \in Seq(X), e \in X : s \in T => Append(s, e) \in T
  PROVE  \A s \in Seq(X) : s \in T
<1> SUFFICES ASSUME NEW s \in Seq(X) PROVE s \in T
  OBVIOUS
<1> DEFINE n == Len(s)
           P == {i \in 0..n : SubSeq(s, 1, i) \in T}
<1>1. n \in Nat
  OBVIOUS
<1>2. 0 \in P
  <2>1. SubSeq(s, 1, 0) = <<>>
    OBVIOUS
  <2>2. 0 \in 0..n
    BY <1>1
  <2> HIDE DEF n
  <2> QED
    BY <2>1, <2>2
<1>3. \A i \in 0..(n - 1) : i \in P => i + 1 \in P
  <2> SUFFICES ASSUME NEW i \in 0..(n - 1), SubSeq(s, 1, i) \in T PROVE SubSeq(s, 1, i + 1) \in T
    OBVIOUS
  <2>1. SubSeq(s, 1, i) \in Seq(X) /\ s[i + 1] \in X
    OBVIOUS
  <2>2. SubSeq(s, 1, i + 1) = Append(SubSeq(s, 1, i), s[i + 1])
    OBVIOUS
  <2> QED
    BY <2>1, <2>2
<1> HIDE DEF P
<1>4. \A i \in 0..n : i \in P
  BY <1>1, <1>2, <1>3, SetInduction
<1>5. n \in P
  BY <1>1, <1>4
<1>6. SubSeq(s, 1, n) = s
  OBVIOUS
<1> QED
  BY <1>5, <1>6 DEF P
=============================================================================
